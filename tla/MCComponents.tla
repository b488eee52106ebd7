---------------------------- MODULE MCComponents ----------------------------
(***************************************************************************)
(* Small instances of the components that share no state, side by side: the  *)
(* first state picks one component, and from then on only that one moves.    *)
(***************************************************************************)
EXTENDS Execution, Backtest, StrategyRuntime, SolanaRpc, PaperBroker,
    Discovery, Clusters, Sanitizer, MCScoring, Features, Momentum, ExitEngine, TLC

CONSTANTS i1, i2

VARIABLE which      \* the component that moves

Which == {"orders", "backtest", "runtime", "rpc", "broker", "discovery",
    "clusters", "scoring", "features", "momentum", "exits",
    "sanitizer"}

MCInit ==
    /\ which \in Which
    /\ Init /\ BInit /\ RInit /\ CInit
    /\ PInit /\ (which = "broker" \/ ~delayed)
    /\ DInit /\ (which = "discovery" \/ createdAt = [p \in Pools |-> 0])
    /\ ClustersInit /\ SanitizerInit
    /\ ScoringInit /\ (which = "scoring" \/ token = Hunted)
    /\ FInit /\ TInit /\ XInit

MCNext ==
    /\ \/ which = "orders" /\ Next
       \/ which = "backtest" /\ BNext
       \/ which = "runtime" /\ RNext
       \/ which = "rpc" /\ CNext
       \/ which = "broker" /\ PNext
       \/ which = "discovery" /\ DNext
       \/ which = "clusters" /\ ClustersNext
       \/ which = "sanitizer" /\ SanitizerNext
       \/ which = "scoring" /\ ScoringNext
       \/ which = "features" /\ FNext
       \/ which = "momentum" /\ TNext
       \/ which = "exits" /\ XNext
    /\ UNCHANGED which
    /\ IF which = "orders" THEN TRUE ELSE UNCHANGED vars
    /\ IF which = "backtest" THEN TRUE ELSE UNCHANGED bvars
    /\ IF which = "runtime" THEN TRUE ELSE UNCHANGED rvars
    /\ IF which = "rpc" THEN TRUE ELSE UNCHANGED rpcVars
    /\ IF which = "broker" THEN TRUE ELSE UNCHANGED pvars
    /\ IF which = "discovery" THEN TRUE ELSE UNCHANGED dvars
    /\ IF which = "clusters" THEN TRUE ELSE UNCHANGED cvars
    /\ IF which = "sanitizer" THEN TRUE ELSE UNCHANGED svars
    /\ IF which = "scoring" THEN TRUE ELSE UNCHANGED scoringVars
    /\ IF which = "features" THEN TRUE ELSE UNCHANGED fvars
    /\ IF which = "momentum" THEN TRUE ELSE UNCHANGED mvars
    /\ IF which = "exits" THEN TRUE ELSE UNCHANGED exitVars

allVars == <<which, vars, bvars, rvars, rpcVars, pvars, dvars, cvars, svars,
    scoringVars, fvars, mvars, exitVars>>
MCSpec == MCInit /\ [][MCNext]_allVars

-----------------------------------------------------------------------------
(* Values of the constants                                                 *)

MCTrades == {[price |-> 1, qty |-> 1, side |-> "buy"],
             [price |-> 2, qty |-> 1, side |-> "sell"],
             [price |-> 0, qty |-> 2, side |-> "unknown"]}
MCQuotes == {[bid |-> 100, ask |-> 110], [bid |-> 120, ask |-> 110]}
MCSizes == {-2, -1, 1, 3}
MCStrategyOf == [i \in Intents |-> IF i = i1 THEN "s1" ELSE "s2"]
MCSymbolOf == [i \in Intents |-> "k1"]
MCDirection == [i \in Intents |-> IF i = i1 THEN 1 ELSE -1]
MCQty == [i \in Intents |-> 1]
MCSymbolSet == [s \in StrategyIds |-> IF s = "sa" THEN {} ELSE {"X"}]

\* A pool without a fault, its token known or not, and one for each filter.
Faultless == [mint |-> "ma", token |-> "plain", usd |-> 2, quote |-> "SOL", reserve |-> 1]
MCDiscoveries == {Faultless, [Faultless EXCEPT !.token = "unknown"],
    [Faultless EXCEPT !.token = "named like a scam"],
    [Faultless EXCEPT !.token = "freezable"],
    [Faultless EXCEPT !.usd = 1], [Faultless EXCEPT !.reserve = 0],
    [Faultless EXCEPT !.quote = "USDC", !.reserve = 0]}
Innocent == [seedFunder |-> "dev", hopsToRugger |-> 0, clusterSize |-> 1, labels |-> {}]
MCReports == {Innocent, [Innocent EXCEPT !.seedFunder = "none"],
    [Innocent EXCEPT !.hopsToRugger = 1], [Innocent EXCEPT !.clusterSize = 3],
    [Innocent EXCEPT !.labels = {"WASH_TRADER"}]}

\* DefaultExitConfig
DefaultTPLevels == <<
    [multiplier |-> 150, sellPct |-> 25], [multiplier |-> 200, sellPct |-> 25],
    [multiplier |-> 300, sellPct |-> 25], [multiplier |-> 600, sellPct |-> 100] >>
DefaultTimedExits == <<
    [after |-> 240, sellPct |-> 50], [after |-> 720, sellPct |-> 75],
    [after |-> 1440, sellPct |-> 100] >>

\* Sound: nothing tells apart the two actors (traders, callers of the RPC client,
\* DEXes, pools, clusters, mints), and there is no liveness.
Alike == Permutations(Traders)
=============================================================================
