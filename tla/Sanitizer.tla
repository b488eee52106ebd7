------------------------------ MODULE Sanitizer ------------------------------
(***************************************************************************)
(* The first stage of the hunter's pipeline, the L0 sanitizer:               *)
(* internal/scanner/sanitizer.go.  The goroutines of the DEXes call Check    *)
(* (L0Check), a goroutine of main forgets old deployers.  Each of the six    *)
(* filters reads its own state under its own lock and only the last one      *)
(* writes, so a Check is one step.                                          *)
(*                                                                         *)
(* What is known of a pool is a record; whether its name is one that          *)
(* scammers use is a fact of it, without the patterns.  What the entity       *)
(* graph (module Graph) answers is free.  Counters of drops are left out.     *)
(***************************************************************************)
EXTENDS Integers, FiniteSets

CONSTANTS
    Discoveries,    \* pools, see checkBlacklist to checkLiquidity
    Reports,        \* answers of QueryDeployer, see checkEntityGraph
    NoFunder,       \* SeedFunder when the graph knows none
    MinLiquidityUSD, MinQuoteReserveSOL, SybilClusterThreshold,
    MaxDeployerTokens24h,
    HistoryHours,   \* the 24 hours tokens of a deployer are counted over
    LastPass,       \* bound: time
    MaxSeen         \* bound: tokens of a deployer seen in one window

ASSUME SanitizerAssumption ==
    MaxDeployerTokens24h \in Nat \ {0} /\ HistoryHours \in Nat

VARIABLES
    hours,
    blacklist,
    deployerHist,   \* per address that is known: its count and firstSeen
    passes          \* history: what passed, and as the how manieth of which window
svars == <<hours, blacklist, deployerHist, passes>>

SanitizerInit ==
    hours = 0 /\ blacklist = {} /\ deployerHist = <<>> /\ passes = {}

-----------------------------------------------------------------------------
(* The filters of Check; token is "unknown" where GetTokenInfo gave none       *)

checkBlacklist(d) == d.mint \notin blacklist
checkNamePatterns(d) == d.token # "named like a scam"
checkAuthorities(d) == d.token # "freezable"
checkLiquidity(d) ==
    /\ d.usd >= MinLiquidityUSD
    /\ d.quote = "SOL" => d.reserve >= MinQuoteReserveSOL
checkEntityGraph(r) ==
    /\ r.hopsToRugger # 1
    /\ r.clusterSize <= SybilClusterThreshold
    /\ "WASH_TRADER" \notin r.labels
Clean(d, r) ==
    /\ checkBlacklist(d) /\ checkNamePatterns(d) /\ checkAuthorities(d)
    /\ checkLiquidity(d) /\ checkEntityGraph(r)

\* Whose history it counts for: the deployer, or the token itself.
CountedFor(d, r) == IF r.seedFunder = NoFunder THEN d.mint ELSE r.seedFunder

-----------------------------------------------------------------------------
(* checkDeployerHistory, and what forgets                                   *)

Known == DOMAIN deployerHist
Lapsed(a) == hours - deployerHist[a].firstSeen > HistoryHours

Count(a, entry) ==
    deployerHist' = [b \in Known \cup {a} |-> IF b = a THEN entry ELSE deployerHist[b]]
Pass(a, entry) ==
    passes' = passes \cup {[addr |-> a, at |-> hours,
                            window |-> entry.firstSeen, nth |-> entry.count]}

FirstToken(a) ==
    LET entry == [count |-> 1, firstSeen |-> hours]
    IN  (a \in Known => Lapsed(a)) /\ Count(a, entry) /\ Pass(a, entry)
\* Refused tokens are counted as well.
NextToken(a) ==
    /\ a \in Known /\ ~Lapsed(a) /\ deployerHist[a].count < MaxSeen
    /\ LET entry == [deployerHist[a] EXCEPT !.count = @ + 1]
       IN  /\ Count(a, entry)
           /\ IF entry.count > MaxDeployerTokens24h
              THEN UNCHANGED passes ELSE Pass(a, entry)

L0Check(d, r) ==
    /\ Clean(d, r)
    /\ FirstToken(CountedFor(d, r)) \/ NextToken(CountedFor(d, r))
    /\ UNCHANGED <<hours, blacklist>>

\* Mutant: every round of the cleanup forgets what is not from this hour.
ForgettableEarly(a) == hours > deployerHist[a].firstSeen
Forgettable(a) == hours - deployerHist[a].firstSeen > HistoryHours

CleanupDeployerHistory ==
    /\ \E a \in Known : Forgettable(a)
    /\ deployerHist' = [a \in {b \in Known : ~Forgettable(b)} |-> deployerHist[a]]
    /\ UNCHANGED <<hours, blacklist, passes>>

AddBlacklist(mint) ==
    /\ mint \notin blacklist
    /\ blacklist' = blacklist \cup {mint}
    /\ UNCHANGED <<hours, deployerHist, passes>>

TimePasses ==
    /\ hours < LastPass
    /\ hours' = hours + 1
    /\ UNCHANGED <<blacklist, deployerHist, passes>>

SanitizerNext ==
    \/ \E d \in Discoveries : AddBlacklist(d.mint) \/ \E r \in Reports : L0Check(d, r)
    \/ CleanupDeployerHistory \/ TimePasses

SanitizerSpec == SanitizerInit /\ [][SanitizerNext]_svars

-----------------------------------------------------------------------------
(* Properties                                                              *)

PassedAround(a, t) == {p \in passes : p.addr = a /\ t - HistoryHours <= p.at /\ p.at <= t}

(* A window of 24 hours starts with its first token and not with the hour, so *)
(* MaxDeployerTokens24h is no limit for 24 hours: a deployer can be late in     *)
(* one window and early in the next.  But any 24 hours meet two windows at      *)
(* most, and so twice the limit is one, whatever the cleanup has forgotten      *)
(* meanwhile and whatever the refused tokens added to the count                *)
(* (sanitizer.go checkDeployerHistory and CleanupDeployerHistory).            *)
DeployerBounded ==
    \A a \in {p.addr : p \in passes} : \A t \in 0 .. hours :
        Cardinality(PassedAround(a, t)) <= 2 * MaxDeployerTokens24h
=============================================================================
