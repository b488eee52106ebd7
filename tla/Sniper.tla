------------------------------- MODULE Sniper -------------------------------
(***************************************************************************)
(* The sniper engine of nexus-hunter: internal/sniper/sniper.go and csm.go. *)
(*                                                                         *)
(* One action is one critical section of Engine.mu (or one external call)   *)
(* together with the local code up to the next one, so every interleaving   *)
(* of the goroutines that share the engine is a behaviour:                  *)
(*                                                                         *)
(*   Dexes    the scanner goroutines that call OnDiscovery, one per DEX     *)
(*   Positions  also names the CSM goroutine of each position               *)
(*   Workers  the goroutines UpdatePrice spawns for a sell                  *)
(*   Closers  the goroutines that call ForceClose (kill switch, shutdown)   *)
(*                                                                         *)
(* A seller (CSM, worker or closer) is inside executeSell or                *)
(* executePartialSell at the stage spc[s].  Amounts are whole tokens, SOL   *)
(* amounts whole units; a percentage is rounded outwards to whole tokens.   *)
(*                                                                         *)
(* Left out: log lines, statistics counters, the SellSignature, and the     *)
(* 30s and 60s deadlines of the sell contexts, which are one more way for a *)
(* swap to fail and need no action of their own.                            *)
(***************************************************************************)
EXTENDS Integers, FiniteSets, FiniteSetsExt

CONSTANTS
    Positions,       \* bound: position ids that executeBuy may draw
    Mints,           \* token mints
    MintOf,          \* the mint each position buys
    Dexes,
    Workers,         \* bound: sells spawned by UpdatePrice at the same time
    Closers,         \* bound: calls of ForceClose
    NoPos,           \* "no position", not in Positions
    MaxPositions,    \* Config.MaxPositions
    MaxBuy,          \* Config.MaxBuySOL
    MaxDailySpend,   \* Config.MaxDailySpendSOL
    MaxDailyLoss,    \* Config.MaxDailyLossSOL
    MaxSellRetries,  \* Config.MaxSellRetries
    DryRun,          \* Config.DryRun
    BuyTokens,       \* AmountToken of a fresh position: executeSwap computes it
                     \* from the SOL spent, not from what the swap delivered
    Received,        \* the tokens a buy may deliver to the wallet
    HolderCheck,     \* CSMConfig.HolderExodusEnabled
    EntityCheck,     \* CSMConfig.EntityReCheckEnabled, with a graph engine set
    Losses,          \* the losses (in SOL) the price feed can mark a position at
    BuyOutcomes,     \* what SwapDirect can do for a buy, and for a sell:
    SellOutcomes,    \* subsets of AllOutcomes
    MaxDays,         \* bound: days that pass
    ShutdownAllowed  \* bound: whether the root context may be cancelled

\* What a swap does on chain and what its caller is told (jupiter.go
\* executeSwap): landed and reported; not executed and reported as an error;
\* executed but the status query failed, so reported as an error; still
\* "pending" in the status query, which executeSwap returns as a success.
AllOutcomes == {"landed", "failed", "unanswered", "pending"}

ASSUME SniperAssumption ==
    /\ IsFiniteSet(Positions) /\ IsFiniteSet(Dexes)
    /\ MintOf \in [Positions -> Mints]
    /\ NoPos \notin Positions
    /\ Positions \cap Workers = {} /\ Positions \cap Closers = {}
    /\ Workers \cap Closers = {}
    /\ MaxPositions \in Nat \ {0} /\ MaxBuy \in Nat \ {0}
    /\ MaxDailySpend \in Nat /\ MaxDailyLoss \in Nat
    /\ MaxSellRetries \in Nat \ {0}   \* NewEngine replaces 0 and less by 3
    /\ BuyTokens \in Nat \ {0} /\ Received \subseteq Nat /\ MaxDays \in Nat
    /\ Losses \subseteq Nat
    /\ DryRun \in BOOLEAN /\ ShutdownAllowed \in BOOLEAN
    /\ HolderCheck \in BOOLEAN /\ EntityCheck \in BOOLEAN
    /\ BuyOutcomes \subseteq AllOutcomes /\ SellOutcomes \subseteq AllOutcomes

Sellers == Positions \cup Workers \cup Closers

VARIABLES
    status,      \* Position.Status, "NONE" before the position is stored
    amount,      \* Position.AmountToken
    retries,     \* Position.SellRetries
    mark,        \* CostSOL * -PnLPct / 100 at the last price, 0 in profit
    closes,      \* how often executeSell reported the position as closed
    tracked,     \* the positions with an ExitTracker
    remaining,   \* OriginalAmount * RemainingPct / 100 of that tracker
    csm,         \* where the CSM goroutine of a position is
    warned,      \* CSM.warningFired
    cancelable,  \* the keys of csmCancel
    cancelled,   \* the CSMs whose context was cancelled
    spent,       \* dailySpentSOL
    loss,        \* dailyLossSOL
    dayOver,     \* now is past dailyResetTime + 24h
    drawn,       \* the ids executeBuy has drawn
    dpc, dpos,   \* per discoverer: stage in OnDiscovery and its position
    spc, spos, samt,  \* per seller: stage, position, tokens to sell
    fpc, todo,   \* per closer: stage and positions still to close
    wallet,      \* tokens of a mint the wallet holds on chain
    sold,        \* tokens that the swaps for a position took out of the wallet
    paid,        \* SOL that landed buys took since the last budget reset
    days,        \* days that passed
    rootDone     \* the context of the scanner is cancelled

posVars == <<status, amount, retries, mark, closes>>
exitVars == <<tracked, remaining>>
csmVars == <<csm, warned, cancelable, cancelled>>
budgetVars == <<spent, loss, dayOver>>
discVars == <<drawn, dpc, dpos>>
sellVars == <<spc, spos, samt>>
forceVars == <<fpc, todo>>
chainVars == <<wallet, sold, paid>>
envVars == <<days, rootDone>>
vars == <<posVars, exitVars, csmVars, budgetVars, discVars, sellVars,
          forceVars, chainVars, envVars>>

Statuses == {"NONE", "OPEN", "CLOSING", "CLOSED", "FAILED"}
Checks == {"sellSim", "holders", "liquidity", "entity"}
Final == {"CLOSED", "FAILED"}
SellStages == {"submit", "confirm", "sold", "failed"}
SellerStages == SellStages \cup {"idle", "sell", "partial", "pconfirm", "psold"}
DiscoverStages == {"idle", "reserved", "buying", "bought", "inserted"}

Init ==
    /\ status = [p \in Positions |-> "NONE"]
    /\ amount = [p \in Positions |-> 0]
    /\ retries = [p \in Positions |-> 0]
    /\ mark = [p \in Positions |-> 0]
    /\ closes = [p \in Positions |-> 0]
    /\ tracked = {}
    /\ remaining = [p \in Positions |-> 0]
    /\ csm = [p \in Positions |-> "none"]
    /\ warned = [p \in Positions |-> {}]
    /\ cancelable = {} /\ cancelled = {}
    /\ spent = 0 /\ loss = 0 /\ dayOver = FALSE
    /\ drawn = {}
    /\ dpc = [d \in Dexes |-> "idle"]
    /\ dpos = [d \in Dexes |-> NoPos]
    /\ spc = [s \in Sellers |-> "idle"]
    /\ spos = [s \in Sellers |-> NoPos]
    /\ samt = [s \in Sellers |-> 0]
    /\ fpc = [f \in Closers |-> "idle"]
    /\ todo = [f \in Closers |-> {}]
    /\ wallet = [m \in Mints |-> 0]
    /\ sold = [p \in Positions |-> 0]
    /\ paid = 0 /\ days = 0 /\ rootDone = FALSE

-----------------------------------------------------------------------------
(* OnDiscovery and executeBuy                                              *)

OpenPositions == {p \in Positions : status[p] = "OPEN"}
Unused(p) == p \notin drawn /\ \A d \in Dexes : dpos[d] # p

\* Mutant: compares what is spent, not what would be.
BudgetAllowsOneMore(s, l) == s <= MaxDailySpend /\ l < MaxDailyLoss

\* reserveDailyBudget: may this much already spent and lost still buy?
BudgetAllows(s, l) == s + MaxBuy <= MaxDailySpend /\ l < MaxDailyLoss

\* reserveDailyBudget: the counters after the reset of a new day.
SpentNow == IF dayOver THEN 0 ELSE spent
LossNow == IF dayOver THEN 0 ELSE loss

\* OnDiscovery up to the position check: reset, check and deduct are one
\* critical section; a refused discovery keeps the reset.
Reserve(d, p) ==
    /\ dpc[d] = "idle" /\ Unused(p)
    /\ dayOver' = FALSE
    /\ paid' = IF dayOver THEN 0 ELSE paid
    /\ loss' = LossNow
    /\ \/ /\ BudgetAllows(SpentNow, LossNow)
          /\ spent' = SpentNow + MaxBuy
          /\ dpc' = [dpc EXCEPT ![d] = "reserved"]
          /\ dpos' = [dpos EXCEPT ![d] = p]
          /\ UNCHANGED drawn
       \/ /\ ~BudgetAllows(SpentNow, LossNow)
          /\ spent' = SpentNow
          /\ UNCHANGED discVars
    /\ UNCHANGED <<posVars, exitVars, csmVars, sellVars, forceVars, wallet,
                   sold, envVars>>

\* Mutant: off by one.
LimitPassed == Cardinality(OpenPositions) > MaxPositions

\* OnDiscovery counts only the positions that are OPEN at this moment.
LimitReached == Cardinality(OpenPositions) >= MaxPositions

\* The position limit, the score and the verdict.  None of these returns gives
\* the reservation back.  A dry run goes on without a swap.
CheckLimits(d) ==
    /\ dpc[d] = "reserved"
    /\ \/ /\ dpc' = [dpc EXCEPT ![d] = "idle"]       \* limit, score or verdict
          /\ dpos' = [dpos EXCEPT ![d] = NoPos]
          /\ UNCHANGED drawn
       \/ /\ ~LimitReached
          /\ drawn' = drawn \cup {dpos[d]}
          /\ dpc' = [dpc EXCEPT ![d] = IF DryRun THEN "bought" ELSE "buying"]
          /\ UNCHANGED dpos
    /\ UNCHANGED <<posVars, exitVars, csmVars, budgetVars, sellVars, forceVars,
                   chainVars, envVars>>

\* refundDailyBudget
Refunded(s) == IF s - MaxBuy < 0 THEN 0 ELSE s - MaxBuy

\* Whether a swap moves tokens on chain, and whether SwapDirect returns nil.
Executes(outcome) == outcome \in {"landed", "unanswered"}
Reported(outcome) == outcome \in {"landed", "pending"}

\* With its context cancelled SwapDirect returns an error, whether or not the
\* transaction was sent before.
Possible(outcomes, done) == IF done THEN {"failed", "unanswered"} ELSE outcomes

\* SwapDirect in executeBuy, and the refund when it returns an error.  Nobody
\* looks at how many tokens arrived.
BuyReturns(d, outcome) ==
    /\ dpc[d] = "buying" /\ outcome \in Possible(BuyOutcomes, rootDone)
    /\ IF Executes(outcome)
       THEN /\ \E got \in Received :
                   wallet' = [wallet EXCEPT ![MintOf[dpos[d]]] = @ + got]
            /\ paid' = paid + MaxBuy
            /\ UNCHANGED sold
       ELSE UNCHANGED chainVars
    /\ IF Reported(outcome)
       THEN /\ dpc' = [dpc EXCEPT ![d] = "bought"]
            /\ UNCHANGED <<dpos, spent>>
       ELSE /\ dpc' = [dpc EXCEPT ![d] = "idle"]
            /\ dpos' = [dpos EXCEPT ![d] = NoPos]
            /\ spent' = Refunded(spent)
    /\ UNCHANGED <<posVars, exitVars, csmVars, loss, dayOver, drawn, sellVars,
                   forceVars, envVars>>

\* executeBuy stores the position and its exit tracker.
Insert(d) ==
    LET p == dpos[d] IN
    /\ dpc[d] = "bought"
    /\ status' = [status EXCEPT ![p] = "OPEN"]
    /\ amount' = [amount EXCEPT ![p] = BuyTokens]
    /\ tracked' = tracked \cup {p}
    /\ remaining' = [remaining EXCEPT ![p] = BuyTokens]
    /\ dpc' = [dpc EXCEPT ![d] = "inserted"]
    /\ UNCHANGED <<retries, mark, closes, csmVars, budgetVars, drawn, dpos, sellVars,
                   forceVars, chainVars, envVars>>

\* executeBuy registers the cancel function in a second critical section, then
\* starts the CSM goroutine and returns to the scanner.
RegisterCsm(d) ==
    LET p == dpos[d] IN
    /\ dpc[d] = "inserted"
    /\ cancelable' = cancelable \cup {p}
    /\ csm' = [csm EXCEPT ![p] = "watch"]
    /\ dpc' = [dpc EXCEPT ![d] = "idle"]
    /\ dpos' = [dpos EXCEPT ![d] = NoPos]
    /\ UNCHANGED <<posVars, exitVars, warned, cancelled, budgetVars, drawn, sellVars,
                   forceVars, chainVars, envVars>>

-----------------------------------------------------------------------------
(* executeSell and executePartialSell, run by any seller                   *)

\* Seller s is about to call executeSell, or executePartialSell for n tokens.
CallSell(s, p) ==
    /\ spc' = [spc EXCEPT ![s] = "sell"]
    /\ spos' = [spos EXCEPT ![s] = p]
    /\ UNCHANGED samt

CallPartialSell(s, p, n) ==
    /\ spc' = [spc EXCEPT ![s] = "partial"]
    /\ spos' = [spos EXCEPT ![s] = p]
    /\ samt' = [samt EXCEPT ![s] = n]

Return(s) ==
    /\ spc' = [spc EXCEPT ![s] = "idle"]
    /\ spos' = [spos EXCEPT ![s] = NoPos]
    /\ samt' = [samt EXCEPT ![s] = 0]

\* A CSM sells under its own context: ForceClose, a settled sell and shutdown
\* cancel it.  Workers and closers have detached contexts.
ContextDone(s) == s \in Positions /\ (s \in cancelled \/ rootDone)

\* Mutants: no guard at all; a guard that also turns CLOSING away, although
\* UpdatePrice sets CLOSING before it spawns executeSell.
MaySellAlways(p) == TRUE
MaySellOpen(p) == status[p] = "OPEN"

\* executeSell turns away only positions that are CLOSED or FAILED.
MaySell(p) == status[p] \notin Final

\* First critical section of executeSell.
EnterSell(s) ==
    LET p == spos[s] IN
    /\ spc[s] = "sell"
    /\ IF MaySell(p)
       THEN /\ status' = [status EXCEPT ![p] = "CLOSING"]
            /\ spc' = [spc EXCEPT ![s] = IF DryRun THEN "sold" ELSE "submit"]
            /\ UNCHANGED <<spos, samt>>
       ELSE Return(s) /\ UNCHANGED status
    /\ UNCHANGED <<amount, retries, mark, closes, exitVars, csmVars, budgetVars,
                   discVars, forceVars, chainVars, envVars>>

\* executeSell reads AmountToken and sends the swap.
SubmitSell(s) ==
    /\ spc[s] = "submit"
    /\ samt' = [samt EXCEPT ![s] = amount[spos[s]]]
    /\ \/ /\ ContextDone(s) \/ "failed" \in SellOutcomes
          /\ spc' = [spc EXCEPT ![s] = "failed"]
       \/ /\ ~ContextDone(s)
          /\ spc' = [spc EXCEPT ![s] = "confirm"]
    /\ UNCHANGED <<posVars, exitVars, csmVars, budgetVars, discVars, spos,
                   forceVars, chainVars, envVars>>

\* executePartialSell reads AmountToken, caps the amount it was told to sell,
\* returns if nothing is left, and sends the swap.  It never looks at Status.
SubmitPartial(s) ==
    LET p == spos[s]
        n == IF samt[s] > amount[p] THEN amount[p] ELSE samt[s]
    IN
    /\ spc[s] = "partial"
    /\ \/ /\ n = 0 \/ (~DryRun /\ (ContextDone(s) \/ "failed" \in SellOutcomes))
          /\ Return(s)
       \/ /\ n > 0 /\ (DryRun \/ ~ContextDone(s))
          /\ samt' = [samt EXCEPT ![s] = n]
          /\ spc' = [spc EXCEPT ![s] = IF DryRun THEN "psold" ELSE "pconfirm"]
          /\ UNCHANGED spos
    /\ UNCHANGED <<posVars, exitVars, csmVars, budgetVars, discVars, forceVars,
                   chainVars, envVars>>

\* The swap of seller s ends.  The chain executes it only when the wallet holds
\* the tokens; otherwise it fails.
SwapReturns(s, outcome) ==
    LET m == MintOf[spos[s]]
        possible == Possible(SellOutcomes, ContextDone(s))
    IN
    /\ IF Executes(outcome)
       THEN /\ outcome \in possible /\ wallet[m] >= samt[s]
            /\ wallet' = [wallet EXCEPT ![m] = @ - samt[s]]
            /\ sold' = [sold EXCEPT ![spos[s]] = @ + samt[s]]
       ELSE /\ \/ outcome \in possible
               \/ outcome = "failed" /\ wallet[m] < samt[s]
            /\ UNCHANGED <<wallet, sold>>
    /\ UNCHANGED <<posVars, exitVars, csmVars, budgetVars, discVars, forceVars,
                   paid, envVars>>

ConfirmSell(s, outcome) ==
    /\ spc[s] = "confirm"
    /\ SwapReturns(s, outcome)
    /\ spc' = [spc EXCEPT ![s] = IF Reported(outcome) THEN "sold" ELSE "failed"]
    /\ UNCHANGED <<spos, samt>>

\* Mutant: the error of a partial sell is dropped.
ConfirmPartialAnyway(s, outcome) ==
    /\ spc[s] = "pconfirm"
    /\ SwapReturns(s, outcome)
    /\ spc' = [spc EXCEPT ![s] = "psold"]
    /\ UNCHANGED <<spos, samt>>

\* A failed partial sell only logs: the tracker keeps the level as hit.
ConfirmPartial(s, outcome) ==
    /\ spc[s] = "pconfirm"
    /\ SwapReturns(s, outcome)
    /\ IF Reported(outcome)
       THEN spc' = [spc EXCEPT ![s] = "psold"] /\ UNCHANGED <<spos, samt>>
       ELSE Return(s)

\* Mutants: one retry too many; the status is not set back.
StatusAfterOneMore(n) == IF n > MaxSellRetries THEN "FAILED" ELSE "OPEN"
StatusStays(n) == IF n >= MaxSellRetries THEN "FAILED" ELSE "CLOSING"

\* executeSell after a failed swap: OPEN again to "allow retry", or FAILED.
\* Neither the CSM nor the tracker of a FAILED position is cleaned up.
StatusAfterFailure(n) == IF n >= MaxSellRetries THEN "FAILED" ELSE "OPEN"

SettleFailed(s) ==
    LET p == spos[s] IN
    /\ spc[s] = "failed"
    /\ retries' = [retries EXCEPT ![p] = @ + 1]
    /\ status' = [status EXCEPT ![p] = StatusAfterFailure(retries[p] + 1)]
    /\ Return(s)
    /\ UNCHANGED <<amount, mark, closes, exitVars, csmVars, budgetVars, discVars,
                   forceVars, chainVars, envVars>>

\* executeSell after a swap that went through: the daily loss, the CSM, the
\* tracker, and onPositionClose once the lock is released.
SettleSold(s) ==
    LET p == spos[s] IN
    /\ spc[s] = "sold"
    /\ status' = [status EXCEPT ![p] = "CLOSED"]
    /\ closes' = [closes EXCEPT ![p] = @ + 1]
    /\ loss' = loss + mark[p]
    /\ cancelled' = cancelled \cup ({p} \cap cancelable)
    /\ cancelable' = cancelable \ {p}
    /\ tracked' = tracked \ {p}
    /\ remaining' = [remaining EXCEPT ![p] = 0]
    /\ Return(s)
    /\ UNCHANGED <<amount, retries, mark, csm, warned, spent, dayOver, discVars,
                   forceVars, chainVars, envVars>>

\* executePartialSell books what it sold, never below zero.
LessSold(a, n) == IF a - n < 0 THEN 0 ELSE a - n

SettlePartial(s) ==
    LET p == spos[s] IN
    /\ spc[s] = "psold"
    /\ amount' = [amount EXCEPT ![p] = LessSold(@, samt[s])]
    /\ Return(s)
    /\ UNCHANGED <<status, retries, mark, closes, exitVars, csmVars, budgetVars,
                   discVars, forceVars, chainVars, envVars>>

-----------------------------------------------------------------------------
(* UpdatePrice                                                             *)

\* The positions UpdatePrice looks at for a price of mint m.
Priced(m) == {p \in OpenPositions : MintOf[p] = m}

\* A price that leads to no sell updates every open position of the mint.
PriceOnly(m, l) ==
    /\ Priced(m) # {} /\ l \in Losses
    /\ mark' = [p \in Positions |-> IF p \in Priced(m) THEN l ELSE mark[p]]
    /\ UNCHANGED <<status, amount, retries, closes, exitVars, csmVars,
                   budgetVars, discVars, sellVars, forceVars, chainVars, envVars>>

\* Evaluate refuses a tracker with nothing remaining; a position without a
\* tracker falls back to the simple take profit and stop loss, all full sells.
MayExit(q) == q \notin tracked \/ remaining[q] > 0

\* UpdatePrice returns at the first position q with a decision, so of the
\* others only those the map iteration visited before are updated.
PriceUpdates(q, l) ==
    \E visited \in SUBSET Priced(MintOf[q]) :
        /\ q \in visited
        /\ mark' = [p \in Positions |-> IF p \in visited THEN l ELSE mark[p]]

\* A full exit: ApplyDecision empties the tracker before the sell is tried.
PriceFullExit(w, q, l) ==
    /\ spc[w] = "idle" /\ q \in OpenPositions /\ l \in Losses /\ MayExit(q)
    /\ PriceUpdates(q, l)
    /\ remaining' = [remaining EXCEPT ![q] = 0]
    /\ status' = [status EXCEPT ![q] = "CLOSING"]
    /\ CallSell(w, q)
    /\ UNCHANGED <<amount, retries, closes, tracked, csmVars, budgetVars,
                   discVars, forceVars, chainVars, envVars>>

\* Mutant: a partial exit of all that remains is not made a full close.
PricePartialExitOfAll(w, q, l, n) ==
    /\ spc[w] = "idle" /\ q \in OpenPositions \cap tracked /\ l \in Losses
    /\ n \in 1 .. remaining[q]
    /\ PriceUpdates(q, l)
    /\ remaining' = [remaining EXCEPT ![q] = @ - n]
    /\ CallPartialSell(w, q, n)
    /\ UNCHANGED <<status, amount, retries, closes, tracked, csmVars, budgetVars,
                   discVars, forceVars, chainVars, envVars>>

\* A partial exit leaves the position OPEN.
PricePartialExit(w, q, l, n) ==
    /\ spc[w] = "idle" /\ q \in OpenPositions \cap tracked /\ l \in Losses
    /\ n \in 1 .. remaining[q] - 1
    /\ PriceUpdates(q, l)
    /\ remaining' = [remaining EXCEPT ![q] = @ - n]
    /\ CallPartialSell(w, q, n)
    /\ UNCHANGED <<status, amount, retries, closes, tracked, csmVars, budgetVars,
                   discVars, forceVars, chainVars, envVars>>

-----------------------------------------------------------------------------
(* The continuous safety monitor of a position                             *)

\* runChecks goes through the enabled checks, also after one of them sold.
NextCheck(c) ==
    CASE c = "sellSim" -> IF HolderCheck THEN "holders" ELSE "liquidity"
      [] c = "holders" -> "liquidity"
      [] c = "liquidity" -> IF EntityCheck THEN "entity" ELSE "watch"
      [] c = "entity" -> "watch"

\* Mutant: the tick does not look at Status.
CsmTickAlways(p) ==
    /\ csm[p] = "watch" /\ spc[p] = "idle"
    /\ csm' = [csm EXCEPT ![p] = "sellSim"]
    /\ UNCHANGED <<posVars, exitVars, warned, cancelable, cancelled, budgetVars,
                   discVars, sellVars, forceVars, chainVars, envVars>>

\* A tick: Run reads Status without the lock and ends for good unless OPEN.
CsmTick(p) ==
    /\ csm[p] = "watch" /\ spc[p] = "idle"
    /\ csm' = [csm EXCEPT ![p] = IF status[p] = "OPEN" THEN "sellSim" ELSE "done"]
    /\ UNCHANGED <<posVars, exitVars, warned, cancelable, cancelled, budgetVars,
                   discVars, sellVars, forceVars, chainVars, envVars>>

CsmStop(p) ==
    /\ csm[p] = "watch" /\ spc[p] = "idle" /\ ContextDone(p)
    /\ csm' = [csm EXCEPT ![p] = "done"]
    /\ UNCHANGED <<posVars, exitVars, warned, cancelable, cancelled, budgetVars,
                   discVars, sellVars, forceVars, chainVars, envVars>>

\* The check at hand ends; its callback runs to the end before the next one.
CheckEnds(p) ==
    /\ csm[p] \in Checks /\ spc[p] = "idle"
    /\ csm' = [csm EXCEPT ![p] = NextCheck(csm[p])]
    /\ UNCHANGED <<posVars, exitVars, cancelable, cancelled, budgetVars,
                   discVars, forceVars, chainVars, envVars>>

CsmQuiet(p) == CheckEnds(p) /\ UNCHANGED <<warned, sellVars>>

\* Mutant: Run ends after a panic, as its comment says.
CsmPanicEnds(p) ==
    /\ csm[p] \in Checks /\ spc[p] = "idle"
    /\ csm' = [csm EXCEPT ![p] = "done"]
    /\ CallSell(p, p)
    /\ UNCHANGED <<posVars, exitVars, warned, cancelable, cancelled, budgetVars,
                   discVars, forceVars, chainVars, envVars>>

\* Any of the four checks may call onPanic, a full sell; Run goes on.
CsmPanic(p) == CheckEnds(p) /\ CallSell(p, p) /\ UNCHANGED warned

\* Mutant: severity is not capped at 1.
WarnShareUncapped(a) == (a \div 4) .. (2 * a)

\* onWarning sells 25 to 50 percent of AmountToken, once for each reason.
WarnShare(a) == (a \div 4) .. ((a + 1) \div 2)

CsmWarn(p, n) ==
    /\ csm[p] \in {"holders", "liquidity"} \ warned[p]
    /\ warned' = [warned EXCEPT ![p] = @ \cup {csm[p]}]
    /\ CheckEnds(p) /\ CallPartialSell(p, p, n)

-----------------------------------------------------------------------------
(* ForceClose and the environment                                          *)

\* ForceClose cancels every registered CSM and takes the OPEN positions.
ForceClose(f) ==
    /\ fpc[f] = "idle"
    /\ fpc' = [fpc EXCEPT ![f] = "closing"]
    /\ todo' = [todo EXCEPT ![f] = OpenPositions]
    /\ cancelled' = cancelled \cup cancelable
    /\ cancelable' = {}
    /\ UNCHANGED <<posVars, exitVars, csm, warned, budgetVars, discVars,
                   sellVars, chainVars, envVars>>

\* It sells them one after the other.
ForceNext(f, p) ==
    /\ fpc[f] = "closing" /\ spc[f] = "idle" /\ p \in todo[f]
    /\ todo' = [todo EXCEPT ![f] = @ \ {p}]
    /\ CallSell(f, p)
    /\ UNCHANGED <<posVars, exitVars, csmVars, budgetVars, discVars, fpc,
                   chainVars, envVars>>

\* Mutant: it stops at the first position that is done.
ForceDoneEarly(f) ==
    /\ fpc[f] = "closing" /\ spc[f] = "idle"
    /\ fpc' = [fpc EXCEPT ![f] = "done"]
    /\ UNCHANGED <<posVars, exitVars, csmVars, budgetVars, discVars, sellVars,
                   todo, chainVars, envVars>>

ForceDone(f) ==
    /\ fpc[f] = "closing" /\ spc[f] = "idle" /\ todo[f] = {}
    /\ fpc' = [fpc EXCEPT ![f] = "done"]
    /\ UNCHANGED <<posVars, exitVars, csmVars, budgetVars, discVars, sellVars,
                   todo, chainVars, envVars>>

NewDay ==
    /\ days < MaxDays
    /\ days' = days + 1
    /\ dayOver' = TRUE
    /\ UNCHANGED <<posVars, exitVars, csmVars, spent, loss, discVars, sellVars,
                   forceVars, chainVars, rootDone>>

\* The root context of nexus-hunter is cancelled (a signal).
CancelRoot ==
    /\ ShutdownAllowed /\ ~rootDone
    /\ rootDone' = TRUE
    /\ UNCHANGED <<posVars, exitVars, csmVars, budgetVars, discVars, sellVars,
                   forceVars, chainVars, days>>

-----------------------------------------------------------------------------
Discover(d) ==
    \/ \E p \in Positions : Reserve(d, p)
    \/ CheckLimits(d)
    \/ \E o \in AllOutcomes : BuyReturns(d, o)
    \/ Insert(d)
    \/ RegisterCsm(d)

\* The steps of a seller once it was asked to sell.
SellerStep(s) ==
    \/ EnterSell(s)
    \/ SubmitSell(s)
    \/ SubmitPartial(s)
    \/ \E o \in AllOutcomes : ConfirmSell(s, o)
    \/ \E o \in AllOutcomes : ConfirmPartial(s, o)
    \/ SettleFailed(s)
    \/ SettleSold(s)
    \/ SettlePartial(s)

Price ==
    \/ \E m \in Mints, l \in Losses : PriceOnly(m, l)
    \/ \E w \in Workers, q \in Positions, l \in Losses : PriceFullExit(w, q, l)
    \/ \E w \in Workers, q \in Positions, l \in Losses, n \in 1 .. BuyTokens :
          PricePartialExit(w, q, l, n)

CsmStep(p) ==
    \/ CsmTick(p)
    \/ CsmStop(p)
    \/ CsmQuiet(p)
    \/ CsmPanic(p)
    \/ \E n \in WarnShare(amount[p]) : CsmWarn(p, n)

CloserStep(f) ==
    \/ ForceClose(f)
    \/ \E p \in Positions : ForceNext(f, p)
    \/ ForceDone(f)

Next ==
    \/ \E d \in Dexes : Discover(d)
    \/ \E s \in Sellers : SellerStep(s)
    \/ Price
    \/ \E p \in Positions : CsmStep(p)
    \/ \E f \in Closers : CloserStep(f)
    \/ NewDay
    \/ CancelRoot

Spec == Init /\ [][Next]_vars

\* The Go scheduler runs every goroutine that can run, every swap returns (its
\* context has a deadline or the HTTP client has one), and the CSM ticker fires.
\* Discoveries, prices, warnings, panics, days and shutdown are not assumed.
Fairness ==
    /\ \A d \in Dexes : WF_vars(dpc[d] # "idle" /\ Discover(d))
    /\ \A s \in Sellers : WF_vars(SellerStep(s))
    /\ \A p \in Positions : WF_vars(CsmTick(p) \/ CsmStop(p) \/ CsmQuiet(p))
    /\ \A f \in Closers : WF_vars(fpc[f] # "idle" /\ CloserStep(f))

FairSpec == Spec /\ Fairness

-----------------------------------------------------------------------------
(* Properties                                                              *)

\* The shape of the engine's state (sniper.go Engine and Position, csm.go CSM).
TypeOK ==
    /\ status \in [Positions -> Statuses]
    /\ amount \in [Positions -> 0 .. BuyTokens]
    /\ retries \in [Positions -> Nat]
    /\ mark \in [Positions -> Losses \cup {0}]
    /\ closes \in [Positions -> Nat]
    /\ tracked \subseteq Positions
    /\ remaining \in [Positions -> 0 .. BuyTokens]
    /\ csm \in [Positions -> Checks \cup {"none", "watch", "done"}]
    /\ warned \in [Positions -> SUBSET Checks]
    /\ cancelable \subseteq Positions /\ cancelled \subseteq Positions
    /\ spent \in Nat /\ loss \in Nat /\ dayOver \in BOOLEAN
    /\ drawn \subseteq Positions
    /\ dpc \in [Dexes -> DiscoverStages]
    /\ dpos \in [Dexes -> Positions \cup {NoPos}]
    /\ \A d \in Dexes : dpc[d] # "idle" => dpos[d] \in Positions
    /\ spc \in [Sellers -> SellerStages]
    /\ spos \in [Sellers -> Positions \cup {NoPos}]
    /\ \A s \in Sellers : spc[s] # "idle" => spos[s] \in Positions
    /\ samt \in [Sellers -> 0 .. BuyTokens]
    /\ fpc \in [Closers -> {"idle", "closing", "done"}]
    /\ todo \in [Closers -> SUBSET Positions]
    /\ wallet \in [Mints -> Nat] /\ sold \in [Positions -> Nat]
    /\ paid \in Nat /\ days \in 0 .. MaxDays /\ rootDone \in BOOLEAN

\* A position is CLOSING only while some goroutine is inside executeSell for it
\* (or about to call it), so no interleaving leaves it CLOSING for ever.
ClosingIsOwned ==
    \A p \in Positions : status[p] = "CLOSING" =>
        \E s \in Sellers : spos[s] = p /\ spc[s] \in SellStages \cup {"sell"}

\* Concurrent failing sells never leave a position alive (OPEN or CLOSING) that
\* has used up MaxSellRetries.
NoRetryLeft ==
    \A p \in Positions : status[p] \in {"OPEN", "CLOSING"} =>
        retries[p] < MaxSellRetries

\* In a dry run the position check, which is not atomic with the insertion,
\* overshoots by at most one position for each further scanner goroutine.
OpenBound ==
    DryRun => Cardinality(OpenPositions) <= MaxPositions + Cardinality(Dexes) - 1

\* What buys took from the wallet since the last reset stays within the daily
\* limit that reserveDailyBudget guards.
DailySpendCap == paid <= MaxDailySpend

\* Of a position reported as CLOSED at least as many tokens were sold on chain
\* as AmountToken said when it was bought, however its full and partial sells
\* overlapped.  Whether the wallet is empty then is another matter: it holds
\* what the buy delivered, which nobody compares with AmountToken.
ClosedMeansSold ==
    \A p \in Positions : status[p] = "CLOSED" /\ ~DryRun => sold[p] >= BuyTokens

\* A position that was CLOSED stays CLOSED.  In a dry run two concurrent sells
\* both close it; with swaps that can fail the second reopens it, although
\* sniper.go:412 sets CLOSING "to prevent double-sell".
ClosedIsFinal == [][\A p \in Positions :
                      status[p] = "CLOSED" => status'[p] = "CLOSED"]_vars

\* Every sell comes to an end: the position leaves CLOSING.
SellSettles ==
    \A p \in Positions : status[p] = "CLOSING" ~> status[p] # "CLOSING"

\* The CSM goroutine of a closed position ends, however late it was registered.
MonitorEnds ==
    \A p \in Positions : status[p] = "CLOSED" ~> csm[p] = "done"

\* Every position that ForceClose found OPEN is CLOSED (in a dry run).
ForceCloseCovers ==
    \A f \in Closers, p \in Positions : p \in todo[f] ~> status[p] = "CLOSED"

\* UpdatePrice is called with an exit price (the stop loss, or the 24 hour exit)
\* again and again.
PriceKeepsAsking ==
    WF_vars(\E w \in Workers, q \in Positions, l \in Losses : PriceFullExit(w, q, l))

\* With a price feed that keeps asking for an exit, and swaps that succeed,
\* every position that is opened is closed.
ExitReached ==
    PriceKeepsAsking => \A p \in Positions : status[p] = "OPEN" ~> status[p] = "CLOSED"

\* As long as each position has a single seller, its CSM (no UpdatePrice, no
\* ForceClose), every position has the life that PositionLifecycle promises.
Lifecycle == INSTANCE PositionLifecycle
                WITH attempts <- retries, reports <- closes, booked <- loss

KeepsLifecycle == Lifecycle!Spec

\* In the same setting the CSM "runs until position closes"
\* (docs/01-architecture-solana.md:333), also after sells that failed.
MonitoredWhileOpen ==
    \A p \in Positions : status[p] = "OPEN" => csm[p] # "done"

-----------------------------------------------------------------------------
(* What a comment says and the code does not keep                          *)

\* sniper.go:621, "sell failed, will retry next cycle": an OPEN position whose
\* sell failed is sold again, if the price goes on asking for a full exit.
FailedSellRetried ==
    PriceKeepsAsking => \A p \in Positions :
        status[p] = "OPEN" /\ retries[p] > 0 ~> status[p] # "OPEN"
=============================================================================
