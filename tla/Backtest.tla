------------------------------ MODULE Backtest ------------------------------
(***************************************************************************)
(* The backtest runner: internal/backtest/runner.go.  It replays trades and  *)
(* ticks in time order through the strategy runtime, fires the timers of     *)
(* simulated time in between, and fills what the strategy asks for.          *)
(*                                                                         *)
(* Two books are kept of every fill: the position manager (PositionBook) and *)
(* the open entry from which trade records are cut.  One strategy and one    *)
(* symbol; the strategy may ask for any one fill at every call.  RefPrices are  *)
(* integers, and a fee is the same for every fill.                           *)
(***************************************************************************)
EXTENDS PositionBook

CONSTANTS
    RefPrices,        \* bound: reference prices and prices of events
    Sizes,         \* bound: signed quantities of an intent
    Slip, Fee,     \* what the slippage and the fee model say
    TimerInterval, \* 0: no timers
    Times,         \* bound: timestamps of events
    MaxFills       \* bound: fills of a run

ASSUME BacktestAssumption ==
    /\ RefPrices \subseteq Nat \ {0} /\ Sizes \subseteq Int \ {0}
    /\ Slip \in Nat /\ Fee \in Nat /\ TimerInterval \in Nat /\ Times \subseteq Nat \ {0}

VARIABLES
    clock,      \* timestamp of the event being replayed
    phase,      \* "next", or "event" before it is dispatched
    lastTimer,  \* lastTimerFire, 0 before the first event
    book,       \* the position manager's position
    entry,      \* openEntries: the signed quantity, price and fees of the entry
    pnl,        \* realizedPnL of the executor
    fees,       \* its fees
    charged,    \* the fees of all trade records
    fills       \* fills so far
clockVars == <<clock, phase, lastTimer>>
accountVars == <<book, entry, pnl, fees, charged, fills>>
bvars == <<clockVars, accountVars>>

NoEntry == [qty |-> 0, price |-> 0, fee |-> 0]

BInit ==
    /\ clock = 0 /\ phase = "next" /\ lastTimer = 0
    /\ book = Flat /\ entry = NoEntry
    /\ pnl = 0 /\ fees = 0 /\ charged = 0 /\ fills = 0

-----------------------------------------------------------------------------
(* The executor                                                            *)

\* EstimateSlippage: buyers pay more, sellers receive less.
FillPrice(n, ref) == IF n > 0 THEN ref + Slip ELSE ref - Slip

\* Mutant: what goes beyond the old position is forgotten.
EntryAfterFillClosed(n, p) ==
    IF entry.qty = 0 THEN
        [qty |-> n, price |-> p, fee |-> Fee]
    ELSE IF SameDirection(entry.qty, n) THEN
        [qty |-> entry.qty + n, fee |-> entry.fee + Fee,
         price |-> Weighted(Magnitude(entry.qty), entry.price, Magnitude(n), p)]
    ELSE IF Magnitude(n) < Magnitude(entry.qty) THEN
        [entry EXCEPT !.qty = @ + n]
    ELSE NoEntry

\* recordTradeEntry: open, add to, reduce, close or turn the entry.  A reduced
\* entry keeps the fees it has already charged; a turned one starts without.
EntryAfterFill(n, p) ==
    IF entry.qty = 0 THEN
        [qty |-> n, price |-> p, fee |-> Fee]
    ELSE IF SameDirection(entry.qty, n) THEN
        [qty |-> entry.qty + n, fee |-> entry.fee + Fee,
         price |-> Weighted(Magnitude(entry.qty), entry.price, Magnitude(n), p)]
    ELSE IF Magnitude(n) < Magnitude(entry.qty) THEN
        [entry EXCEPT !.qty = @ + n]
    ELSE IF n + entry.qty = 0 THEN NoEntry
    ELSE [qty |-> n + entry.qty, price |-> p, fee |-> 0]

\* A fill against the entry cuts a trade record, with the fees of both sides.
TradeFees(n) == IF entry.qty = 0 \/ SameDirection(entry.qty, n) THEN 0 ELSE entry.fee + Fee
TradeProfit(n, p) ==
    IF entry.qty = 0 \/ SameDirection(entry.qty, n) THEN 0
    ELSE Earned([qty |-> entry.qty, avg |-> entry.price], n, p)

BookFill(n, ref) ==
    LET p == FillPrice(n, ref)
    IN  /\ fills < MaxFills
        /\ fills' = fills + 1
        /\ fees' = fees + Fee
        /\ book' = Filled(book, n, p)
        /\ entry' = EntryAfterFill(n, p)
        /\ pnl' = pnl + TradeProfit(n, p) - TradeFees(n)
        /\ charged' = charged + TradeFees(n)

\* Execute: no signal, one the risk engine denies, an order intent without a
\* reference price, and every target_position signal (computeTargetIntents gives
\* its intent none) leave the books alone.
ExecuteSignal ==
    \/ UNCHANGED accountVars
    \/ \E n \in Sizes, ref \in RefPrices : BookFill(n, ref)

-----------------------------------------------------------------------------
(* Run                                                                     *)

\* The events are sorted by time before the loop.
NextEvent(t) ==
    /\ phase = "next" /\ t >= clock
    /\ clock' = t /\ phase' = "event"
    /\ UNCHANGED <<lastTimer, accountVars>>

TimerDue == TimerInterval > 0 /\ lastTimer > 0 /\ lastTimer + TimerInterval <= clock

FireTimer ==
    /\ phase = "event" /\ TimerDue
    /\ lastTimer' = lastTimer + TimerInterval
    /\ ExecuteSignal
    /\ UNCHANGED <<clock, phase>>
Dispatch ==
    /\ phase = "event" /\ ~TimerDue
    /\ lastTimer' = IF lastTimer = 0 THEN clock ELSE lastTimer
    /\ phase' = "next"
    /\ ExecuteSignal
    /\ UNCHANGED clock

BNext == (\E t \in Times : NextEvent(t)) \/ FireTimer \/ Dispatch
BSpec == BInit /\ [][BNext]_bvars

-----------------------------------------------------------------------------
(* Properties                                                              *)

(* The entry from which trade records and the equity curve are computed and  *)
(* the position manager agree on size, entry price and gross profit after    *)
(* any sequence of adding, reducing, closing and turning fills (runner.go    *)
(* recordTradeEntry, position.go applyFillToPosition: two codes, one truth), *)
(* and no fee is forgotten: what the trade records charge and the open entry *)
(* still holds covers every fee paid.  It may exceed it, because a partial   *)
(* close charges the fees of the whole entry and leaves them in the entry.   *)
TwoBooksAgree ==
    /\ entry.qty = book.qty
    /\ book.qty # 0 => entry.price = book.avg
    /\ pnl + charged = book.pnl
    /\ charged + entry.fee >= fees
=============================================================================
