------------------------------ MODULE Momentum ------------------------------
(***************************************************************************)
(* The momentum strategy: internal/strategy/strategies/momentum/strategy.go. *)
(* Every callback holds its mutex.  One symbol; time is counted in units of  *)
(* the parameters.  The strategy reads no clock: it compares the timestamps of *)
(* events, fills and ticks of the timer, which reach it up to Lateness after    *)
(* they were made, in any order.                                            *)
(*                                                                         *)
(* Features, the bias of intel events and the thresholds only decide which   *)
(* of the branches of evaluate is taken; the market may take any of them.    *)
(* Orders of the strategy reach it again as fills, whole and in any order;   *)
(* the market (external) fills them within Latency.                          *)
(***************************************************************************)
EXTENDS Integers, FiniteSets

CONSTANTS
    Size,       \* position_size_usd
    Cooldown,   \* cooldown_seconds
    MaxHold,    \* max_hold_seconds
    Latency,    \* of the market: the longest time an order is under way
    Lateness,   \* of the feed: the longest time an event is
    Horizon,    \* bound: the last moment
    MaxTrades   \* bound: intents of a run

ASSUME MomentumAssumption ==
    /\ Size \in Nat \ {0} /\ Cooldown \in Nat /\ MaxHold \in Nat
    /\ Latency \in Nat /\ Lateness \in Nat /\ Latency + Lateness < Cooldown
    /\ Horizon \in Nat /\ MaxTrades \in Nat

VARIABLES
    now,
    features,   \* names of the features stored for the symbol
    position,   \* Positions[symbol]
    entryTime,  \* EntryTimeMs[symbol], 0 for none
    lastSignal, \* LastSignalTimeMs[symbol], 0 for none
    tradeCount,
    orders      \* the intents under way: number, side, quantity, time
mvars == <<now, features, position, entryTime, lastSignal, tradeCount, orders>>

TInit ==
    /\ now = 1 /\ features = {} /\ position = 0
    /\ entryTime = 0 /\ lastSignal = 0 /\ tradeCount = 0 /\ orders = {}

-----------------------------------------------------------------------------
\* The timestamps an event of this moment may have.
Stamps == {ts \in 1 .. now : ts + Lateness >= now}

\* buildBuySignal and buildCloseSignal, for an event of time ts.
Emit(side, qty, ts) ==
    /\ tradeCount < MaxTrades
    /\ orders' = orders \cup {[id |-> tradeCount, side |-> side, qty |-> qty, at |-> now]}
    /\ tradeCount' = tradeCount + 1
    /\ lastSignal' = ts

Silent == UNCHANGED <<lastSignal, tradeCount, orders>>

\* Mutant: evaluate does not look at the last signal.
CooldownForgotten(ts) == TRUE
CooldownOver(ts) == lastSignal = 0 \/ ts - lastSignal >= Cooldown

\* evaluate: not before both features are known, not within the cooldown, no
\* entry on top of a position and no exit without one.
Evaluate(known, ts) ==
    \/ Silent
    \/ {"momentum", "imbalance"} \subseteq known /\ CooldownOver(ts) /\ position <= 0
       /\ Emit("buy", Size, ts)
    \/ {"momentum", "imbalance"} \subseteq known /\ CooldownOver(ts) /\ position > 0
       /\ Emit("sell", position, ts)

OnFeature(name, ts) ==
    /\ features' = features \cup {name}
    /\ Evaluate(features', ts)
    /\ UNCHANGED <<now, position, entryTime>>
OnTickOrTrade(ts) ==
    /\ Evaluate(features, ts)
    /\ UNCHANGED <<now, features, position, entryTime>>

\* The time limit does not look at the cooldown: until the fill arrives, every
\* tick of the timer asks for the exit again.
OnTimer(ts) ==
    /\ entryTime > 0 /\ position > 0 /\ ts - entryTime > MaxHold
    /\ Emit("sell", position, ts)
    /\ UNCHANGED <<now, features, position, entryTime>>

\* handleFill
OnFill(o, ts) ==
    /\ orders' = orders \ {o}
    /\ \/ /\ o.side = "buy"
          /\ position' = position + o.qty
          /\ entryTime' = IF entryTime = 0 THEN ts ELSE entryTime
       \/ /\ o.side = "sell"
          /\ position' = IF position > o.qty THEN position - o.qty ELSE 0
          /\ entryTime' = IF position' = 0 THEN 0 ELSE entryTime
    /\ UNCHANGED <<now, features, lastSignal, tradeCount>>

\* Time, and the market's promise.
ClockAdvances ==
    /\ now < Horizon
    /\ \A o \in orders : now - o.at < Latency
    /\ now' = now + 1
    /\ UNCHANGED <<features, position, entryTime, lastSignal, tradeCount, orders>>

TNext ==
    \/ \E ts \in Stamps :
          \/ \E name \in {"momentum", "imbalance", "volatility"} : OnFeature(name, ts)
          \/ OnTickOrTrade(ts) \/ OnTimer(ts)
          \/ \E o \in orders : OnFill(o, ts)
    \/ ClockAdvances
TSpec == TInit /\ [][TNext]_mvars

-----------------------------------------------------------------------------
(* Properties                                                              *)

Bought == Size * Cardinality({o \in orders : o.side = "buy"})

(* The strategy never holds and asks for more than one position together: a  *)
(* second entry is refused by the position, or, while the fill of the first  *)
(* is still under way, only by the cooldown (strategy.go evaluate).  As the   *)
(* cooldown is one of timestamps, and an old event that is acted on sets the   *)
(* time of the last signal back, it has to be longer than an order is under way *)
(* and an event is late, together.                                          *)
OneEntry == position + Bought <= Size
=============================================================================
