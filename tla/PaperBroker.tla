----------------------------- MODULE PaperBroker -----------------------------
(***************************************************************************)
(* The simulated exchange of paper trading: execution/paper_broker.go.      *)
(*                                                                         *)
(* Everything happens under one mutex, except that a market order with a    *)
(* fill delay sleeps without it, in the goroutine of its submitter.  Prices  *)
(* and slippage are left out; every fill is for the whole order.            *)
(***************************************************************************)
EXTENDS Integers, FiniteSets

CONSTANTS
    Submitters,     \* goroutines that call SubmitOrder
    OrderIntents,
    Market          \* those of OrderIntents with order type "market"

ASSUME BrokerAssumption == Market \subseteq OrderIntents /\ IsFiniteSet(OrderIntents)

VARIABLES
    delayed,    \* fillDelay > 0
    seen,       \* seenIntents
    orderState,      \* per intent: the state of its order, "none" without one
    resting,    \* pendingOrders
    asleep,     \* per submitter: {} or the intent whose fill it waits for
    abandoned,  \* intents whose submitter went away during the delay
    recorded    \* per intent: fills
pvars == <<delayed, seen, orderState, resting, asleep, abandoned, recorded>>

PInit ==
    /\ delayed \in BOOLEAN
    /\ seen = {} /\ resting = {} /\ abandoned = {}
    /\ orderState = [i \in OrderIntents |-> "none"]
    /\ asleep = [s \in Submitters |-> {}]
    /\ recorded = [i \in OrderIntents |-> 0]

\* order.Transition(EventFill) and the record for the consumers.
Fill(i) ==
    /\ orderState' = [orderState EXCEPT ![i] = "FILLED"]
    /\ recorded' = [recorded EXCEPT ![i] = @ + 1]

\* Mutant: a retried intent is taken again.
FreshAlways(i) == i \in OrderIntents
\* A duplicate is refused without a trace.
Fresh(i) == i \notin seen

\* SubmitOrder, up to the delay of a market order.
SubmitOrder(s, i) ==
    /\ asleep[s] = {} /\ Fresh(i)
    /\ seen' = seen \cup {i}
    /\ \/ /\ i \in Market /\ ~delayed
          /\ Fill(i)
          /\ UNCHANGED <<resting, asleep>>
       \/ /\ i \in Market /\ delayed
          /\ orderState' = [orderState EXCEPT ![i] = "ACKED"]
          /\ asleep' = [asleep EXCEPT ![s] = {i}]
          /\ UNCHANGED <<resting, recorded>>
       \/ /\ i \notin Market
          /\ orderState' = [orderState EXCEPT ![i] = "ACKED"]
          /\ resting' = resting \cup {i}
          /\ UNCHANGED <<asleep, recorded>>
    /\ UNCHANGED <<delayed, abandoned>>

\* The delay ends.
ExecuteMarketFill(s, i) ==
    /\ asleep[s] = {i}
    /\ Fill(i)
    /\ asleep' = [asleep EXCEPT ![s] = {}]
    /\ UNCHANGED <<delayed, seen, resting, abandoned>>
\* The context of the submitter ends first: it gets an error, and the order
\* stays acknowledged, neither filled nor pending.
GiveUp(s, i) ==
    /\ asleep[s] = {i}
    /\ abandoned' = abandoned \cup {i}
    /\ asleep' = [asleep EXCEPT ![s] = {}]
    /\ UNCHANGED <<delayed, seen, orderState, resting, recorded>>

SimulateFill(i) ==
    /\ i \in resting
    /\ Fill(i)
    /\ resting' = resting \ {i}
    /\ UNCHANGED <<delayed, seen, asleep, abandoned>>

\* CancelOrder finds pending orders only.
CancelOrder(i) ==
    /\ i \in resting
    /\ orderState' = [orderState EXCEPT ![i] = "CANCELLED"]
    /\ resting' = resting \ {i}
    /\ UNCHANGED <<delayed, seen, asleep, abandoned, recorded>>

PNext ==
    \/ \E s \in Submitters, i \in OrderIntents :
          SubmitOrder(s, i) \/ ExecuteMarketFill(s, i) \/ GiveUp(s, i)
    \/ \E i \in OrderIntents : SimulateFill(i) \/ CancelOrder(i)

PSpec == PInit /\ [][PNext]_pvars

-----------------------------------------------------------------------------
(* Properties                                                              *)

(* The broker executes an intent at most once, however often and by whom it  *)
(* is sent, and an acknowledged order is still somewhere: pending, asleep,   *)
(* or given up by its submitter, to whom the broker reported an error        *)
(* (paper_broker.go SubmitOrder, which lets go of its mutex in the delay).   *)
BrokerAgrees ==
    /\ \A i \in OrderIntents : recorded[i] = IF orderState[i] = "FILLED" THEN 1 ELSE 0
    /\ {i \in OrderIntents : orderState[i] = "ACKED"} =
          resting \cup abandoned \cup UNION {asleep[s] : s \in Submitters}
=============================================================================
