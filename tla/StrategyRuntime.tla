--------------------------- MODULE StrategyRuntime ---------------------------
(***************************************************************************)
(* The strategy runtime: internal/strategy/runtime.go.  Dispatchers are the  *)
(* goroutines that call OnMarketEvent, OnIntelEvent or OnFeatureUpdate (the  *)
(* feed and the intel callback), and the timer goroutine of Start.  Each      *)
(* collects its targets under the read lock, lets go of it, and then calls    *)
(* one strategy after the other; meanwhile an operator registers, disables   *)
(* and unregisters strategies.                                              *)
(*                                                                         *)
(* A strategy answers a call with a slice of signals, well formed or not, and  *)
(* the dispatcher validates and executes them one by one.  The producer and the *)
(* counters of Stats are left out.                                          *)
(***************************************************************************)
EXTENDS Integers, FiniteSets

CONSTANTS
    StrategyIds,     \* strategy IDs
    Dispatchers,
    Timer,          \* the dispatcher that is the timer goroutine
    MarketSymbols,
    SymbolSet,      \* per strategy: its symbols, {} for all
    MaxBatch,       \* the signals one call of a strategy may return (those of
                    \* the momentum strategy: one for each symbol)
    MaxChanges,     \* bound: calls of the operator
    MaxSignals      \* bound: signals given to it

ASSUME RuntimeAssumption ==
    /\ IsFiniteSet(Dispatchers) /\ Timer \in Dispatchers
    /\ SymbolSet \in [StrategyIds -> SUBSET MarketSymbols]
    /\ MaxBatch \in Nat \ {0} /\ MaxChanges \in Nat /\ MaxSignals \in Nat

VARIABLES
    mode,      \* per strategy: "absent", "enabled" or "disabled"
    targets,    \* per dispatcher: the targets it has not called yet
    current,    \* per dispatcher: {} or the strategy whose signals it handles
    batch,      \* per dispatcher: how many of them are not handled yet
    step,       \* per dispatcher: "off", "idle", "call", "validate" or "execute"
    handed,     \* signals given to the executor
    afterwards, \* those of them given while the strategy was not enabled,
    orphans,    \* and while it was not even registered, per strategy and
                \* dispatcher (history: no guard reads them)
    timer,      \* "new", "running", "stopping" or "stopped": Start and Stop
    changes     \* calls of the operator
runVars == <<targets, current, batch, step>>
lateSignals == <<afterwards, orphans>>
rvars == <<mode, runVars, handed, lateSignals, timer, changes>>

RInit ==
    /\ mode = [s \in StrategyIds |-> "absent"]
    /\ targets = [d \in Dispatchers |-> {}]
    /\ current = [d \in Dispatchers |-> {}] /\ batch = [d \in Dispatchers |-> 0]
    /\ step = [d \in Dispatchers |-> IF d = Timer THEN "off" ELSE "idle"]
    /\ handed = 0
    /\ afterwards = [s \in StrategyIds |-> [d \in Dispatchers |-> 0]]
    /\ orphans = [s \in StrategyIds |-> [d \in Dispatchers |-> 0]]
    /\ timer = "new" /\ changes = 0

-----------------------------------------------------------------------------
(* Register, Unregister, Enable, Disable                                   *)

\* What was counted of strategy s is forgotten.
Forget(count, s) == [count EXCEPT ![s] = [d \in Dispatchers |-> 0]]

\* A strategy that is enabled again starts to count anew.
SetState(s, to) ==
    /\ changes < MaxChanges
    /\ changes' = changes + 1
    /\ mode' = [mode EXCEPT ![s] = to]
    /\ IF to = "enabled"
       THEN afterwards' = Forget(afterwards, s) /\ orphans' = Forget(orphans, s)
       ELSE UNCHANGED lateSignals
    /\ UNCHANGED <<runVars, handed, timer>>

Register(s) == mode[s] = "absent" /\ SetState(s, "enabled")
Unregister(s) == mode[s] # "absent" /\ SetState(s, "absent")
Enable(s) == mode[s] # "absent" /\ SetState(s, "enabled")
Disable(s) == mode[s] # "absent" /\ SetState(s, "disabled")

-----------------------------------------------------------------------------
(* A dispatcher                                                            *)

At(d, from, to) == step[d] = from /\ step' = [step EXCEPT ![d] = to]

Subscribed(x) == {s \in StrategyIds : SymbolSet[s] = {} \/ x \in SymbolSet[s]}

\* Mutant: whoever is registered is called.
CollectAll(d, called) ==
    /\ At(d, "idle", "call")
    /\ targets' = [targets EXCEPT ![d] = {s \in called : mode[s] # "absent"}]
    /\ UNCHANGED <<mode, current, batch, handed, lateSignals, timer, changes>>

Collect(d, called) ==
    /\ At(d, "idle", "call")
    /\ targets' = [targets EXCEPT ![d] = {s \in called : mode[s] = "enabled"}]
    /\ UNCHANGED <<mode, current, batch, handed, lateSignals, timer, changes>>

\* OnMarketEvent selects by symbol, OnIntelEvent by any of several assets.
OnEvent(d) ==
    \/ \E x \in MarketSymbols : d # Timer /\ Collect(d, Subscribed(x))
    \/ \E tags \in SUBSET MarketSymbols \ {{}} :
          d # Timer /\ Collect(d, UNION {Subscribed(x) : x \in tags})
TimerTick(d) == d = Timer /\ Collect(d, StrategyIds)

\* The strategy is called without the lock and returns n signals.
CallStrategy(d) ==
    /\ \E s \in targets[d], n \in 0 .. MaxBatch :
          /\ targets' = [targets EXCEPT ![d] = @ \ {s}]
          /\ \/ /\ n > 0 /\ At(d, "call", "validate")
                /\ current' = [current EXCEPT ![d] = {s}]
                /\ batch' = [batch EXCEPT ![d] = n]
             \/ n = 0 /\ step[d] = "call" /\ UNCHANGED <<step, current, batch>>
    /\ UNCHANGED <<mode, handed, lateSignals, timer, changes>>

\* The loop over the slice: an error ends one signal, never the loop.
NextSignal(d) ==
    /\ batch' = [batch EXCEPT ![d] = @ - 1]
    /\ step' = [step EXCEPT ![d] = IF batch[d] = 1 THEN "call" ELSE "validate"]
    /\ current' = [current EXCEPT ![d] = IF batch[d] = 1 THEN {} ELSE @]

\* validateSignal: malformed, or of a strategy that is gone by now.
Refuse(d) ==
    /\ step[d] = "validate" /\ NextSignal(d)
    /\ UNCHANGED <<mode, targets, handed, lateSignals, timer, changes>>
Accept(d) ==
    /\ At(d, "validate", "execute")
    /\ \A s \in current[d] : mode[s] # "absent"
    /\ UNCHANGED <<mode, targets, current, batch, handed, lateSignals, timer, changes>>

\* One more for the strategy whose signal d hands over, if it is in one of the modes.
CountIn(count, d, modes) ==
    [s \in StrategyIds |->
        IF s \in current[d] /\ mode[s] \in modes THEN [count[s] EXCEPT ![d] = @ + 1]
                                                 ELSE count[s]]

\* The executor, unless DryRun.
HandOver(d) ==
    /\ step[d] = "execute" /\ NextSignal(d)
    /\ handed < MaxSignals
    /\ handed' = handed + 1
    /\ afterwards' = CountIn(afterwards, d, {"absent", "disabled"})
    /\ orphans' = CountIn(orphans, d, {"absent"})
    /\ UNCHANGED <<mode, targets, timer, changes>>

Return(d) ==
    /\ At(d, "call", "idle") /\ targets[d] = {}
    /\ UNCHANGED <<mode, targets, current, batch, handed, lateSignals, timer, changes>>

-----------------------------------------------------------------------------
(* Start and Stop                                                          *)

Others == UNCHANGED <<mode, targets, current, batch, handed, lateSignals, changes>>

StartTimer ==
    /\ timer = "new" /\ timer' = "running"
    /\ At(Timer, "off", "idle") /\ Others
StopTimer ==
    /\ timer = "running" /\ timer' = "stopping"
    /\ UNCHANGED step /\ Others
\* The goroutine sees its context between two calls of OnTimer.
TimerLeaves ==
    /\ timer = "stopping" /\ UNCHANGED timer
    /\ At(Timer, "idle", "off") /\ Others

\* wg.Wait, and started is false again.
StopReturns ==
    /\ timer = "stopping" /\ step[Timer] = "off" /\ timer' = "stopped"
    /\ UNCHANGED step /\ Others

RNext ==
    \/ \E s \in StrategyIds : Register(s) \/ Unregister(s) \/ Enable(s) \/ Disable(s)
    \/ \E d \in Dispatchers :
          \/ OnEvent(d) \/ TimerTick(d) \/ CallStrategy(d)
          \/ Refuse(d) \/ Accept(d) \/ HandOver(d) \/ Return(d)
    \/ StartTimer \/ StopTimer \/ TimerLeaves \/ StopReturns

RSpec == RInit /\ [][RNext]_rvars

-----------------------------------------------------------------------------
(* Properties                                                              *)

\* The signals of s that d may still hand over: those of a call it has yet to
\* make, or the rest of the slice it works through.
Coming(s, d) ==
    IF s \in targets[d] THEN MaxBatch ELSE IF s \in current[d] THEN batch[d] ELSE 0

(* Disable and Unregister return while signals of the strategy are still on  *)
(* their way to the executor (runtime.go OnMarketEvent releases the lock      *)
(* before it calls the strategies), but each goroutine delivers no more than   *)
(* the one slice it had coming, however long the feed and the timer go on; and *)
(* of a strategy that stays unregistered no more than the one signal it had     *)
(* validated (processSignal), however long the slice.                       *)
LateSignalsBounded ==
    \A s \in StrategyIds, d \in Dispatchers :
        /\ mode[s] # "enabled" => afterwards[s][d] + Coming(s, d) <= MaxBatch
        /\ mode[s] = "absent" => orphans[s][d] <= 1
=============================================================================
