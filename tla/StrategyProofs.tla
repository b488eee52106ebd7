--------------------------- MODULE StrategyProofs ---------------------------
(* What trading strategies rest on: the strategy runtime, for any number of   *)
(* strategies and dispatchers, the momentum strategy and the exit engine, for *)
(* any times and levels, and the feature engine, for any trades and windows.  *)
EXTENDS StrategyRuntime, Momentum, ExitEngine, Features, SumLemmas, SequenceTheorems

-----------------------------------------------------------------------------
(* The runtime                                                             *)

Modes == {"absent", "enabled", "disabled"}

RuntimeTypes ==
    /\ mode \in [StrategyIds -> Modes]
    /\ targets \in [Dispatchers -> SUBSET StrategyIds]
    /\ current \in [Dispatchers -> SUBSET StrategyIds]
    /\ batch \in [Dispatchers -> 0 .. MaxBatch]
    /\ step \in [Dispatchers -> {"off", "idle", "call", "validate", "execute"}]
    /\ afterwards \in [StrategyIds -> [Dispatchers -> Nat]]
    /\ orphans \in [StrategyIds -> [Dispatchers -> Nat]]

\* A dispatcher without work holds nothing, and it has either still to call a
\* strategy or some of its signals at hand, not both.
WorkInHand ==
    \A d \in Dispatchers :
        /\ step[d] \in {"off", "idle"} => targets[d] = {}
        /\ step[d] \in {"off", "idle", "call"} => current[d] = {}
        /\ step[d] \in {"validate", "execute"} => batch[d] > 0
        /\ targets[d] \cap current[d] = {}

\* The history of a strategy starts when it is no longer enabled, or registered.
CountsAnew ==
    \A s \in StrategyIds, d \in Dispatchers :
        /\ mode[s] = "enabled" => afterwards[s][d] = 0
        /\ mode[s] # "absent" => orphans[s][d] = 0

\* A signal that d has validated and not handed over.
Validated(s, d) == s \in current[d] /\ step[d] = "execute"

Room(s, d) == mode[s] # "enabled" => afterwards[s][d] + Coming(s, d) <= MaxBatch
LastWord(s, d) ==
    mode[s] = "absent" => orphans[s][d] <= 1 /\ (Validated(s, d) => orphans[s][d] = 0)

RoomForAll == \A s \in StrategyIds, d \in Dispatchers : Room(s, d) /\ LastWord(s, d)

RuntimeInv == RuntimeTypes /\ WorkInHand /\ CountsAnew /\ RoomForAll

-----------------------------------------------------------------------------

(* What is coming from a dispatcher is never more than one slice.            *)
LEMMA OneSlice ==
  RuntimeTypes => \A s \in StrategyIds, d \in Dispatchers : Coming(s, d) \in 0 .. MaxBatch
  BY RuntimeAssumption DEF RuntimeTypes, Coming

LEMMA OneSliceAfter ==
  RuntimeTypes' => (\A s \in StrategyIds, d \in Dispatchers : Coming(s, d) \in 0 .. MaxBatch)'
  BY OneSlice, PTL

(* Nothing is registered at the start.                                     *)
LEMMA RuntimeInit == RInit => RuntimeInv
<1> SUFFICES ASSUME RInit PROVE RuntimeInv
  OBVIOUS
<1>1. RuntimeTypes /\ WorkInHand /\ CountsAnew
  BY RuntimeAssumption DEF RInit, RuntimeTypes, WorkInHand, CountsAnew, Modes
<1>2. RoomForAll
  BY <1>1, OneSlice, RuntimeAssumption DEF RInit, RoomForAll, Room, LastWord, Validated
<1> QED
  BY <1>1, <1>2 DEF RuntimeInv

-----------------------------------------------------------------------------
(* The operator                                                            *)

(* A strategy that stops being enabled has no late signals yet, and each      *)
(* dispatcher has at most one slice of it coming.                           *)
LEMMA OperatorStep ==
  ASSUME RuntimeInv, NEW s \in StrategyIds,
         Register(s) \/ Unregister(s) \/ Enable(s) \/ Disable(s)
  PROVE  RuntimeInv'
<1>1. PICK to \in Modes : SetState(s, to) /\ (mode[s] = "absent" => to = "enabled")
  BY DEF Register, Unregister, Enable, Disable, Modes
<1>2. UNCHANGED <<targets, current, batch, step>>
  BY <1>1 DEF SetState, runVars
<1>3. RuntimeTypes' /\ WorkInHand'
  <2>1. mode' \in [StrategyIds -> Modes]
    BY <1>1 DEF SetState, RuntimeInv, RuntimeTypes
  <2>2. /\ afterwards' \in [StrategyIds -> [Dispatchers -> Nat]]
        /\ orphans' \in [StrategyIds -> [Dispatchers -> Nat]]
    <3>1. [d \in Dispatchers |-> 0] \in [Dispatchers -> Nat]
      OBVIOUS
    <3> QED
      BY <1>1, <3>1 DEF SetState, RuntimeInv, RuntimeTypes, Forget, lateSignals
  <2> QED
    BY <1>2, <2>1, <2>2 DEF RuntimeInv, RuntimeTypes, WorkInHand
<1>4. ASSUME NEW r \in StrategyIds, NEW d \in Dispatchers
      PROVE  /\ r # s => mode'[r] = mode[r]
             /\ mode'[s] = to
             /\ \/ afterwards'[r][d] = afterwards[r][d] /\ orphans'[r][d] = orphans[r][d]
                \/ r = s /\ afterwards'[r][d] = 0 /\ orphans'[r][d] = 0
             /\ to = "enabled" => afterwards'[s][d] = 0 /\ orphans'[s][d] = 0
             /\ to # "enabled" => afterwards'[s][d] = afterwards[s][d]
                                  /\ orphans'[s][d] = orphans[s][d]
  BY <1>1 DEF SetState, RuntimeInv, RuntimeTypes, Forget, lateSignals
<1>5. CountsAnew'
  BY <1>1, <1>4 DEF RuntimeInv, CountsAnew
<1>6. ASSUME NEW r \in StrategyIds, NEW d \in Dispatchers
      PROVE  Room(r, d)' /\ LastWord(r, d)'
  <2>1. Coming(r, d)' = Coming(r, d) /\ Validated(r, d)' = Validated(r, d)
    BY <1>2 DEF Coming, Validated
  <2>2. Coming(r, d) \in 0 .. MaxBatch /\ MaxBatch \in Nat /\ afterwards[r][d] \in Nat
    BY OneSlice, RuntimeAssumption DEF RuntimeInv, RuntimeTypes
  <2>3. Room(r, d) /\ LastWord(r, d)
    BY DEF RuntimeInv, RoomForAll
  <2>4. /\ mode[r] = "enabled" => afterwards[r][d] = 0
        /\ mode[r] # "absent" => orphans[r][d] = 0
    BY DEF RuntimeInv, CountsAnew
  <2> QED
    BY <1>1, <1>4, <2>1, <2>2, <2>3, <2>4 DEF Room, LastWord
<1>7. RoomForAll'
  BY <1>6 DEF RoomForAll
<1> QED
  BY <1>3, <1>5, <1>7 DEF RuntimeInv

-----------------------------------------------------------------------------
(* A dispatcher                                                            *)

(* Steps that only take work from a dispatcher, or give it strategies that are *)
(* enabled, leave the room.                                                 *)
LEMMA QuietStep ==
  ASSUME RuntimeInv, UNCHANGED <<mode, afterwards, orphans>>, RuntimeTypes', WorkInHand',
         \A s \in StrategyIds, d \in Dispatchers :
            mode[s] # "enabled" => Coming(s, d)' <= Coming(s, d),
         \A s \in StrategyIds, d \in Dispatchers :
            mode[s] = "absent" /\ Validated(s, d)' => Validated(s, d)
  PROVE  RuntimeInv'
<1>1. ASSUME NEW s \in StrategyIds, NEW d \in Dispatchers PROVE Room(s, d)' /\ LastWord(s, d)'
  <2>1. Coming(s, d) \in 0 .. MaxBatch /\ MaxBatch \in Nat /\ afterwards[s][d] \in Nat
    BY OneSlice, RuntimeAssumption DEF RuntimeInv, RuntimeTypes
  <2>2. Coming(s, d)' \in 0 .. MaxBatch
    BY OneSliceAfter
  <2>3. Room(s, d) /\ LastWord(s, d)
    BY DEF RuntimeInv, RoomForAll
  <2> QED
    BY <2>1, <2>2, <2>3 DEF Room, LastWord
<1> QED
  BY <1>1 DEF RuntimeInv, CountsAnew, RoomForAll

(* Collecting, calling and returning.                                       *)
LEMMA DispatchStep ==
  ASSUME RuntimeInv, NEW d \in Dispatchers,
         OnEvent(d) \/ TimerTick(d) \/ CallStrategy(d) \/ Accept(d) \/ Return(d)
  PROVE  RuntimeInv'
<1> USE DEF RuntimeInv, RuntimeTypes, WorkInHand, At
<1>1. ASSUME NEW called \in SUBSET StrategyIds, Collect(d, called) PROVE RuntimeInv'
  <2>1. RuntimeTypes' /\ WorkInHand'
    BY <1>1 DEF Collect, lateSignals
  <2>2. ASSUME NEW s \in StrategyIds, NEW e \in Dispatchers, mode[s] # "enabled"
        PROVE  Coming(s, e)' <= Coming(s, e)
    BY <1>1, <2>2, RuntimeAssumption DEF Collect, Coming
  <2>3. UNCHANGED <<mode, afterwards, orphans>>
    BY <1>1 DEF Collect, lateSignals
  <2>4. \A s \in StrategyIds, e \in Dispatchers : Validated(s, e)' => Validated(s, e)
    BY <1>1 DEF Collect, Validated
  <2> QED
    BY <2>1, <2>2, <2>3, <2>4, QuietStep
<1>2. CASE CallStrategy(d)
  <2>1. PICK s \in targets[d], n \in 0 .. MaxBatch :
            /\ targets' = [targets EXCEPT ![d] = @ \ {s}]
            /\ \/ /\ n > 0 /\ At(d, "call", "validate")
                  /\ current' = [current EXCEPT ![d] = {s}]
                  /\ batch' = [batch EXCEPT ![d] = n]
               \/ n = 0 /\ step[d] = "call" /\ UNCHANGED <<step, current, batch>>
    BY <1>2 DEF CallStrategy
  <2>2. UNCHANGED <<mode, afterwards, orphans>>
    BY <1>2 DEF CallStrategy, lateSignals
  <2>3. RuntimeTypes' /\ WorkInHand'
    <3>1. mode' \in [StrategyIds -> Modes] /\ step[d] = "call" /\ s \in StrategyIds
      BY <2>1, <2>2
    <3>2. WorkInHand'
      BY <2>1, <3>1
    <3>3. /\ targets' \in [Dispatchers -> SUBSET StrategyIds]
          /\ current' \in [Dispatchers -> SUBSET StrategyIds]
      BY <2>1, <3>1
    <3>4. /\ batch' \in [Dispatchers -> 0 .. MaxBatch]
          /\ step' \in [Dispatchers -> {"off", "idle", "call", "validate", "execute"}]
      BY <2>1
    <3> QED
      BY <2>2, <3>1, <3>2, <3>3, <3>4
  <2>4. ASSUME NEW r \in StrategyIds, NEW e \in Dispatchers
        PROVE  Coming(r, e)' <= Coming(r, e)
    BY <2>1, RuntimeAssumption DEF Coming
  <2>5. \A r \in StrategyIds, e \in Dispatchers : Validated(r, e)' => Validated(r, e)
    BY <2>1 DEF Validated
  <2> QED
    BY <2>2, <2>3, <2>4, <2>5, QuietStep
<1>3. CASE Accept(d) \/ Return(d)
  <2>1. UNCHANGED <<mode, afterwards, orphans>>
    BY <1>3 DEF Accept, Return, lateSignals
  <2>2. RuntimeTypes' /\ WorkInHand'
    BY <1>3 DEF Accept, Return, lateSignals
  <2>3. ASSUME NEW r \in StrategyIds, NEW e \in Dispatchers
        PROVE  Coming(r, e)' <= Coming(r, e)
    BY <1>3, RuntimeAssumption DEF Accept, Return, Coming
  <2>4. \A r \in StrategyIds, e \in Dispatchers :
            mode[r] = "absent" /\ Validated(r, e)' => Validated(r, e)
    BY <1>3 DEF Accept, Return, Validated
  <2> QED
    BY <2>1, <2>2, <2>3, <2>4, QuietStep
<1>4. CASE OnEvent(d)
  <2>1. \A x \in MarketSymbols : Subscribed(x) \subseteq StrategyIds
    BY DEF Subscribed
  <2>2. \A tags \in SUBSET MarketSymbols : UNION {Subscribed(x) : x \in tags} \subseteq StrategyIds
    BY <2>1
  <2> QED
    BY <1>1, <1>4, <2>1, <2>2 DEF OnEvent
<1>5. CASE TimerTick(d)
  BY <1>1, <1>5 DEF TimerTick
<1> QED
  BY <1>2, <1>3, <1>4, <1>5

(* The loop over a slice leaves a dispatcher with one signal less.            *)
LEMMA LoopStep ==
  ASSUME RuntimeTypes, WorkInHand, NEW d \in Dispatchers, NextSignal(d),
         step[d] \in {"validate", "execute"}, UNCHANGED <<mode, targets>>,
         NEW s \in StrategyIds, NEW e \in Dispatchers
  PROVE  /\ Coming(s, e)' = IF e = d /\ s \in current[d] THEN Coming(s, e) - 1
                                                         ELSE Coming(s, e)
         /\ Validated(s, e)' => e # d /\ Validated(s, e)
<1>1. /\ batch'[d] = batch[d] - 1 /\ batch[d] \in 1 .. MaxBatch
      /\ step'[d] \in {"call", "validate"}
      /\ current'[d] = IF batch[d] = 1 THEN {} ELSE current[d]
      /\ e # d => batch'[e] = batch[e] /\ step'[e] = step[e] /\ current'[e] = current[e]
      /\ targets[d] \cap current[d] = {}
  BY RuntimeAssumption DEF RuntimeTypes, WorkInHand, NextSignal
<1> QED
  BY <1>1, RuntimeAssumption DEF Coming, Validated, RuntimeTypes

(* The types, and what a dispatcher has at hand, along the loop.              *)
LEMMA LoopTypes ==
  ASSUME RuntimeTypes, WorkInHand, NEW d \in Dispatchers, NextSignal(d),
         step[d] \in {"validate", "execute"}, UNCHANGED <<mode, targets>>,
         afterwards' \in [StrategyIds -> [Dispatchers -> Nat]],
         orphans' \in [StrategyIds -> [Dispatchers -> Nat]]
  PROVE  RuntimeTypes' /\ WorkInHand'
<1>1. batch[d] \in 1 .. MaxBatch
  BY RuntimeAssumption DEF RuntimeTypes, WorkInHand
<1>2. RuntimeTypes'
  BY <1>1, RuntimeAssumption DEF RuntimeTypes, NextSignal
<1>3. WorkInHand'
  BY <1>1, RuntimeAssumption DEF RuntimeTypes, WorkInHand, NextSignal
<1> QED
  BY <1>2, <1>3

LEMMA RefuseStep ==
  ASSUME RuntimeInv, NEW d \in Dispatchers, Refuse(d)
  PROVE  RuntimeInv'
<1>1. /\ step[d] = "validate" /\ NextSignal(d)
      /\ UNCHANGED <<mode, targets, afterwards, orphans>>
  BY DEF Refuse, lateSignals
<1>2. RuntimeTypes' /\ WorkInHand'
  BY <1>1, LoopTypes DEF RuntimeInv, RuntimeTypes
<1>3. ASSUME NEW s \in StrategyIds, NEW e \in Dispatchers
      PROVE  Coming(s, e)' <= Coming(s, e) /\ (Validated(s, e)' => Validated(s, e))
  <2>1. Coming(s, e) \in 0 .. MaxBatch /\ MaxBatch \in Nat
    BY OneSlice, RuntimeAssumption DEF RuntimeInv
  <2> QED
    BY <1>1, <2>1, LoopStep DEF RuntimeInv
<1> QED
  BY <1>1, <1>2, <1>3, QuietStep

(* A late signal is counted when its dispatcher lets go of it.                *)
LEMMA HandOverStep ==
  ASSUME RuntimeInv, NEW d \in Dispatchers, HandOver(d)
  PROVE  RuntimeInv'
<1>1. step[d] = "execute" /\ NextSignal(d) /\ UNCHANGED <<mode, targets>>
  BY DEF HandOver
<1>2. ASSUME NEW s \in StrategyIds, NEW e \in Dispatchers
      PROVE  /\ afterwards'[s][e] = IF e = d /\ s \in current[d] /\ mode[s] # "enabled"
                                    THEN afterwards[s][e] + 1 ELSE afterwards[s][e]
             /\ orphans'[s][e] = IF Validated(s, e) /\ e = d /\ mode[s] = "absent"
                                 THEN orphans[s][e] + 1 ELSE orphans[s][e]
  <2>1. mode[s] \in Modes
    BY DEF RuntimeInv, RuntimeTypes
  <2>2. afterwards'[s][e] = IF e = d /\ s \in current[d] /\ mode[s] # "enabled"
                            THEN afterwards[s][e] + 1 ELSE afterwards[s][e]
    BY <2>1 DEF HandOver, CountIn, Modes, RuntimeInv, RuntimeTypes
  <2>3. orphans'[s][e] = IF e = d /\ s \in current[d] /\ mode[s] = "absent"
                         THEN orphans[s][e] + 1 ELSE orphans[s][e]
    BY <2>1 DEF HandOver, CountIn, Modes, RuntimeInv, RuntimeTypes
  <2> QED
    BY <1>1, <2>2, <2>3 DEF Validated
<1>3. /\ afterwards' \in [StrategyIds -> [Dispatchers -> Nat]]
      /\ orphans' \in [StrategyIds -> [Dispatchers -> Nat]]
  BY DEF HandOver, CountIn, RuntimeInv, RuntimeTypes
<1>4. RuntimeTypes' /\ WorkInHand'
  BY <1>1, <1>3, LoopTypes DEF RuntimeInv
<1>5. CountsAnew'
  BY <1>1, <1>2 DEF RuntimeInv, CountsAnew
<1>6. ASSUME NEW s \in StrategyIds, NEW e \in Dispatchers PROVE Room(s, e)' /\ LastWord(s, e)'
  <2>1. /\ Coming(s, e) \in 0 .. MaxBatch /\ MaxBatch \in Nat
        /\ afterwards[s][e] \in Nat /\ orphans[s][e] \in Nat
    BY OneSlice, RuntimeAssumption DEF RuntimeInv, RuntimeTypes
  <2>2. Room(s, e) /\ LastWord(s, e)
    BY DEF RuntimeInv, RoomForAll
  <2>3. /\ Coming(s, e)' = IF e = d /\ s \in current[d] THEN Coming(s, e) - 1
                                                        ELSE Coming(s, e)
        /\ Validated(s, e)' => e # d /\ Validated(s, e)
    BY <1>1, LoopStep DEF RuntimeInv
  <2>4. Room(s, e)'
    BY <1>1, <1>2, <2>1, <2>2, <2>3 DEF Room
  <2>5. LastWord(s, e)'
    BY <1>1, <1>2, <2>1, <2>2, <2>3 DEF LastWord
  <2> QED
    BY <2>4, <2>5
<1> QED
  BY <1>4, <1>5, <1>6 DEF RuntimeInv, RoomForAll

(* Start and Stop of the timer move no work.                                *)
LEMMA TimerStep ==
  ASSUME RuntimeInv, StartTimer \/ StopTimer \/ TimerLeaves \/ StopReturns
  PROVE  RuntimeInv'
<1>1. UNCHANGED <<mode, targets, current, batch, afterwards, orphans>>
  BY DEF StartTimer, StopTimer, TimerLeaves, StopReturns, Others, lateSignals
<1>2. RuntimeTypes' /\ WorkInHand'
  BY <1>1, RuntimeAssumption
     DEF RuntimeInv, RuntimeTypes, WorkInHand, At, StartTimer, StopTimer, TimerLeaves,
         StopReturns
<1>3. ASSUME NEW s \in StrategyIds, NEW d \in Dispatchers
      PROVE  Coming(s, d)' = Coming(s, d) /\ (Validated(s, d)' => Validated(s, d))
  BY <1>1, RuntimeAssumption
     DEF Coming, Validated, RuntimeInv, RuntimeTypes, At, StartTimer, StopTimer, TimerLeaves,
         StopReturns
<1>4. \A s \in StrategyIds, d \in Dispatchers : Coming(s, d)' <= Coming(s, d)
  BY <1>3, OneSlice, RuntimeAssumption DEF RuntimeInv
<1> QED
  BY <1>1, <1>2, <1>3, <1>4, QuietStep

(* A step of the runtime keeps the invariant.                               *)
LEMMA RuntimeStep == RuntimeInv /\ [RNext]_rvars => RuntimeInv'
<1> SUFFICES ASSUME RuntimeInv, [RNext]_rvars PROVE RuntimeInv'
  OBVIOUS
<1>1. CASE UNCHANGED rvars
  BY <1>1
     DEF rvars, runVars, lateSignals, RuntimeInv, RuntimeTypes, WorkInHand, CountsAnew,
         RoomForAll, Room, LastWord, Coming, Validated
<1> QED
  BY <1>1, OperatorStep, DispatchStep, RefuseStep, HandOverStep, TimerStep DEF RNext

(* After Disable or Unregister has returned, each dispatcher hands over at most *)
(* the one slice of signals it had coming, and after Unregister at most one    *)
(* signal (LateSignalsBounded; runtime.go OnMarketEvent, processSignal), for   *)
(* any strategies, dispatchers and slices.                                  *)
THEOREM LateSignals == RSpec => []LateSignalsBounded
<1>1. RuntimeInv => LateSignalsBounded
  BY DEF RuntimeInv, RoomForAll, Room, LastWord, LateSignalsBounded
<1> QED
  BY <1>1, RuntimeInit, RuntimeStep, PTL DEF RSpec

-----------------------------------------------------------------------------
(* The momentum strategy                                                   *)

Buys == {o \in orders : o.side = "buy"}

\* No order is older than Latency, none is younger than the last signal by more
\* than events are late, every order is as old as a signal, and an entry under way is alone with an empty position.
EntryInv ==
    /\ now \in Nat \ {0} /\ lastSignal \in Nat /\ lastSignal <= now /\ position \in Nat /\ position <= Size
    /\ orders \in SUBSET [id : Int, side : {"buy", "sell"}, qty : Nat, at : Nat]
    /\ tradeCount \in Nat /\ (orders # {} => lastSignal > 0)
    /\ \A o \in orders :
          0 < o.at /\ o.at <= now /\ o.at <= lastSignal + Lateness /\ now - o.at <= Latency
    /\ Buys # {} => position = 0
    /\ \A o \in Buys : o.qty = Size
    /\ \A o, u \in Buys : o = u

(* The invariant leaves room for one entry only.                            *)
LEMMA RoomForOne == EntryInv => OneEntry
<1> SUFFICES ASSUME EntryInv PROVE OneEntry
  OBVIOUS
<1>1. CASE Buys = {}
  <2>1. Cardinality(Buys) = 0
    BY <1>1, FS_EmptySet
  <2> QED
    BY <2>1, MomentumAssumption DEF OneEntry, Bought, Buys, EntryInv
<1>2. CASE Buys # {}
  <2>1. PICK o : Buys = {o}
    <3>1. PICK o : o \in Buys
      BY <1>2
    <3>2. \A u \in Buys : u = o
      BY <3>1 DEF EntryInv
    <3>3. Buys = {o}
      BY <3>1, <3>2
    <3> QED
      BY <3>3
  <2>2. Cardinality(Buys) = 1
    BY <2>1, FS_Singleton
  <2> QED
    BY <1>2, <2>2, MomentumAssumption DEF OneEntry, Bought, Buys, EntryInv
<1> QED
  BY <1>1, <1>2

(* An exit disturbs nothing.                                               *)
LEMMA ExitKeepsEntry ==
    ASSUME EntryInv, NEW q \in Nat, NEW ts \in Stamps, Emit("sell", q, ts), UNCHANGED <<now, position>>
    PROVE  EntryInv'
<1>1. /\ orders' = orders \cup {[id |-> tradeCount, side |-> "sell", qty |-> q, at |-> now]}
      /\ tradeCount' = tradeCount + 1 /\ lastSignal' = ts
      /\ ts \in Nat \ {0} /\ ts <= now /\ now <= ts + Lateness
  BY MomentumAssumption DEF Emit, Stamps, EntryInv
<1>2. Buys' = Buys
  BY <1>1 DEF Buys
<1>3. \A o \in orders : o.at <= now
  BY DEF EntryInv
<1> QED
  BY <1>1, <1>2, <1>3, MomentumAssumption DEF EntryInv

(* An entry needs an empty position, and nothing under way: the last signal   *)
(* is longer ago than any order may take, even for an event that comes late.   *)
LEMMA EntryIsAlone ==
    ASSUME EntryInv, NEW ts \in Stamps, position <= 0, CooldownOver(ts),
           Emit("buy", Size, ts), UNCHANGED <<now, position>>
    PROVE  EntryInv'
<1>1. /\ orders' = orders \cup {[id |-> tradeCount, side |-> "buy", qty |-> Size, at |-> now]}
      /\ tradeCount' = tradeCount + 1 /\ lastSignal' = ts
      /\ ts \in Nat \ {0} /\ ts <= now /\ now <= ts + Lateness
  BY MomentumAssumption DEF Emit, Stamps, EntryInv
<1>2. orders = {}
  <2> SUFFICES ASSUME NEW o \in orders PROVE FALSE
    OBVIOUS
  <2>1. o.at \in Nat /\ 0 < o.at /\ o.at <= lastSignal + Lateness /\ now - o.at <= Latency
    BY DEF EntryInv
  <2>2. /\ lastSignal \in Nat \ {0} /\ now \in Nat /\ Latency \in Nat /\ Cooldown \in Nat
        /\ Lateness \in Nat /\ Latency + Lateness < Cooldown
    BY MomentumAssumption DEF EntryInv
  <2> QED
    BY <1>1, <2>1, <2>2 DEF CooldownOver
<1>3. Size \in Nat /\ Latency \in Nat /\ position = 0
  BY MomentumAssumption DEF EntryInv
<1>4. /\ orders' = {[id |-> tradeCount, side |-> "buy", qty |-> Size, at |-> now]}
      /\ Buys' = orders'
  BY <1>1, <1>2 DEF Buys
<1> QED
  BY <1>1, <1>3, <1>4 DEF EntryInv

(* Every callback, and the market.                                          *)
LEMMA EntryStep == EntryInv /\ [TNext]_mvars => EntryInv'
<1> SUFFICES ASSUME EntryInv, [TNext]_mvars PROVE EntryInv'
  OBVIOUS
<1>1. ASSUME NEW known, NEW ts \in Stamps, Evaluate(known, ts), UNCHANGED <<now, position>> PROVE EntryInv'
  <2>1. CASE Silent
    BY <1>1, <2>1 DEF Silent, EntryInv, Buys
  <2>2. CASE CooldownOver(ts) /\ position <= 0 /\ Emit("buy", Size, ts)
    BY <1>1, <2>2, EntryIsAlone
  <2>3. CASE Emit("sell", position, ts)
    <3>1. position \in Nat
      BY DEF EntryInv
    <3> QED
      BY <1>1, <2>3, <3>1, ExitKeepsEntry
  <2> QED
    BY <1>1, <2>1, <2>2, <2>3 DEF Evaluate
<1>2. ASSUME NEW name, NEW ts \in Stamps, OnFeature(name, ts) PROVE EntryInv'
  BY <1>1, <1>2 DEF OnFeature
<1>3. ASSUME NEW ts \in Stamps, OnTickOrTrade(ts) PROVE EntryInv'
  BY <1>1, <1>3 DEF OnTickOrTrade
<1>4. ASSUME NEW ts \in Stamps, OnTimer(ts) PROVE EntryInv'
  <2>1. position \in Nat
    BY DEF EntryInv
  <2> QED
    BY <1>4, <2>1, ExitKeepsEntry DEF OnTimer
<1>5. ASSUME NEW o \in orders, NEW ts \in Stamps, OnFill(o, ts) PROVE EntryInv'
  <2>1. /\ orders' = orders \ {o} /\ UNCHANGED <<now, lastSignal, tradeCount>>
        /\ Buys' = Buys \ {o}
    BY <1>5 DEF OnFill, Buys
  <2>2. CASE o.side = "buy" /\ position' = position + o.qty
    <3>1. Buys = {o}
      BY <2>2 DEF EntryInv, Buys
    <3>2. Buys' = {} /\ position' = Size
      BY <2>1, <2>2, <3>1, MomentumAssumption DEF EntryInv
    <3> QED
      BY <2>1, <3>2, MomentumAssumption DEF EntryInv
  <2>3. CASE position' = IF position > o.qty THEN position - o.qty ELSE 0
    <3>1. position' \in Nat /\ position' <= position
      BY <2>3 DEF EntryInv
    <3> QED
      BY <2>1, <3>1, MomentumAssumption DEF EntryInv
  <2> QED
    BY <1>5, <2>2, <2>3 DEF OnFill
<1>6. CASE ClockAdvances
  <2>1. now' = now + 1 /\ UNCHANGED <<position, orders, lastSignal, tradeCount>>
    BY <1>6 DEF ClockAdvances
  <2>2. \A o \in orders : now' - o.at <= Latency
    BY <1>6, MomentumAssumption DEF ClockAdvances, EntryInv
  <2> QED
    BY <2>1, <2>2 DEF EntryInv, Buys
<1>7. CASE UNCHANGED mvars
  BY <1>7 DEF mvars, EntryInv, Buys
<1> QED
  BY <1>2, <1>3, <1>4, <1>5, <1>6, <1>7 DEF TNext

(* With a cooldown longer than an order takes and an event is late, together,  *)
(* the strategy never asks for a second entry (strategy.go evaluate), however   *)
(* fills, features, ticks and timers interleave and whatever their timestamps. *)
THEOREM MomentumEntersOnce == TSpec => []OneEntry
<1>1. TInit => EntryInv
  BY MomentumAssumption DEF TInit, EntryInv, Buys
<1>2. EntryInv /\ [TNext]_mvars => EntryInv'
  BY EntryStep
<1> QED
  BY <1>1, <1>2, RoomForOne, PTL DEF TSpec

-----------------------------------------------------------------------------
(* The exit engine                                                         *)

Statuses == {"OPEN", "CLOSING", "CLOSED", "FAILED"}

\* Amounts are natural numbers, and there are finitely many sells under way.
ExitTypes ==
    /\ status \in Statuses /\ age \in Nat
    /\ remaining \in Nat /\ held \in Nat
    /\ IsFiniteSet(selling) /\ \A sell \in selling : sell.tokens \in Nat
    /\ tpHit \subseteq TPs /\ timedHit \subseteq Timeds /\ overdue \in Nat
    /\ warning \in Nat /\ warnedSold \in Nat

SellInv == ExitTypes /\ SalesCovered

(* The first of a non-empty set of levels or exits is one of them.           *)
LEMMA FirstIsDue ==
  ASSUME NEW S \in SUBSET Nat, S # {}
  PROVE  FirstDue(S) \in S
<1>1. \E x \in S : \A y \in S : x <= y
  BY LeastNumber
<1> QED
  BY <1>1 DEF FirstDue, Min

(* A sell leaves no more than there was.                                   *)
LEMMA LeftIsLess ==
  ASSUME remaining \in Nat, NEW pct \in 1 .. 100
  PROVE  Left(pct) \in Nat /\ Left(pct) <= remaining
<1> DEFINE r == remaining * (100 - pct)
<1>1. r \in Nat
  <2>1. 100 - pct \in Nat
    OBVIOUS
  <2> QED
    BY <2>1
<1>2. r <= remaining * 100
  <2>1. remaining * 100 = r + remaining * pct
    OBVIOUS
  <2>2. remaining * pct \in Nat
    <3>1. pct \in Nat
      OBVIOUS
    <3> QED
      BY <3>1
  <2> HIDE DEF r
  <2> QED
    BY <1>1, <2>1, <2>2
<1> HIDE DEF r
<1>3. r \div 100 \in Nat /\ r \div 100 <= remaining
  BY <1>1, <1>2
<1> QED
  BY <1>3 DEF Left, r

(* The sum of what is under way, before and after a sell starts or ends.     *)
LEMMA SaleStarts ==
  ASSUME ExitTypes, NEW sell, sell.tokens \in Nat, selling' = selling \cup {sell}
  PROVE  /\ IsFiniteSet(selling') /\ \A s \in selling' : s.tokens \in Nat
         /\ SumFunctionOnSet(Committed, selling) \in Int
         /\ SumFunctionOnSet(Committed', selling') \in Int
         /\ SumFunctionOnSet(Committed', selling')
              <= SumFunctionOnSet(Committed, selling) + sell.tokens
<1> USE DEF ExitTypes
<1>1. IsFiniteSet(selling') /\ \A s \in selling' : s.tokens \in Nat
  BY FS_AddElement
<1>2. /\ \A s \in selling : Committed[s] \in Int /\ Committed[s] = Committed'[s]
      /\ \A s \in selling' : Committed'[s] \in Int
      /\ Committed'[sell] = sell.tokens
  BY <1>1 DEF Committed
<1>3. SumFunctionOnSet(Committed, selling) \in Int /\ SumFunctionOnSet(Committed', selling') \in Int
  BY <1>1, <1>2, SumInt
<1>4. CASE sell \in selling
  <2>1. selling' = selling
    BY <1>4
  <2>2. Committed' = Committed
    BY <2>1 DEF Committed
  <2>3. SumFunctionOnSet(Committed', selling') = SumFunctionOnSet(Committed, selling)
    BY <2>1, <2>2
  <2> QED
    BY <1>1, <1>3, <2>3
<1>5. CASE sell \notin selling
  <2>1. SumFunctionOnSet(Committed', selling \cup {sell})
          = SumFunctionOnSet(Committed, selling) + Committed'[sell]
    BY <1>2, <1>5, SumMore
  <2> QED
    BY <1>1, <1>2, <1>3, <2>1
<1> QED
  BY <1>4, <1>5

\* A sale that ends commits no tokens any more.
LEMMA SaleEnds ==
  ASSUME ExitTypes, NEW sell \in selling, selling' = selling \ {sell}
  PROVE  /\ IsFiniteSet(selling') /\ \A s \in selling' : s.tokens \in Nat
         /\ SumFunctionOnSet(Committed, selling) \in Int
         /\ SumFunctionOnSet(Committed', selling') \in Nat
         /\ SumFunctionOnSet(Committed', selling')
              = SumFunctionOnSet(Committed, selling) - sell.tokens
<1>0. IsFiniteSet(selling) /\ \A s \in selling : s.tokens \in Nat
  BY DEF ExitTypes
<1>1. IsFiniteSet(selling') /\ \A s \in selling' : s.tokens \in Nat
  BY <1>0, FS_Subset
<1>2. /\ \A s \in selling : Committed[s] \in Int
      /\ \A s \in selling' : Committed'[s] \in Nat
      /\ \A s \in selling \ {sell} : Committed[s] = Committed'[s]
      /\ Committed[sell] = sell.tokens
  BY <1>0, <1>1 DEF Committed
<1>3. SumFunctionOnSet(Committed, selling) \in Int
  BY <1>0, <1>2, SumInt
<1>4. SumFunctionOnSet(Committed', selling') \in Nat
  BY <1>1, <1>2, SumNat
<1>5. SumFunctionOnSet(Committed', selling \ {sell})
        = SumFunctionOnSet(Committed, selling) - Committed[sell]
  BY <1>0, <1>2, SumLess
<1> QED
  BY <1>1, <1>2, <1>3, <1>4, <1>5

\* Deadlines are natural numbers.
LEMMA AfterIsNat == \A i \in Timeds : TimedExits[i].after \in Nat
<1> DEFINE E == [after : Nat, sellPct : 1 .. 100]
<1>1. TimedExits \in Seq(E)
  BY ExitAssumption
<1> HIDE DEF E
<1>2. Timeds = 1 .. Len(TimedExits)
  BY <1>1, LenProperties DEF Timeds
<1>3. \A i \in Timeds : TimedExits[i] \in E
  BY <1>1, <1>2, ElementOfSeq
<1> QED
  BY <1>3 DEF E

(* Levels and exits sell between 1 and 100 percent.                         *)
LEMMA PercentsAreSmall ==
  /\ \A i \in TPs : TPLevels[i].sellPct \in 1 .. 100
  /\ \A i \in Timeds : TimedExits[i].sellPct \in 1 .. 100
<1> DEFINE L == [multiplier : Nat, sellPct : 1 .. 100]
           E == [after : Nat, sellPct : 1 .. 100]
<1>1. TPLevels \in Seq(L) /\ TimedExits \in Seq(E)
  BY ExitAssumption
<1> HIDE DEF L, E
<1>2. TPs = 1 .. Len(TPLevels) /\ Timeds = 1 .. Len(TimedExits)
  BY <1>1, LenProperties DEF TPs, Timeds
<1>3. \A i \in TPs : TPLevels[i] \in L
  BY <1>1, <1>2, ElementOfSeq
<1>4. \A i \in Timeds : TimedExits[i] \in E
  BY <1>1, <1>2, ElementOfSeq
<1> QED
  BY <1>3, <1>4 DEF L, E

(* One update of the price: nothing, a full exit, or one partial exit that is *)
(* marked.                                                                 *)
LEMMA OneExit ==
  ASSUME ExitTypes, NEW c \in FeedPrices, NEW t \in Minutes, UpdatePrice(c, t)
  PROVE  \/ NoExit /\ (remaining = 0 \/ DueTimed(t) = {})
         \/ FullExit
         \/ \E i \in DueLevels(c) : \E reason :
              LET pct == TPLevels[i].sellPct IN
              pct # 100 /\ PartialExit(reason, pct, {i}, {})
         \/ \E i \in DueTimed(t) : \E reason :
              LET pct == TimedExits[i].sellPct IN
              pct # 100 /\ PartialExit(reason, pct, {}, SameReason(i))
<1>1. EvaluateExits(c, high', t)
  BY DEF UpdatePrice
<1>2. /\ DueLevels(c) # {} => FirstDue(DueLevels(c)) \in DueLevels(c)
      /\ DueTimed(t) # {} => FirstDue(DueTimed(t)) \in DueTimed(t)
  <2>1. TPs \subseteq Nat /\ Timeds \subseteq Nat
    BY ExitAssumption DEF TPs, Timeds
  <2>2. DueLevels(c) \in SUBSET Nat /\ DueTimed(t) \in SUBSET Nat
    BY <2>1 DEF DueLevels, DueTimed
  <2> QED
    BY <2>2, FirstIsDue
<1>3. /\ \A i \in TPs : TPLevels[i].sellPct \in 1 .. 100
      /\ \A i \in Timeds : TimedExits[i].sellPct \in 1 .. 100
  BY PercentsAreSmall
<1>4. DueLevels(c) \subseteq TPs /\ DueTimed(t) \subseteq Timeds
  BY DEF DueLevels, DueTimed
<1>5. ASSUME DueLevels(c) # {},
             Exit(<<"TP", FirstDue(DueLevels(c))>>, TPLevels[FirstDue(DueLevels(c))].sellPct,
                  {FirstDue(DueLevels(c))}, {})
      PROVE  \/ FullExit
             \/ \E i \in DueLevels(c) : \E reason :
                  TPLevels[i].sellPct # 100 /\ PartialExit(reason, TPLevels[i].sellPct, {i}, {})
  <2> DEFINE i == FirstDue(DueLevels(c))
  <2>1. i \in DueLevels(c) /\ TPLevels[i].sellPct \in 1 .. 100
    BY <1>2, <1>3, <1>4, <1>5
  <2>2. TPLevels[i].sellPct = 100 => FullExit
    BY <1>5 DEF Exit, IsFullClose
  <2>3. FullExit \/ PartialExit(<<"TP", i>>, TPLevels[i].sellPct, {i}, {})
    BY <1>5 DEF Exit
  <2> HIDE DEF i
  <2>4. CASE ~FullExit
    <3>1. TPLevels[i].sellPct # 100 /\ PartialExit(<<"TP", i>>, TPLevels[i].sellPct, {i}, {})
      BY <2>2, <2>3, <2>4
    <3> QED
      BY <2>1, <3>1, Zenon
  <2> QED
    BY <2>4
<1>6. ASSUME DueTimed(t) # {},
             Exit(<<"TIMED", FirstDue(DueTimed(t))>>, TimedExits[FirstDue(DueTimed(t))].sellPct,
                  {}, SameReason(FirstDue(DueTimed(t))))
      PROVE  \/ FullExit
             \/ \E i \in DueTimed(t) : \E reason :
                  TimedExits[i].sellPct # 100 /\ PartialExit(reason, TimedExits[i].sellPct, {}, SameReason(i))
  <2> DEFINE i == FirstDue(DueTimed(t))
  <2>1. i \in DueTimed(t) /\ TimedExits[i].sellPct \in 1 .. 100
    BY <1>2, <1>3, <1>4, <1>6
  <2>2. TimedExits[i].sellPct = 100 => FullExit
    BY <1>6 DEF Exit, IsFullClose
  <2>3. FullExit \/ PartialExit(<<"TIMED", i>>, TimedExits[i].sellPct, {}, SameReason(i))
    BY <1>6 DEF Exit
  <2> HIDE DEF i
  <2>4. CASE ~FullExit
    <3>1. TimedExits[i].sellPct # 100 /\ PartialExit(<<"TIMED", i>>, TimedExits[i].sellPct, {}, SameReason(i))
      BY <2>2, <2>3, <2>4
    <3> QED
      BY <2>1, <3>1, Zenon
  <2> QED
    BY <2>4
<1> QED
  BY <1>1, <1>5, <1>6 DEF EvaluateExits

(* A partial exit moves an amount from the tracker to a sell.               *)
LEMMA PartialIsCovered ==
  ASSUME SellInv, NEW pct \in 1 .. 100, NEW reason, NEW tps, NEW timeds,
         PartialExit(reason, pct, tps, timeds), UNCHANGED <<held, warnedSold>>
  PROVE  /\ remaining' \in Nat /\ SalesCovered'
         /\ IsFiniteSet(selling') /\ \A sell \in selling' : sell.tokens \in Nat
<1> DEFINE sell == [reason |-> reason, tokens |-> remaining - Left(pct)]
<1>1. Left(pct) \in Nat /\ Left(pct) <= remaining /\ remaining \in Nat
  BY LeftIsLess DEF SellInv, ExitTypes
<1>2. sell.tokens \in Nat /\ sell.tokens = remaining - Left(pct)
  BY <1>1
<1>3. remaining' = Left(pct) /\ selling' = selling \cup {sell} /\ UNCHANGED status
  BY DEF PartialExit
<1> HIDE DEF sell
<1>4. /\ IsFiniteSet(selling') /\ \A s \in selling' : s.tokens \in Nat
      /\ SumFunctionOnSet(Committed, selling) \in Int
      /\ SumFunctionOnSet(Committed', selling') \in Int
      /\ SumFunctionOnSet(Committed', selling')
           <= SumFunctionOnSet(Committed, selling) + sell.tokens
  BY <1>2, <1>3, SaleStarts DEF SellInv
<1>5. /\ remaining + SumFunctionOnSet(Committed, selling) <= held + warnedSold
      /\ held \in Nat /\ warnedSold \in Nat
  BY DEF SellInv, SalesCovered, ExitTypes
<1>6. remaining' + SumFunctionOnSet(Committed', selling') <= held' + warnedSold'
  BY <1>1, <1>2, <1>3, <1>4, <1>5
<1> QED
  BY <1>1, <1>3, <1>4, <1>6 DEF SalesCovered

(* Every update and every end of a sell keep the sales covered.             *)
LEMMA SellStep == SellInv /\ [XNext]_exitVars => SellInv'
<1> SUFFICES ASSUME SellInv, [XNext]_exitVars PROVE SellInv'
  OBVIOUS
<1>1. ASSUME NEW c \in FeedPrices, NEW t \in Minutes, UpdatePrice(c, t) PROVE SellInv'
  <2>1. /\ status = "OPEN" /\ age' = t /\ t \in Nat
        /\ UNCHANGED <<held, warning, warnedSold>> /\ overdue' \in Nat
    BY <1>1, ExitAssumption DEF UpdatePrice, SellInv, ExitTypes, monitor
  <2>2. CASE NoExit
    <3>1. Committed' = Committed
      BY <2>2 DEF NoExit, Committed
    <3> QED
      BY <2>1, <2>2, <3>1 DEF NoExit, tracker, SellInv, ExitTypes, SalesCovered
  <2>3. CASE FullExit
    <3>1. Committed' = Committed
      BY <2>3 DEF FullExit, Committed
    <3>2. SalesCovered'
      <4>1. remaining + SumFunctionOnSet(Committed, selling) <= held + warnedSold
        BY <2>1 DEF SellInv, SalesCovered
      <4>2. SumFunctionOnSet(Committed, selling) \in Int
        BY SumInt DEF SellInv, ExitTypes, Committed
      <4> QED
        BY <2>1, <2>3, <3>1, <4>1, <4>2 DEF FullExit, SellInv, ExitTypes, SalesCovered
    <3> QED
      BY <2>1, <2>3, <3>2 DEF FullExit, SellInv, ExitTypes, Statuses
  <2>4. ASSUME NEW i \in DueLevels(c), NEW reason,
               PartialExit(reason, TPLevels[i].sellPct, {i}, {})
        PROVE  SellInv'
    <3>1. i \in TPs /\ TPLevels[i].sellPct \in 1 .. 100
      BY PercentsAreSmall DEF DueLevels
    <3>2. /\ remaining' \in Nat /\ SalesCovered'
          /\ IsFiniteSet(selling') /\ \A sell \in selling' : sell.tokens \in Nat
      BY <2>1, <2>4, <3>1, PartialIsCovered
    <3> QED
      BY <2>1, <2>4, <3>1, <3>2 DEF PartialExit, SellInv, ExitTypes
  <2>5. ASSUME NEW i \in DueTimed(t), NEW reason,
               PartialExit(reason, TimedExits[i].sellPct, {}, SameReason(i))
        PROVE  SellInv'
    <3>1. i \in Timeds /\ TimedExits[i].sellPct \in 1 .. 100
      BY PercentsAreSmall DEF DueTimed
    <3>2. /\ remaining' \in Nat /\ SalesCovered'
          /\ IsFiniteSet(selling') /\ \A sell \in selling' : sell.tokens \in Nat
      BY <2>1, <2>5, <3>1, PartialIsCovered
    <3> QED
      BY <2>1, <2>5, <3>1, <3>2 DEF PartialExit, SellInv, ExitTypes, SameReason
  <2>6. ExitTypes
    BY DEF SellInv
  <2> QED
    BY <1>1, <2>2, <2>3, <2>4, <2>5, <2>6, OneExit
<1>2. ASSUME NEW sell \in selling, NEW ok \in BOOLEAN, PartialSellEnds(sell, ok) PROVE SellInv'
  <2>1. /\ selling' = selling \ {sell}
        /\ UNCHANGED <<status, age, tpHit, timedHit, remaining, overdue, warning, warnedSold>>
        /\ held' = IF ok THEN held - Sale(sell.tokens) ELSE held
    BY <1>2 DEF PartialSellEnds, quote, tracker, monitor
  <2>2. /\ IsFiniteSet(selling') /\ \A s \in selling' : s.tokens \in Nat
        /\ SumFunctionOnSet(Committed, selling) \in Int
        /\ SumFunctionOnSet(Committed', selling') \in Nat
        /\ SumFunctionOnSet(Committed', selling')
             = SumFunctionOnSet(Committed, selling) - sell.tokens
    BY <2>1, SaleEnds DEF SellInv
  <2>3. sell.tokens \in Nat /\ held \in Nat /\ remaining \in Nat /\ warnedSold \in Nat
    BY DEF SellInv, ExitTypes
  <2>4. held' \in Nat /\ held' >= held - sell.tokens
    BY <2>1, <2>3 DEF Sale
  <2>5. SalesCovered'
    <3>1. remaining + SumFunctionOnSet(Committed, selling) <= held + warnedSold
      BY DEF SellInv, SalesCovered
    <3>2. remaining + SumFunctionOnSet(Committed', selling') <= held' + warnedSold
      BY <2>2, <2>3, <2>4, <3>1
    <3> QED
      BY <2>1, <3>2 DEF SalesCovered
  <2> QED
    BY <2>1, <2>2, <2>4, <2>5 DEF SellInv, ExitTypes
<1>3. ASSUME NEW ok \in BOOLEAN, FullSellEnds(ok) PROVE SellInv'
  <2>1. /\ UNCHANGED <<selling, age, tpHit, timedHit, remaining, overdue, held, warning,
                       warnedSold>>
        /\ status' \in Statuses
    BY <1>3 DEF FullSellEnds, quote, tracker, Statuses
  <2> QED
    BY <2>1 DEF SellInv, ExitTypes, SalesCovered, Committed
<1>4. CASE UNCHANGED exitVars
  BY <1>4 DEF exitVars, quote, tracker, monitor, SellInv, ExitTypes, SalesCovered, Committed
<1>5. CASE Panic
  BY <1>5 DEF Panic, quote, tracker, SellInv, ExitTypes, SalesCovered, Committed, Statuses
<1>6. ASSUME NEW reason \in WarnReasons, NEW pct \in WarnPcts, Warn(reason, pct) PROVE SellInv'
  <2>1. pct \in Nat /\ held \in Nat
    BY ExitAssumption DEF SellInv, ExitTypes
  <2>2. warning' \in Nat
    <3>1. held * pct \in Nat
      BY <2>1
    <3> QED
      BY <1>6, <3>1 DEF Warn
  <2> QED
    BY <1>6, <2>2 DEF Warn, quote, tracker, SellInv, ExitTypes, SalesCovered, Committed
<1>7. ASSUME NEW ok \in BOOLEAN, WarnSellEnds(ok) PROVE SellInv'
  <2>1. /\ UNCHANGED <<status, age, tpHit, timedHit, remaining, selling, overdue>>
        /\ warning' = 0
        /\ \/ held' = held - Sale(warning) /\ warnedSold' = warnedSold + Sale(warning)
           \/ UNCHANGED <<held, warnedSold>>
    BY <1>7 DEF WarnSellEnds, quote, tracker
  <2>2. held \in Nat /\ warning \in Nat /\ warnedSold \in Nat
    BY DEF SellInv, ExitTypes
  <2>3. held' \in Nat /\ warnedSold' \in Nat /\ held' + warnedSold' = held + warnedSold
    <3>1. Sale(warning) \in Nat /\ Sale(warning) <= held
      BY <2>2 DEF Sale
    <3> QED
      BY <2>1, <2>2, <3>1
  <2> QED
    BY <2>1, <2>3 DEF SellInv, ExitTypes, SalesCovered, Committed
<1> QED
  BY <1>1, <1>2, <1>3, <1>4, <1>5, <1>6, <1>7 DEF XNext, MonitorSells

\* Nothing is being sold at first.
LEMMA SellStart == XInit => SellInv
<1> SUFFICES ASSUME XInit PROVE SellInv
  OBVIOUS
<1>1. SumFunctionOnSet(Committed, selling) = 0
  BY SumEmpty DEF XInit
<1> QED
  BY <1>1, ExitAssumption, FS_EmptySet DEF XInit, SellInv, ExitTypes, SalesCovered, Statuses

(* What the tracker still wants to sell and its partial sells under way exceed *)
(* the tokens of the position by no more than warnings sold past the tracker   *)
(* (SalesCovered), for any levels, exits, prices and warnings, however the     *)
(* sells end and in which order (exits.go ApplyDecision, sniper.go             *)
(* executePartialSell and the callbacks of the monitor).                      *)
THEOREM SalesAreCovered == XSpec => []SalesCovered
<1>1. SellInv => SalesCovered
  BY DEF SellInv
<1> QED
  BY <1>1, SellStart, SellStep, PTL DEF XSpec

-----------------------------------------------------------------------------

\* Each update after the last deadline has marked a level or an exit, and the
\* level and the exit that sell everything are never marked.
DeadlineInv ==
    /\ SellInv
    /\ \A i \in tpHit : TPLevels[i].sellPct # 100
    /\ \A i \in timedHit : \E j \in Timeds : TimedExits[j].sellPct # 100 /\ i \in SameReason(j)
    /\ overdue <= Cardinality(tpHit) + Cardinality(timedHit)

\* There are as many levels and deadlines as were configured.
LEMMA LevelsFinite ==
  /\ IsFiniteSet(TPs) /\ Cardinality(TPs) = Len(TPLevels)
  /\ IsFiniteSet(Timeds) /\ Cardinality(Timeds) = Len(TimedExits)
<1>1. TPs = 1 .. Len(TPLevels) /\ Len(TPLevels) \in Nat
  BY ExitAssumption, LenProperties DEF TPs
<1>2. Timeds = 1 .. Len(TimedExits) /\ Len(TimedExits) \in Nat
  BY ExitAssumption, LenProperties DEF Timeds
<1>3. \A n \in Nat : IsFiniteSet(1 .. n) /\ Cardinality(1 .. n) = n
  BY FS_Interval
<1> QED
  BY <1>1, <1>2, <1>3

(* All but one level and one exit can be marked.                            *)
LEMMA MarksAreFew == DeadlineInv => OverdueBounded
<1> SUFFICES ASSUME DeadlineInv PROVE OverdueBounded
  OBVIOUS
<1>1. PICK p \in TPs : TPLevels[p].sellPct = 100
  BY ClosesInTheEnd
<1>2. PICK q \in Timeds : TimedExits[q].sellPct = 100 /\ SameReason(q) = {q}
  BY ClosesInTheEnd
<1>3. tpHit \subseteq TPs \ {p}
  BY <1>1 DEF DeadlineInv, SellInv, ExitTypes
<1>4. timedHit \subseteq Timeds \ {q}
  <2>1. \A j \in Timeds : q \in SameReason(j) => j \in SameReason(q)
    BY <1>2 DEF SameReason
  <2> QED
    BY <1>2, <2>1 DEF DeadlineInv, SellInv, ExitTypes
<1>5. /\ IsFiniteSet(TPs \ {p}) /\ Cardinality(TPs \ {p}) = Len(TPLevels) - 1
      /\ IsFiniteSet(Timeds \ {q}) /\ Cardinality(Timeds \ {q}) = Len(TimedExits) - 1
  BY <1>1, <1>2, LevelsFinite, FS_RemoveElement
<1>6. /\ Cardinality(tpHit) <= Len(TPLevels) - 1 /\ Cardinality(timedHit) <= Len(TimedExits) - 1
      /\ Cardinality(tpHit) \in Nat /\ Cardinality(timedHit) \in Nat
      /\ Len(TPLevels) \in Nat /\ Len(TimedExits) \in Nat
  BY <1>3, <1>4, <1>5, FS_Subset, FS_CardinalityType, ExitAssumption, LenProperties
<1>7. overdue <= Cardinality(tpHit) + Cardinality(timedHit) /\ overdue \in Nat
  BY DEF DeadlineInv, SellInv, ExitTypes
<1> QED
  BY <1>6, <1>7 DEF OverdueBounded

(* The marks after a partial exit.                                         *)
LEMMA MarksGrow ==
  ASSUME ExitTypes
  PROVE  /\ IsFiniteSet(tpHit) /\ IsFiniteSet(timedHit)
         /\ Cardinality(tpHit) \in Nat /\ Cardinality(timedHit) \in Nat
         /\ \A i \in TPs \ tpHit : Cardinality(tpHit \cup {i}) = Cardinality(tpHit) + 1
         /\ \A i \in Timeds \ timedHit : \A S \in SUBSET Timeds :
              i \in S => /\ Cardinality(timedHit \cup S) >= Cardinality(timedHit) + 1
                         /\ Cardinality(timedHit \cup S) \in Nat
<1>1. IsFiniteSet(tpHit) /\ IsFiniteSet(timedHit)
  BY LevelsFinite, FS_Subset DEF ExitTypes
<1>2. ASSUME NEW i \in Timeds \ timedHit, NEW S \in SUBSET Timeds, i \in S
      PROVE  /\ Cardinality(timedHit \cup S) >= Cardinality(timedHit) + 1
             /\ Cardinality(timedHit \cup S) \in Nat
  <2>1. timedHit \cup S \subseteq Timeds /\ timedHit \cup {i} \subseteq timedHit \cup S
    BY <1>2 DEF ExitTypes
  <2>2. IsFiniteSet(timedHit \cup S)
    BY <2>1, LevelsFinite, FS_Subset
  <2>3. Cardinality(timedHit \cup {i}) = Cardinality(timedHit) + 1
    BY <1>1, <1>2, FS_AddElement
  <2>4. Cardinality(timedHit \cup {i}) <= Cardinality(timedHit \cup S)
    BY <2>1, <2>2, FS_Subset
  <2> QED
    BY <1>1, <2>2, <2>3, <2>4, FS_CardinalityType
<1> QED
  BY <1>1, <1>2, FS_AddElement, FS_CardinalityType

(* After 24 hours every update of an open position that still has something to *)
(* sell takes an exit: the one that sells everything is due and never marked. *)
LEMMA DeadlineStep == DeadlineInv /\ [XNext]_exitVars => DeadlineInv'
<1> SUFFICES ASSUME DeadlineInv, [XNext]_exitVars PROVE DeadlineInv'
  OBVIOUS
<1>1. SellInv' /\ ExitTypes /\ SellInv
  BY SellStep DEF DeadlineInv, SellInv
<1> DEFINE Marks(tps, timeds, count) ==
             /\ \A i \in tps : TPLevels[i].sellPct # 100
             /\ \A i \in timeds : \E j \in Timeds :
                    TimedExits[j].sellPct # 100 /\ i \in SameReason(j)
             /\ count <= Cardinality(tps) + Cardinality(timeds)
<1>2. Marks(tpHit, timedHit, overdue)
  BY DEF DeadlineInv
<1>3. ASSUME Marks(tpHit', timedHit', overdue') PROVE DeadlineInv'
  BY <1>1, <1>3 DEF DeadlineInv
<1>4. CASE UNCHANGED <<tpHit, timedHit, overdue>>
  BY <1>2, <1>3, <1>4
<1>5. ASSUME NEW c \in FeedPrices, NEW t \in Minutes, UpdatePrice(c, t)
      PROVE  Marks(tpHit', timedHit', overdue')
  <2>1. /\ overdue' \in {overdue, overdue + 1} /\ overdue \in Nat /\ t \in Nat
        /\ overdue' # overdue => t >= 1440 /\ status' = "OPEN" /\ remaining > 0
    BY <1>1, <1>5, ExitAssumption DEF UpdatePrice, ExitTypes
  <2>2. CASE NoExit /\ (remaining = 0 \/ DueTimed(t) = {})
    <3>1. PICK q \in Timeds : /\ TimedExits[q].sellPct = 100 /\ TimedExits[q].after <= 1440
                              /\ SameReason(q) = {q}
      BY ClosesInTheEnd
    <3>2. q \notin timedHit
      <4>1. \A j \in Timeds : q \in SameReason(j) => j \in SameReason(q)
        BY <3>1 DEF SameReason
      <4> QED
        BY <1>2, <3>1, <4>1
    <3>3. t >= 1440 => q \in DueTimed(t)
      <4>1. TimedExits[q].after \in Nat
        BY AfterIsNat
      <4> QED
        BY <2>1, <3>1, <3>2, <4>1 DEF DueTimed
    <3>4. overdue' = overdue
      BY <2>1, <2>2, <3>3
    <3> QED
      BY <1>2, <2>2, <3>4 DEF NoExit, tracker
  <2>3. CASE FullExit
    <3>1. overdue' = overdue /\ UNCHANGED <<tpHit, timedHit>>
      BY <2>1, <2>3 DEF FullExit
    <3> QED
      BY <1>2, <3>1
  <2>4. ASSUME NEW i \in DueLevels(c), NEW reason, TPLevels[i].sellPct # 100,
               PartialExit(reason, TPLevels[i].sellPct, {i}, {})
        PROVE  Marks(tpHit', timedHit', overdue')
    <3>1. i \in TPs \ tpHit /\ tpHit' = tpHit \cup {i} /\ timedHit' = timedHit
      BY <2>4 DEF PartialExit, DueLevels
    <3>2. /\ Cardinality(tpHit') = Cardinality(tpHit) + 1
          /\ Cardinality(tpHit) \in Nat /\ Cardinality(timedHit) \in Nat
      BY <1>1, <3>1, MarksGrow
    <3>3. overdue' <= Cardinality(tpHit') + Cardinality(timedHit')
      BY <1>2, <2>1, <3>1, <3>2
    <3> QED
      BY <1>2, <2>4, <3>1, <3>3
  <2>5. ASSUME NEW i \in DueTimed(t), NEW reason, TimedExits[i].sellPct # 100,
               PartialExit(reason, TimedExits[i].sellPct, {}, SameReason(i))
        PROVE  Marks(tpHit', timedHit', overdue')
    <3>1. /\ i \in Timeds \ timedHit /\ tpHit' = tpHit /\ timedHit' = timedHit \cup SameReason(i)
          /\ SameReason(i) \subseteq Timeds /\ i \in SameReason(i)
      BY <2>5 DEF PartialExit, DueTimed, SameReason
    <3>2. /\ Cardinality(timedHit') >= Cardinality(timedHit) + 1 /\ Cardinality(timedHit') \in Nat
          /\ Cardinality(tpHit) \in Nat /\ Cardinality(timedHit) \in Nat
      BY <1>1, <3>1, MarksGrow
    <3>3. overdue' <= Cardinality(tpHit') + Cardinality(timedHit')
      BY <1>2, <2>1, <3>1, <3>2
    <3> QED
      BY <1>2, <2>5, <3>1, <3>3
  <2> HIDE DEF Marks
  <2> QED
    BY <1>1, <1>5, <2>2, <2>3, <2>4, <2>5, OneExit
<1>6. ASSUME NEW sell \in selling, NEW ok \in BOOLEAN, PartialSellEnds(sell, ok)
      PROVE  UNCHANGED <<tpHit, timedHit, overdue>>
  BY <1>6 DEF PartialSellEnds, tracker
<1>7. ASSUME NEW ok \in BOOLEAN, FullSellEnds(ok) PROVE UNCHANGED <<tpHit, timedHit, overdue>>
  BY <1>7 DEF FullSellEnds, tracker
<1>8. CASE UNCHANGED exitVars
  BY <1>4, <1>8 DEF exitVars, tracker
<1>9. CASE MonitorSells
  BY <1>4, <1>9 DEF MonitorSells, Panic, Warn, WarnSellEnds, tracker
<1> HIDE DEF Marks
<1> QED
  BY <1>3, <1>4, <1>5, <1>6, <1>7, <1>8, <1>9 DEF XNext

(* After its last deadline a position takes at most one update for each level  *)
(* and each exit that sells a part of it before the engine decides to sell all *)
(* of it (OverdueBounded): the exit that sells everything is due from then on  *)
(* and never marked as taken, whatever else fails (exits.go checkTimedExits). *)
(* Whether that sell succeeds is not said.                                    *)
THEOREM OverdueIsBounded == XSpec => []OverdueBounded
<1>1. XInit => DeadlineInv
  <2>1. XInit => /\ tpHit = {} /\ timedHit = {} /\ overdue = 0
    BY DEF XInit
  <2> QED
    BY <2>1, SellStart, FS_EmptySet DEF DeadlineInv
<1> QED
  BY <1>1, DeadlineStep, MarksAreFew, PTL DEF XSpec

-----------------------------------------------------------------------------
(* The feature engine: its circular buffers                                 *)

\* A buffer of cap entries of T.
Ring(r, cap, T) ==
    /\ cap \in Nat \ {0}
    /\ r = [buf |-> r.buf, head |-> r.head, count |-> r.count]
    /\ r.buf \in [0 .. cap - 1 -> T]
    /\ r.head \in 0 .. cap - 1 /\ r.count \in 0 .. cap

(* Going round once at most.                                               *)
LEMMA Round ==
    ASSUME NEW n \in Nat \ {0}, NEW x \in 0 .. 2 * n - 1
    PROVE  x % n = IF x < n THEN x ELSE x - n
  OBVIOUS

(* The capacity of a buffer, and where its entries are.                     *)
LEMMA RingSlots ==
    ASSUME NEW r, NEW cap, NEW T, Ring(r, cap, T)
    PROVE  /\ Cap(r) = cap
           /\ \A k \in 0 .. r.count :
                  /\ Slot(r, k) = IF r.head - r.count + k < 0 THEN r.head - r.count + k + cap
                                  ELSE r.head - r.count + k
                  /\ Slot(r, k) \in 0 .. cap - 1 /\ Entry(r, k) \in T
<1>1. DOMAIN r.buf = 0 .. cap - 1 /\ cap \in Nat \ {0}
  BY DEF Ring
<1>2. Cap(r) = cap
  <2>1. \A m, n \in Int : m <= n => Cardinality(m .. n) = n - m + 1
    BY FS_Interval
  <2>2. Cardinality(0 .. cap - 1) = cap
    BY <1>1, <2>1
  <2> QED
    BY <1>1, <2>2 DEF Cap
<1>3. ASSUME NEW k \in 0 .. r.count
      PROVE  /\ Slot(r, k) = IF r.head - r.count + k < 0 THEN r.head - r.count + k + cap
                             ELSE r.head - r.count + k
             /\ Slot(r, k) \in 0 .. cap - 1 /\ Entry(r, k) \in T
  <2> DEFINE x == r.head - r.count + k + cap
  <2>1. r.head \in 0 .. cap - 1 /\ r.count \in 0 .. cap /\ x \in 0 .. 2 * cap - 1
    BY DEF Ring
  <2>2. Slot(r, k) = x % cap
    BY <1>2 DEF Slot
  <2>3. x % cap = IF x < cap THEN x ELSE x - cap
    <3> HIDE DEF x
    <3> QED
      BY <1>1, <2>1, Round
  <2>4. Slot(r, k) \in 0 .. cap - 1
    BY <1>1, <2>1, <2>2, <2>3
  <2>5. Entry(r, k) \in T
    BY <2>4 DEF Ring, Entry
  <2>6. Slot(r, k) = IF r.head - r.count + k < 0 THEN r.head - r.count + k + cap
                     ELSE r.head - r.count + k
    <3> DEFINE h == r.head
               c == r.count
    <3>1. cap \in Nat /\ h \in Int /\ c \in Int /\ k \in Int
      BY <1>1, <2>1
    <3>2. Slot(r, k) = (IF x < cap THEN x ELSE x - cap) /\ x = h - c + k + cap
      <4>1. x = h - c + k + cap
        OBVIOUS
      <4> HIDE DEF x
      <4> QED
        BY <2>2, <2>3, <4>1
    <3> HIDE DEF h, c, x
    <3>3. Slot(r, k) = IF h - c + k < 0 THEN h - c + k + cap ELSE h - c + k
      BY <3>1, <3>2
    <3> QED
      BY <3>3 DEF h, c
  <2> QED
    BY <2>4, <2>5, <2>6
<1> QED
  BY <1>2, <1>3

(* Eviction drops the oldest entries and moves nothing.                     *)
LEMMA RingDrops ==
    ASSUME NEW r, NEW cap, NEW T, Ring(r, cap, T), NEW n \in 0 .. r.count, NEW d,
           d = [r EXCEPT !.count = @ - n]
    PROVE  /\ Ring(d, cap, T) /\ d.count = r.count - n
           /\ \A k \in 0 .. d.count : Entry(d, k) = Entry(r, k + n)
<1>1. /\ d.buf = r.buf /\ d.head = r.head /\ d.count = r.count - n
      /\ d = [buf |-> d.buf, head |-> d.head, count |-> d.count]
  BY DEF Ring
<1>2. Ring(d, cap, T)
  BY <1>1 DEF Ring
<1>3. \A k \in 0 .. d.count : Entry(d, k) = Entry(r, k + n)
  <2> TAKE k \in 0 .. d.count
  <2>1. /\ Cap(r) = cap /\ Cap(d) = cap /\ cap \in Nat /\ r.head \in Nat /\ r.count \in Nat
    <3>1. Cap(r) = cap
      BY RingSlots
    <3>2. Cap(d) = cap
      BY <1>2, RingSlots
    <3> QED
      BY <3>1, <3>2 DEF Ring
  <2>2. d.head - d.count + k + cap = r.head - r.count + (k + n) + cap
    BY <1>1, <2>1
  <2>3. Slot(d, k) = Slot(r, k + n)
    BY <2>1, <2>2 DEF Slot
  <2> QED
    BY <1>1, <2>3 DEF Entry
<1> QED
  BY <1>1, <1>2, <1>3

(* A write becomes the youngest entry; in a full buffer the oldest is gone.   *)
LEMMA RingPushes ==
    ASSUME NEW r, NEW cap, NEW T, Ring(r, cap, T), NEW e \in T, NEW p, p = Push(r, e)
    PROVE  /\ Ring(p, cap, T)
           /\ p.count = (IF r.count = cap THEN cap ELSE r.count + 1) /\ p.count > 0
           /\ Entry(p, p.count - 1) = e
           /\ \A k \in 0 .. p.count - 2 :
                  Entry(p, k) = IF r.count = cap THEN Entry(r, k + 1) ELSE Entry(r, k)
<1>1. Cap(r) = cap /\ cap \in Nat \ {0} /\ r.head \in 0 .. cap - 1 /\ r.count \in 0 .. cap
  BY RingSlots DEF Ring
<1>2. /\ p.buf = [r.buf EXCEPT ![r.head] = e] /\ p.head = (r.head + 1) % cap
      /\ p.count = IF r.count = cap THEN cap ELSE r.count + 1
      /\ p = [buf |-> p.buf, head |-> p.head, count |-> p.count]
  BY <1>1 DEF Push, Full
<1>3. p.head = IF r.head + 1 = cap THEN 0 ELSE r.head + 1
  <2>1. r.head + 1 \in 0 .. 2 * cap - 1
    BY <1>1
  <2>2. (r.head + 1) % cap = IF r.head + 1 < cap THEN r.head + 1 ELSE (r.head + 1) - cap
    BY <1>1, <2>1, Round
  <2> QED
    BY <1>1, <1>2, <2>2
<1>4. Ring(p, cap, T)
  BY <1>1, <1>2, <1>3 DEF Ring
<1>5. \A k \in 0 .. p.count - 1 : p.buf[Slot(p, k)] = Entry(p, k)
  BY DEF Entry
<1>6. /\ \A k \in 0 .. p.count : Slot(p, k) = IF p.head - p.count + k < 0 THEN p.head - p.count + k + cap
                                              ELSE p.head - p.count + k
      /\ \A k \in 0 .. r.count :
             /\ Slot(r, k) = IF r.head - r.count + k < 0 THEN r.head - r.count + k + cap
                             ELSE r.head - r.count + k
             /\ Slot(r, k) \in 0 .. cap - 1
  BY <1>4, RingSlots
<1>7. Slot(p, p.count - 1) = r.head
  <2> DEFINE h == r.head
             c == r.count
             g == p.head
             b == p.count
  <2>1. /\ cap \in Nat \ {0} /\ h \in 0 .. cap - 1 /\ c \in 0 .. cap
        /\ g = IF h + 1 = cap THEN 0 ELSE h + 1
        /\ b = IF c = cap THEN cap ELSE c + 1
    BY <1>1, <1>2, <1>3
  <2>2. b - 1 \in 0 .. b
    BY <2>1
  <2>3. Slot(p, b - 1) = IF g - b + (b - 1) < 0 THEN g - b + (b - 1) + cap ELSE g - b + (b - 1)
    BY <1>6, <2>2
  <2> HIDE DEF h, c, g, b
  <2>4. Slot(p, b - 1) = h
    BY <2>1, <2>3
  <2> QED
    BY <2>4 DEF h, b
<1>8. Entry(p, p.count - 1) = e
  BY <1>1, <1>2, <1>7 DEF Entry, Ring
<1>9. ASSUME NEW k \in 0 .. p.count - 2
      PROVE  Entry(p, k) = IF r.count = cap THEN Entry(r, k + 1) ELSE Entry(r, k)
  <2> DEFINE j == IF r.count = cap THEN k + 1 ELSE k
  <2>1. j \in 0 .. r.count - 1 /\ k \in 0 .. p.count
    BY <1>1, <1>2
  <2>2. Slot(p, k) = Slot(r, j) /\ Slot(r, j) # r.head /\ Slot(r, j) \in 0 .. cap - 1
    <3>1. Slot(p, k) = IF p.head - p.count + k < 0 THEN p.head - p.count + k + cap
                       ELSE p.head - p.count + k
      BY <1>6, <2>1
    <3>2. /\ Slot(r, j) = IF r.head - r.count + j < 0 THEN r.head - r.count + j + cap
                          ELSE r.head - r.count + j
          /\ Slot(r, j) \in 0 .. cap - 1
      BY <1>1, <1>6, <2>1
    <3> DEFINE h == r.head
               c == r.count
               g == p.head
               b == p.count
    <3>3. /\ cap \in Nat \ {0} /\ h \in 0 .. cap - 1 /\ c \in 0 .. cap
          /\ g = IF h + 1 = cap THEN 0 ELSE h + 1
          /\ b = IF c = cap THEN cap ELSE c + 1
          /\ k \in 0 .. b - 2 /\ j = IF c = cap THEN k + 1 ELSE k
      BY <1>1, <1>2, <1>3
    <3>4. /\ Slot(p, k) = IF g - b + k < 0 THEN g - b + k + cap ELSE g - b + k
          /\ Slot(r, j) = IF h - c + j < 0 THEN h - c + j + cap ELSE h - c + j
      BY <3>1, <3>2
    <3> HIDE DEF h, c, g, b, j
    <3>5. Slot(p, k) = Slot(r, j) /\ Slot(r, j) # h
      BY <3>3, <3>4
    <3> QED
      BY <3>2, <3>5 DEF h
  <2>3. Entry(p, k) = Entry(r, j)
    BY <1>1, <1>2, <2>2 DEF Entry, Ring
  <2> QED
    BY <2>3
<1> QED
  BY <1>1, <1>2, <1>4, <1>8, <1>9

\* The entries of a buffer are the most recent part of s.
Recent(r, s) ==
    /\ r.count <= Len(s)
    /\ \A k \in 0 .. r.count - 1 : Entry(r, k) = s[Len(s) - r.count + k + 1]

(* Said of the sequences themselves.                                        *)
LEMMA RecentEntries ==
    ASSUME NEW r, NEW cap, NEW T, Ring(r, cap, T), NEW s \in Seq(T), Recent(r, s)
    PROVE  Entries(r) = Suffix(s, r.count)
<1> DEFINE n == r.count
           l == Len(s)
<1>1. n \in Nat /\ l \in Nat /\ n <= l
  BY DEF Ring, Recent
<1>2. SubSeq(s, l - n + 1, l) = [i \in 1 .. n |-> s[i + l - n]]
  <2>1. /\ SubSeq(s, l - n + 1, l) = [i \in 1 .. (1 + l - (l - n + 1)) |-> s[i + (l - n + 1) - 1]]
    BY <1>1, SMTT(30)
  <2>2. 1 + l - (l - n + 1) = n /\ \A i \in 1 .. n : i + (l - n + 1) - 1 = i + l - n
    BY <1>1
  <2> QED
    BY <2>1, <2>2
<1>3. \A i \in 1 .. n : Entry(r, i - 1) = s[i + l - n]
  <2> TAKE i \in 1 .. n
  <2>1. i - 1 \in 0 .. n - 1 /\ l - n + (i - 1) + 1 = i + l - n
    BY <1>1
  <2>2. \A k \in 0 .. n - 1 : Entry(r, k) = s[l - n + k + 1]
    BY DEF Recent
  <2> HIDE DEF n, l
  <2>3. Entry(r, i - 1) = s[l - n + (i - 1) + 1]
    BY <2>1, <2>2
  <2> QED
    BY <2>1, <2>3
<1> QED
  BY <1>2, <1>3 DEF Entries, Suffix

(* Nothing in an empty buffer.                                              *)
LEMMA RecentEmpty ==
    ASSUME NEW cap \in Nat \ {0}, NEW T, NEW x \in T, NEW S
    PROVE  /\ Ring(Empty(cap, x), cap, T) /\ Empty(cap, x).count = 0
           /\ Recent(Empty(cap, x), <<>>)
  BY DEF Empty, Ring, Recent

(* What is written is the most recent, and what is dropped is not.           *)
LEMMA RecentPush ==
    ASSUME NEW r, NEW cap, NEW T, Ring(r, cap, T), NEW s \in Seq(T), Recent(r, s),
           NEW e \in T, NEW p, p = Push(r, e)
    PROVE  Recent(p, Append(s, e))
<1> DEFINE z == Append(s, e)
           l == Len(s)
           c == r.count
           b == p.count
<1>1. /\ Len(z) = l + 1 /\ z[l + 1] = e /\ \A i \in 1 .. l : z[i] = s[i]
      /\ l \in Nat
  OBVIOUS
<1>2. /\ b = (IF c = cap THEN cap ELSE c + 1)
      /\ Entry(p, b - 1) = e
      /\ \A k \in 0 .. b - 2 : Entry(p, k) = IF c = cap THEN Entry(r, k + 1) ELSE Entry(r, k)
  BY RingPushes
<1>3. cap \in Nat \ {0} /\ c \in 0 .. cap /\ c <= l
  BY DEF Ring, Recent
<1>4. \A k \in 0 .. c - 1 : Entry(r, k) = s[l - c + k + 1]
  BY DEF Recent
<1>5. Recent(p, z) <=> /\ b <= Len(z)
                       /\ \A k \in 0 .. b - 1 : Entry(p, k) = z[Len(z) - b + k + 1]
  BY DEF Recent
<1> HIDE DEF z, l, c, b
<1>6. ASSUME NEW k \in 0 .. b - 1 PROVE Entry(p, k) = z[l + 1 - b + k + 1]
  <2>1. CASE k = b - 1
    <3>1. l + 1 - b + k + 1 = l + 1
      BY <1>1, <1>2, <1>3, <2>1
    <3> QED
      BY <1>1, <1>2, <2>1, <3>1
  <2>2. CASE k # b - 1 /\ c = cap
    <3>1. /\ k \in 0 .. b - 2 /\ k + 1 \in 0 .. c - 1 /\ l + 1 - b + k + 1 = l - c + (k + 1) + 1
          /\ l - c + (k + 1) + 1 \in 1 .. l
      BY <1>1, <1>2, <1>3, <2>2
    <3>2. Entry(p, k) = s[l - c + (k + 1) + 1]
      BY <1>2, <1>4, <2>2, <3>1
    <3> QED
      BY <1>1, <3>1, <3>2
  <2>3. CASE k # b - 1 /\ c # cap
    <3>1. /\ k \in 0 .. b - 2 /\ k \in 0 .. c - 1 /\ l + 1 - b + k + 1 = l - c + k + 1
          /\ l - c + k + 1 \in 1 .. l
      BY <1>1, <1>2, <1>3, <2>3
    <3>2. Entry(p, k) = s[l - c + k + 1]
      BY <1>2, <1>4, <2>3, <3>1
    <3> QED
      BY <1>1, <3>1, <3>2
  <2> QED
    BY <2>1, <2>2, <2>3
<1>7. b <= l + 1
  BY <1>1, <1>2, <1>3
<1>8. Recent(p, z)
  <2> DEFINE m == Len(z)
  <2>2. m = l + 1
    BY <1>1
  <2> HIDE DEF m
  <2>3. b <= m /\ \A k \in 0 .. b - 1 : Entry(p, k) = z[m - b + k + 1]
    <3>1. \A k \in 0 .. b - 1 : l + 1 - b + k + 1 = m - b + k + 1
      BY <1>1, <1>2, <1>3, <2>2
    <3> QED
      BY <1>6, <1>7, <2>2, <3>1
  <2>1. b <= Len(z) /\ \A k \in 0 .. b - 1 : Entry(p, k) = z[Len(z) - b + k + 1]
    BY <2>3 DEF m
  <2> QED
    BY <1>5, <2>1
<1> QED
  BY <1>8 DEF z

(* Dropping the oldest leaves the most recent.                              *)
LEMMA RecentDrop ==
    ASSUME NEW r, NEW cap, NEW T, Ring(r, cap, T), NEW s \in Seq(T), Recent(r, s),
           NEW n \in 0 .. r.count, NEW d, d = [r EXCEPT !.count = @ - n]
    PROVE  Recent(d, s)
<1> DEFINE l == Len(s)
           c == r.count
           b == d.count
<1>1. b = c - n /\ \A k \in 0 .. b : Entry(d, k) = Entry(r, k + n)
  BY RingDrops
<1>2. c \in Nat /\ l \in Nat /\ c <= l
  BY DEF Ring, Recent
<1>3. \A k \in 0 .. c - 1 : Entry(r, k) = s[l - c + k + 1]
  BY DEF Recent
<1>4. Recent(d, s) <=> b <= l /\ \A k \in 0 .. b - 1 : Entry(d, k) = s[l - b + k + 1]
  BY DEF Recent
<1>5. n \in 0 .. c
  OBVIOUS
<1> HIDE DEF l, c, b
<1>6. ASSUME NEW k \in 0 .. b - 1 PROVE Entry(d, k) = s[l - b + k + 1]
  <2>1. k + n \in 0 .. c - 1 /\ l - c + (k + n) + 1 = l - b + k + 1 /\ k \in 0 .. b
    BY <1>1, <1>2, <1>5
  <2> QED
    BY <1>1, <1>3, <2>1
<1>7. b <= l
  BY <1>1, <1>2, <1>5
<1> QED
  BY <1>4, <1>6, <1>7

-----------------------------------------------------------------------------
(* The feature engine: its running sums                                    *)

\* What may be fed, and the parts of the sums.
Sides == {t.side : t \in Trades} \cup {"none"}
Fed == [price : Nat, qty : Nat, side : Sides, ts : Nat]
Parts == {"PQ", "Q", "buy", "sell"}

(* No entry takes anything from a sum.                                      *)
LEMMA AmountIsNat ==
    \A part \in Parts : \A e \in Fed : Amount(part, e) \in Nat
<1> SUFFICES ASSUME NEW part \in Parts, NEW e \in Fed PROVE Amount(part, e) \in Nat
  OBVIOUS
<1>1. e.price \in Nat /\ e.qty \in Nat /\ e.price * e.qty \in Nat
  BY DEF Fed
<1> QED
  BY <1>1 DEF Amount, Parts

(* The sum over the oldest entries is a natural number.                     *)
LEMMA OldestIsNat ==
    ASSUME NEW r, NEW cap, Ring(r, cap, Fed), NEW part \in Parts, NEW n \in 0 .. r.count
    PROVE  SumOldest(r, n, part) \in Nat
<1> DEFINE f == [k \in 0 .. n - 1 |-> Amount(part, Entry(r, k))]
<1>1. \A k \in 0 .. n - 1 : f[k] \in Nat
  <2>1. \A k \in 0 .. n - 1 : Entry(r, k) \in Fed
    <3>1. \A k \in 0 .. r.count : Entry(r, k) \in Fed
      BY RingSlots
    <3>2. r.count \in Nat
      BY DEF Ring
    <3> QED
      BY <3>1, <3>2
  <2> QED
    BY <2>1, AmountIsNat
<1>2. IsFiniteSet(0 .. n - 1)
  <2>1. r.count \in Nat
    BY DEF Ring
  <2> QED
    BY <2>1, FS_Interval
<1> HIDE DEF f
<1>3. SumFunctionOnSet(f, 0 .. n - 1) \in Nat
  BY <1>1, <1>2, SumNat
<1> QED
  BY <1>3 DEF SumOldest, f

(* What eviction takes from a running sum is what it drops.                 *)
LEMMA OldestDropped ==
    ASSUME NEW r, NEW cap, Ring(r, cap, Fed), NEW part \in Parts, NEW n \in 0 .. r.count,
           NEW d, d = [r EXCEPT !.count = @ - n]
    PROVE  SumOldest(d, d.count, part) = SumOldest(r, r.count, part) - SumOldest(r, n, part)
<1> DEFINE N == r.count
           f == [k \in 0 .. N - 1 |-> Amount(part, Entry(r, k))]
           h == [k \in 0 .. n - 1 |-> Amount(part, Entry(r, k))]
           g == [k \in 0 .. N - n - 1 |-> Amount(part, Entry(d, k))]
<1>1. N \in Nat /\ d.count = N - n /\ \A k \in 0 .. d.count : Entry(d, k) = Entry(r, k + n)
  <2>1. N \in Nat
    BY DEF Ring
  <2> QED
    BY <2>1, RingDrops
<1>2. \A k \in 0 .. N - 1 : f[k] \in Int
  <2>1. \A k \in 0 .. N : Entry(r, k) \in Fed
    BY RingSlots
  <2> QED
    BY <1>1, <2>1, AmountIsNat
<1>3. \A k \in 0 .. N - n - 1 : g[k] = f[k + n]
  <2> TAKE k \in 0 .. N - n - 1
  <2>1. k \in 0 .. d.count /\ k + n \in 0 .. N - 1
    BY <1>1
  <2> QED
    BY <1>1, <2>1
<1>4. \A k \in 0 .. n - 1 : h[k] = f[k]
  BY <1>1
<1>5. /\ SumOldest(r, r.count, part) = SumFunctionOnSet(f, 0 .. N - 1)
      /\ SumOldest(r, n, part) = SumFunctionOnSet(h, 0 .. n - 1)
      /\ SumOldest(d, d.count, part) = SumFunctionOnSet(g, 0 .. N - n - 1)
  BY <1>1 DEF SumOldest
<1>6. n \in 0 .. N
  OBVIOUS
<1> HIDE DEF N, f, g, h
<1>7. SumFunctionOnSet(h, 0 .. n - 1) = SumFunctionOnSet(f, 0 .. n - 1)
  <2>1. IsFiniteSet(0 .. n - 1)
    BY <1>1, <1>6, FS_Interval
  <2> QED
    BY <1>4, <2>1, SumEqual
<1> DEFINE y == N - n
<1>8. N \in Nat /\ y = N - n /\ \A k \in 0 .. y - 1 : g[k] = f[k + n]
  BY <1>1, <1>3
<1>9. /\ SumOldest(r, r.count, part) = SumFirst(f, N)
      /\ SumOldest(r, n, part) = SumFirst(f, n)
      /\ SumOldest(d, d.count, part) = SumFirst(g, y)
  BY <1>5, <1>7 DEF SumFirst
<1> HIDE DEF y
<1>10. /\ SumFirst(f, N) = SumFirst(f, n) + SumFirst(g, y)
       /\ SumFirst(f, n) \in Int /\ SumFirst(g, y) \in Int
  BY <1>2, <1>6, <1>8, SumFirstSplit
<1> QED
  BY <1>9, <1>10

(* What a write changes in a running sum: the new entry comes, and in a full  *)
(* buffer the oldest goes.                                                  *)
LEMMA OldestPushed ==
    ASSUME NEW r, NEW cap, Ring(r, cap, Fed), NEW part \in Parts, NEW e \in Fed,
           NEW p, p = Push(r, e)
    PROVE  SumOldest(p, p.count, part)
               = SumOldest(r, r.count, part)
                 - (IF r.count = cap THEN Amount(part, Entry(r, 0)) ELSE 0) + Amount(part, e)
<1> DEFINE N == r.count
           x == IF N = cap THEN 1 ELSE 0
           M == p.count - 1
           f == [k \in 0 .. N - 1 |-> Amount(part, Entry(r, k))]
           h == [k \in 0 .. x - 1 |-> Amount(part, Entry(r, k))]
           g == [k \in 0 .. M |-> Amount(part, Entry(p, k))]
<1>1. /\ N \in 0 .. cap /\ cap \in Nat \ {0}
      /\ p.count = IF N = cap THEN cap ELSE N + 1
      /\ Entry(p, p.count - 1) = e
      /\ \A k \in 0 .. p.count - 2 : Entry(p, k) = IF N = cap THEN Entry(r, k + 1) ELSE Entry(r, k)
  <2>1. N \in 0 .. cap /\ cap \in Nat \ {0}
    BY DEF Ring
  <2> QED
    BY <2>1, RingPushes
<1>2. M \in Nat /\ M = N - x /\ x \in 0 .. N
  BY <1>1
<1>3. \A k \in 0 .. N : Entry(r, k) \in Fed
  BY RingSlots
<1>4. \A k \in 0 .. N - 1 : f[k] \in Int
  BY <1>1, <1>3, AmountIsNat
<1>5. \A k \in 0 .. N - x - 1 : g[k] = f[k + x]
  <2> TAKE k \in 0 .. N - x - 1
  <2>1. k \in 0 .. p.count - 2 /\ k \in 0 .. M /\ k + x \in 0 .. N - 1
    BY <1>1, <1>2
  <2>2. Entry(p, k) = Entry(r, k + x)
    BY <1>1, <2>1
  <2> QED
    BY <2>1, <2>2
<1>6. g[M] = Amount(part, e) /\ Amount(part, e) \in Int
  BY <1>1, <1>2, AmountIsNat
<1>7. \A k \in 0 .. M - 1 : g[k] \in Int
  <2> TAKE k \in 0 .. M - 1
  <2>1. k \in 0 .. N - x - 1 /\ k + x \in 0 .. N - 1
    <3> HIDE DEF N, x, M
    <3> QED
      BY <1>1, <1>2
  <2>2. g[k] = f[k + x]
    BY <1>5, <2>1
  <2> QED
    BY <1>4, <2>1, <2>2
<1>8. /\ SumOldest(r, r.count, part) = SumFunctionOnSet(f, 0 .. N - 1)
      /\ SumOldest(p, p.count, part) = SumFunctionOnSet(g, 0 .. M)
  BY <1>1, <1>2 DEF SumOldest
<1>9. SumFunctionOnSet(f, 0 .. x - 1) = IF N = cap THEN Amount(part, Entry(r, 0)) ELSE 0
  <2>1. CASE N # cap
    <3>1. 0 .. x - 1 = {}
      BY <2>1
    <3> QED
      BY <2>1, <3>1, SumEmpty
  <2>2. CASE N = cap
    <3>1. 0 .. x - 1 = {} \cup {0} /\ 0 \in 0 .. N - 1
      BY <1>1, <2>2
    <3>2. f[0] = Amount(part, Entry(r, 0)) /\ f[0] \in Int
      BY <1>4, <3>1
    <3> HIDE DEF f, x
    <3>3. SumFunctionOnSet(f, {} \cup {0}) = f[0] + SumFunctionOnSet(f, {})
      BY <3>2, SumAdd, FS_EmptySet
    <3>4. SumFunctionOnSet(f, {}) = 0
      BY SumEmpty
    <3>5. SumFunctionOnSet(f, 0 .. x - 1) = SumFunctionOnSet(f, {} \cup {0})
      BY <3>1, Zenon
    <3>6. SumFunctionOnSet(f, {} \cup {0}) = f[0]
      BY <3>2, <3>3, <3>4
    <3> QED
      BY <2>2, <3>2, <3>5, <3>6, Zenon
  <2> QED
    BY <2>1, <2>2
<1>10. \A m, k \in Int : IsFiniteSet(m .. k)
  BY FS_Interval
<1> HIDE DEF N, M, x, f, g
<1>11. /\ SumFirst(f, N) = SumFirst(f, x) + SumFirst(g, M)
       /\ SumFirst(f, x) \in Int /\ SumFirst(g, M) \in Int
  <2>1. N \in Nat /\ M = N - x
    BY <1>1, <1>2
  <2>2. \A k \in 0 .. M - 1 : g[k] = f[k + x]
    BY <1>2, <1>5
  <2> QED
    BY <1>2, <1>4, <2>1, <2>2, SumFirstSplit
<1>12. SumFunctionOnSet(g, 0 .. M) = g[M] + SumFunctionOnSet(g, 0 .. M - 1)
  <2> DEFINE S == 0 .. M - 1
  <2>1. /\ 0 .. M = S \cup {M} /\ M \notin S /\ IsFiniteSet(S) /\ \A y \in S \cup {M} : g[y] \in Int
    BY <1>2, <1>6, <1>7, <1>10
  <2> HIDE DEF S
  <2>2. SumFunctionOnSet(g, S \cup {M}) = g[M] + SumFunctionOnSet(g, S)
    BY <2>1, SumAdd
  <2> QED
    BY <2>1, <2>2 DEF S
<1> DEFINE a == SumFirst(f, x)
           b == SumFirst(g, M)
           c == IF r.count = cap THEN Amount(part, Entry(r, 0)) ELSE 0
           u == Amount(part, e)
<1>14. /\ a \in Int /\ b \in Int /\ u \in Int /\ a = c
       /\ SumOldest(r, r.count, part) = a + b /\ SumOldest(p, p.count, part) = u + b
  BY <1>6, <1>8, <1>9, <1>11, <1>12 DEF N, SumFirst
<1> HIDE DEF a, b, c, u
<1>15. SumOldest(p, p.count, part) = SumOldest(r, r.count, part) - c + u
  BY <1>14
<1> QED
  BY <1>15 DEF c, u

(* Eviction stops at an entry of the buffer.                                *)
LEMMA ExpiredBounded ==
    ASSUME NEW r, NEW cap, NEW T, Ring(r, cap, T), NEW cutoff
    PROVE  Expired(r, cutoff) \in 0 .. r.count
<1> DEFINE S == {k \in 0 .. r.count : k = r.count \/ Entry(r, k).ts >= cutoff}
<1>1. S \in SUBSET Nat /\ r.count \in S /\ S \subseteq 0 .. r.count
  BY DEF Ring
<1>2. Expired(r, cutoff) = Min(S)
  BY DEF Expired
<1> HIDE DEF S
<1>3. \E k \in S : \A j \in S : k <= j
  BY <1>1, LeastNumber
<1>4. Min(S) \in S
  BY <1>3 DEF Min
<1> QED
  BY <1>1, <1>2, <1>4

(* A running sum stays the sum over the buffer.                             *)
LEMMA RunningSum ==
    ASSUME NEW r, NEW cap, Ring(r, cap, Fed), NEW part \in Parts, NEW t \in Fed, NEW cutoff,
           NEW p, p = Push(DropExpired(r, cutoff), t)
    PROVE  SumAfter(r, SumOldest(r, r.count, part), cutoff, t, part) = SumOldest(p, p.count, part)
<1> DEFINE n == Expired(r, cutoff)
           d == DropExpired(r, cutoff)
           a == SumOldest(r, r.count, part)
           b == SumOldest(r, n, part)
           c == SumOldest(d, d.count, part)
           g == IF d.count = cap THEN Amount(part, Entry(d, 0)) ELSE 0
           u == Amount(part, t)
<1>1. n \in 0 .. r.count /\ d = [r EXCEPT !.count = @ - n]
  BY ExpiredBounded DEF DropExpired
<1>2. Ring(d, cap, Fed) /\ Cap(d) = cap
  <2>1. Ring(d, cap, Fed)
    BY <1>1, RingDrops
  <2> QED
    BY <2>1, RingSlots
<1>3. c = a - b
  BY <1>1, OldestDropped
<1>4. a \in Nat /\ b \in Nat /\ c \in Nat
  <2>1. r.count \in 0 .. r.count /\ d.count \in 0 .. d.count
    BY <1>2 DEF Ring
  <2>2. a \in Nat
    BY <2>1, OldestIsNat
  <2>3. b \in Nat
    BY <1>1, OldestIsNat
  <2>4. c \in Nat
    BY <1>2, <2>1, OldestIsNat
  <2> QED
    BY <2>2, <2>3, <2>4
<1>5. SumOldest(p, p.count, part) = c - g + u
  <2> HIDE DEF d
  <2>1. p = Push(d, t)
    BY DEF d
  <2> QED
    BY <1>2, <2>1, OldestPushed
<1>6. SumAfter(r, a, cutoff, t, part) = AtLeastZero(a - b) - g + u
  BY <1>2 DEF SumAfter, Full
<1> HIDE DEF a, b, c, g, u
<1>7. AtLeastZero(a - b) = c
  BY <1>3, <1>4 DEF AtLeastZero
<1>8. SumAfter(r, a, cutoff, t, part) = SumOldest(p, p.count, part)
  BY <1>5, <1>6, <1>7
<1> QED
  BY <1>8 DEF a

-----------------------------------------------------------------------------
Samples == [price : Nat, ts : Nat]

\* Each buffer is one, holds what was fed last, and its sums are those of its
\* entries.
FeaturesInv ==
    /\ newest \in Nat /\ newest >= MaxLate
    /\ fed \in [trades : Seq(Fed), sided : Seq(Fed), prices : Seq(Nat), events : Nat]
    /\ Ring(vwap.ring, VwapCap, Fed) /\ Recent(vwap.ring, fed.trades)
    /\ Ring(imb.ring, ImbCap, Fed) /\ Recent(imb.ring, fed.sided)
    /\ Ring(vol, VolCap, Nat) /\ Recent(vol, fed.prices)
    /\ vol.count = IF VolCap < Len(fed.prices) THEN VolCap ELSE Len(fed.prices)
    /\ mom = [ring |-> mom.ring, lastSamp |-> mom.lastSamp]
    /\ Ring(mom.ring, Lookback, Samples)
    /\ mom.lastSamp # Never => mom.ring.count > 0
    /\ fed.prices # <<>> =>
          /\ mom.ring.count > 0
          /\ Entry(mom.ring, mom.ring.count - 1).price = fed.prices[Len(fed.prices)]
    /\ SumsMatchEntries

(* It is what FeaturesExact says.                                           *)
LEMMA InvIsExact == FeaturesInv => FeaturesExact
<1> SUFFICES ASSUME FeaturesInv PROVE FeaturesExact
  OBVIOUS
<1>1. fed.trades \in Seq(Fed) /\ fed.sided \in Seq(Fed) /\ fed.prices \in Seq(Nat)
  BY DEF FeaturesInv
<1>2. Entries(vwap.ring) = Suffix(fed.trades, vwap.ring.count)
  BY <1>1, RecentEntries DEF FeaturesInv
<1>3. Entries(imb.ring) = Suffix(fed.sided, imb.ring.count)
  BY <1>1, RecentEntries DEF FeaturesInv
<1>4. Entries(vol) = Suffix(fed.prices, Min({VolCap, Len(fed.prices)}))
  <2> DEFINE l == Len(fed.prices)
  <2>1. l \in Nat /\ VolCap \in Nat
    BY <1>1, FeaturesAssumption
  <2>2. vol.count = IF VolCap < l THEN VolCap ELSE l
    BY DEF FeaturesInv
  <2>3. Entries(vol) = Suffix(fed.prices, vol.count)
    BY <1>1, RecentEntries DEF FeaturesInv
  <2> HIDE DEF l
  <2>4. Min({VolCap, l}) = IF VolCap < l THEN VolCap ELSE l
    BY <2>1 DEF Min
  <2>5. Entries(vol) = Suffix(fed.prices, Min({VolCap, l}))
    BY <2>2, <2>3, <2>4
  <2> QED
    BY <2>5 DEF l
<1>5. fed.prices # <<>> => Entry(mom.ring, mom.ring.count - 1).price = Last(fed.prices)
  BY DEF FeaturesInv, Last
<1> QED
  BY <1>2, <1>3, <1>4, <1>5 DEF FeaturesExact, WindowsAreRecent, FeaturesInv

\* Without a trade.
NoTradeYet ==
    /\ vwap = [ring |-> Empty(VwapCap, NoTrade), sumPQ |-> 0, sumQ |-> 0]
    /\ imb = [ring |-> Empty(ImbCap, NoTrade), buyVol |-> 0, selVol |-> 0]
    /\ vol = Empty(VolCap, 0)
    /\ mom = [ring |-> Empty(Lookback, [price |-> 0, ts |-> 0]), lastSamp |-> Never]
    /\ newest = MaxLate /\ fed = NothingFed

(* A symbol starts, and starts again, with empty buffers.                   *)
LEMMA EmptyBuffers == NoTradeYet => FeaturesInv
<1> SUFFICES ASSUME NoTradeYet PROVE FeaturesInv
  OBVIOUS
<1>1. /\ VwapCap \in Nat \ {0} /\ ImbCap \in Nat \ {0} /\ VolCap \in Nat \ {0} /\ Lookback \in Nat \ {0}
      /\ MaxLate \in Nat
  BY FeaturesAssumption
<1>2. NoTrade \in Fed /\ [price |-> 0, ts |-> 0] \in Samples /\ 0 \in Nat
  BY DEF NoTrade, Fed, Sides, Samples
<1>3. /\ fed.trades = <<>> /\ fed.sided = <<>> /\ fed.prices = <<>>
      /\ fed \in [trades : Seq(Fed), sided : Seq(Fed), prices : Seq(Nat), events : Nat]
  BY DEF NoTradeYet, NothingFed
<1>4. Ring(vwap.ring, VwapCap, Fed) /\ vwap.ring.count = 0 /\ Recent(vwap.ring, <<>>)
  BY <1>1, <1>2, RecentEmpty DEF NoTradeYet
<1>5. Ring(imb.ring, ImbCap, Fed) /\ imb.ring.count = 0 /\ Recent(imb.ring, <<>>)
  BY <1>1, <1>2, RecentEmpty DEF NoTradeYet
<1>6. Ring(vol, VolCap, Nat) /\ vol.count = 0 /\ Recent(vol, <<>>)
  BY <1>1, <1>2, RecentEmpty DEF NoTradeYet
<1>7. Ring(mom.ring, Lookback, Samples) /\ mom.lastSamp = Never
      /\ mom = [ring |-> mom.ring, lastSamp |-> mom.lastSamp]
  BY <1>1, <1>2, RecentEmpty DEF NoTradeYet
<1>8. \A r, part : SumOldest(r, 0, part) = 0
  <2>1. 0 .. 0 - 1 = {}
    OBVIOUS
  <2> QED
    BY <2>1, SumEmpty DEF SumOldest
<1>9. SumsMatchEntries
  BY <1>4, <1>5, <1>8 DEF SumsMatchEntries, NoTradeYet
<1>10. newest \in Nat /\ newest >= MaxLate
  BY <1>1 DEF NoTradeYet
<1>11. vol.count = IF VolCap < Len(fed.prices) THEN VolCap ELSE Len(fed.prices)
  BY <1>1, <1>3, <1>6
<1> QED
  BY <1>3, <1>4, <1>5, <1>6, <1>7, <1>9, <1>10, <1>11 DEF FeaturesInv

(* A trade enters a buffer of trades: after evictions, it is the most recent. *)
LEMMA TradeEnters ==
    ASSUME NEW r, NEW cap, Ring(r, cap, Fed), NEW s \in Seq(Fed), Recent(r, s),
           NEW t \in Fed, NEW cutoff, NEW p, p = Push(DropExpired(r, cutoff), t)
    PROVE  Ring(p, cap, Fed) /\ Recent(p, Append(s, t))
<1> DEFINE n == Expired(r, cutoff)
           d == DropExpired(r, cutoff)
<1>1. n \in 0 .. r.count /\ d = [r EXCEPT !.count = @ - n]
  BY ExpiredBounded DEF DropExpired
<1>2. Ring(d, cap, Fed)
  BY <1>1, RingDrops
<1>3. Recent(d, s)
  BY <1>1, RecentDrop
<1>4. p = Push(d, t)
  OBVIOUS
<1> HIDE DEF n, d
<1>5. Ring(p, cap, Fed)
  BY <1>2, <1>4, RingPushes
<1>6. Recent(p, Append(s, t))
  BY <1>2, <1>3, <1>4, RecentPush
<1> QED
  BY <1>5, <1>6

(* A trade, whatever its price, its side and its lateness.                  *)
LEMMA TradeStep ==
    ASSUME FeaturesInv, NEW t \in Fed, ProcessTrade(t)
    PROVE  FeaturesInv'
<1>1. /\ fed.trades \in Seq(Fed) /\ fed.sided \in Seq(Fed) /\ fed.prices \in Seq(Nat)
      /\ fed.events \in Nat
  BY DEF FeaturesInv
<1>2. /\ fed'.trades = Append(fed.trades, t)
      /\ fed'.sided = IF t.side \in {"buy", "sell"} THEN Append(fed.sided, t) ELSE fed.sided
      /\ fed'.prices = IF t.price > 0 THEN Append(fed.prices, t.price) ELSE fed.prices
  BY DEF ProcessTrade
<1>3. t.price \in Nat /\ t.ts \in Nat
  BY DEF Fed
<1>4. fed' \in [trades : Seq(Fed), sided : Seq(Fed), prices : Seq(Nat), events : Nat]
  <2>1. /\ Append(fed.trades, t) \in Seq(Fed) /\ Append(fed.sided, t) \in Seq(Fed)
        /\ Append(fed.prices, t.price) \in Seq(Nat)
    BY <1>1, <1>3
  <2> QED
    BY <1>1, <2>1 DEF ProcessTrade
<1>5. newest' \in Nat /\ newest' >= MaxLate
  <2>1. newest' = Max({newest, t.ts}) /\ newest \in Nat /\ newest >= MaxLate /\ MaxLate \in Nat
    BY FeaturesAssumption DEF ProcessTrade, FeaturesInv
  <2>2. Max({newest, t.ts}) \in {newest, t.ts} /\ Max({newest, t.ts}) >= newest
    BY <1>3, <2>1 DEF Max
  <2> QED
    BY <1>3, <2>1, <2>2
<1>6. "PQ" \in Parts /\ "Q" \in Parts /\ "buy" \in Parts /\ "sell" \in Parts
  BY DEF Parts
<1>7. /\ Ring(vwap'.ring, VwapCap, Fed) /\ Recent(vwap'.ring, fed'.trades)
      /\ vwap'.sumPQ = SumOldest(vwap'.ring, vwap'.ring.count, "PQ")
      /\ vwap'.sumQ = SumOldest(vwap'.ring, vwap'.ring.count, "Q")
  <2> DEFINE cutoff == t.ts - VwapWindow
             r == vwap.ring
             p == vwap'.ring
  <2>1. /\ p = Push(DropExpired(r, cutoff), t)
        /\ vwap'.sumPQ = SumAfter(r, vwap.sumPQ, cutoff, t, "PQ")
        /\ vwap'.sumQ = SumAfter(r, vwap.sumQ, cutoff, t, "Q")
    BY DEF ProcessTrade, VwapOnTrade
  <2>2. /\ Ring(r, VwapCap, Fed) /\ Recent(r, fed.trades)
        /\ vwap.sumPQ = SumOldest(r, r.count, "PQ") /\ vwap.sumQ = SumOldest(r, r.count, "Q")
    BY DEF FeaturesInv, SumsMatchEntries
  <2> HIDE DEF cutoff, r, p
  <2>3. Ring(p, VwapCap, Fed) /\ Recent(p, Append(fed.trades, t))
    BY <1>1, <2>1, <2>2, TradeEnters
  <2>4. SumAfter(r, SumOldest(r, r.count, "PQ"), cutoff, t, "PQ") = SumOldest(p, p.count, "PQ")
    BY <1>6, <2>1, <2>2, RunningSum
  <2>5. SumAfter(r, SumOldest(r, r.count, "Q"), cutoff, t, "Q") = SumOldest(p, p.count, "Q")
    BY <1>6, <2>1, <2>2, RunningSum
  <2>6. vwap'.sumPQ = SumOldest(p, p.count, "PQ") /\ vwap'.sumQ = SumOldest(p, p.count, "Q")
    BY <2>1, <2>2, <2>4, <2>5
  <2> QED
    BY <1>2, <2>3, <2>6 DEF p
<1>8. /\ Ring(imb'.ring, ImbCap, Fed) /\ Recent(imb'.ring, fed'.sided)
      /\ imb'.buyVol = SumOldest(imb'.ring, imb'.ring.count, "buy")
      /\ imb'.selVol = SumOldest(imb'.ring, imb'.ring.count, "sell")
  <2> DEFINE cutoff == t.ts - ImbWindow
             r == imb.ring
             p == imb'.ring
  <2>1. CASE t.side \notin {"buy", "sell"}
    <3>1. imb' = imb
      BY <2>1 DEF ProcessTrade, ImbalanceOnTrade
    <3> QED
      BY <1>2, <2>1, <3>1 DEF FeaturesInv, SumsMatchEntries
  <2>2. CASE t.side \in {"buy", "sell"}
    <3>1. /\ p = Push(DropExpired(r, cutoff), t)
          /\ imb'.buyVol = SumAfter(r, imb.buyVol, cutoff, t, "buy")
          /\ imb'.selVol = SumAfter(r, imb.selVol, cutoff, t, "sell")
      BY <2>2 DEF ProcessTrade, ImbalanceOnTrade
    <3>2. /\ Ring(r, ImbCap, Fed) /\ Recent(r, fed.sided)
          /\ imb.buyVol = SumOldest(r, r.count, "buy") /\ imb.selVol = SumOldest(r, r.count, "sell")
      BY DEF FeaturesInv, SumsMatchEntries
    <3> HIDE DEF cutoff, r, p
    <3>3. Ring(p, ImbCap, Fed) /\ Recent(p, Append(fed.sided, t))
      BY <1>1, <3>1, <3>2, TradeEnters
    <3>4. SumAfter(r, SumOldest(r, r.count, "buy"), cutoff, t, "buy") = SumOldest(p, p.count, "buy")
      BY <1>6, <3>1, <3>2, RunningSum
    <3>5. SumAfter(r, SumOldest(r, r.count, "sell"), cutoff, t, "sell") = SumOldest(p, p.count, "sell")
      BY <1>6, <3>1, <3>2, RunningSum
    <3>6. imb'.buyVol = SumOldest(p, p.count, "buy") /\ imb'.selVol = SumOldest(p, p.count, "sell")
      BY <3>1, <3>2, <3>4, <3>5
    <3> QED
      BY <1>2, <2>2, <3>3, <3>6 DEF p
  <2> QED
    BY <2>1, <2>2
<1>9. /\ Ring(vol', VolCap, Nat) /\ Recent(vol', fed'.prices)
      /\ vol'.count = IF VolCap < Len(fed'.prices) THEN VolCap ELSE Len(fed'.prices)
  <2>1. /\ Ring(vol, VolCap, Nat) /\ Recent(vol, fed.prices)
        /\ vol.count = IF VolCap < Len(fed.prices) THEN VolCap ELSE Len(fed.prices)
        /\ VolCap \in Nat
    BY FeaturesAssumption DEF FeaturesInv
  <2>2. CASE t.price <= 0
    <3>1. vol' = vol /\ fed'.prices = fed.prices
      BY <1>2, <1>3, <2>2 DEF ProcessTrade, VolatilityOnTrade
    <3> QED
      BY <2>1, <3>1
  <2>3. CASE t.price > 0
    <3>1. vol' = Push(vol, t.price) /\ fed'.prices = Append(fed.prices, t.price)
      BY <1>2, <1>3, <2>3 DEF ProcessTrade, VolatilityOnTrade
    <3>2. /\ Ring(vol', VolCap, Nat)
          /\ vol'.count = IF vol.count = VolCap THEN VolCap ELSE vol.count + 1
      BY <1>3, <2>1, <3>1, RingPushes
    <3>3. Recent(vol', Append(fed.prices, t.price))
      BY <1>1, <1>3, <2>1, <3>1, RecentPush
    <3>4. Len(fed'.prices) = Len(fed.prices) + 1 /\ Len(fed.prices) \in Nat
      BY <1>1, <1>3, <3>1
    <3>5. vol'.count = IF VolCap < Len(fed'.prices) THEN VolCap ELSE Len(fed'.prices)
      BY <2>1, <3>2, <3>4
    <3> QED
      BY <3>1, <3>2, <3>3, <3>5
  <2> QED
    BY <1>3, <2>2, <2>3
<1>10. /\ mom' = [ring |-> mom'.ring, lastSamp |-> mom'.lastSamp]
       /\ Ring(mom'.ring, Lookback, Samples)
       /\ mom'.lastSamp # Never => mom'.ring.count > 0
       /\ fed'.prices # <<>> =>
             /\ mom'.ring.count > 0
             /\ Entry(mom'.ring, mom'.ring.count - 1).price = fed'.prices[Len(fed'.prices)]
  <2> DEFINE e == [price |-> t.price, ts |-> t.ts]
             r == mom.ring
             latest == Slot(r, r.count - 1)
  <2>1. /\ mom = [ring |-> r, lastSamp |-> mom.lastSamp]
        /\ Ring(r, Lookback, Samples) /\ (mom.lastSamp # Never => r.count > 0)
        /\ e \in Samples
    BY <1>3 DEF FeaturesInv, Samples
  <2>2. CASE t.price <= 0
    <3>1. mom' = mom /\ fed'.prices = fed.prices
      BY <1>2, <1>3, <2>2 DEF ProcessTrade, MomentumOnTrade
    <3> QED
      BY <3>1 DEF FeaturesInv
  <2>3. CASE t.price > 0
    <3>1. fed'.prices = Append(fed.prices, t.price)
      BY <1>2, <2>3
    <3>2. fed'.prices[Len(fed'.prices)] = t.price
      BY <1>1, <1>3, <3>1
    <3>3. CASE mom.lastSamp # Never /\ t.ts - mom.lastSamp < Interval
      <4> DEFINE q == [r EXCEPT !.buf = [@ EXCEPT ![latest] = e]]
      <4>1. mom' = [mom EXCEPT !.ring.buf[latest] = e]
        BY <1>3, <2>3, <3>3 DEF ProcessTrade, MomentumOnTrade
      <4>2. mom' = [ring |-> q, lastSamp |-> mom.lastSamp]
        BY <2>1, <4>1 DEF Ring
      <4>3. r.count > 0 /\ latest \in 0 .. Lookback - 1
        <5>1. r.count > 0 /\ r.count \in Nat
          BY <2>1, <3>3 DEF Ring
        <5>2. r.count - 1 \in 0 .. r.count
          BY <5>1
        <5> QED
          BY <2>1, <5>1, <5>2, RingSlots
      <4>4. /\ q.buf = [r.buf EXCEPT ![latest] = e] /\ q.head = r.head /\ q.count = r.count
            /\ q = [buf |-> q.buf, head |-> q.head, count |-> q.count]
        <5> HIDE DEF latest, e
        <5>1. r = [buf |-> r.buf, head |-> r.head, count |-> r.count]
          BY <2>1 DEF Ring
        <5> HIDE DEF r
        <5>2. q = [buf |-> [r.buf EXCEPT ![latest] = e], head |-> r.head, count |-> r.count]
          BY <5>1
        <5> HIDE DEF q
        <5> QED
          BY <5>2
      <4> HIDE DEF q, latest, e
      <4>5. Ring(q, Lookback, Samples) /\ q.buf[latest] = e
        BY <2>1, <4>3, <4>4 DEF Ring
      <4>6. Slot(q, q.count - 1) = latest
        <5>1. Cap(q) = Lookback
          BY <4>5, RingSlots
        <5>2. Cap(r) = Lookback
          BY <2>1, RingSlots
        <5> QED
          BY <4>4, <5>1, <5>2 DEF Slot, latest
      <4>7. Entry(q, q.count - 1).price = t.price
        BY <4>5, <4>6 DEF Entry, e
      <4>8. q.count > 0
        BY <4>3, <4>4
      <4>9. mom'.ring = q /\ mom'.lastSamp = mom.lastSamp
        BY <4>2
      <4> QED
        BY <3>2, <4>2, <4>5, <4>7, <4>8, <4>9
    <3>4. CASE ~(mom.lastSamp # Never /\ t.ts - mom.lastSamp < Interval)
      <4>1. mom' = [ring |-> Push(r, e), lastSamp |-> t.ts]
        BY <1>3, <2>3, <3>4 DEF ProcessTrade, MomentumOnTrade
      <4> DEFINE q == Push(r, e)
      <4>2. mom'.ring = q /\ mom'.lastSamp = t.ts
        BY <4>1
      <4> HIDE DEF e
      <4>3. Ring(q, Lookback, Samples) /\ q.count > 0 /\ Entry(q, q.count - 1) = e
        BY <2>1, RingPushes
      <4> HIDE DEF q
      <4>4. Entry(q, q.count - 1).price = t.price
        BY <4>3 DEF e
      <4>5. mom' = [ring |-> q, lastSamp |-> t.ts]
        BY <4>1 DEF q
      <4> QED
        BY <3>2, <4>2, <4>3, <4>4, <4>5
    <3> QED
      BY <3>3, <3>4
  <2> QED
    BY <1>3, <2>2, <2>3
<1> QED
  BY <1>4, <1>5, <1>7, <1>8, <1>9, <1>10 DEF FeaturesInv, SumsMatchEntries

(* Trades, ticks and resets.                                                *)
LEMMA FeaturesStep == FeaturesInv /\ [FNext]_fvars => FeaturesInv'
<1>1. ASSUME FeaturesInv, NEW t \in Trades, NEW a \in Advances, ProcessTrade(Arrives(t, newest + a))
      PROVE  FeaturesInv'
  <2>1. newest \in Nat /\ a \in Nat
    BY <1>1, FeaturesAssumption DEF FeaturesInv
  <2>2. newest + a \in Nat
    BY <2>1
  <2>3. Arrives(t, newest + a) \in Fed
    BY <2>2, FeaturesAssumption DEF Arrives, Fed, Sides
  <2> QED
    BY <1>1, <2>3, TradeStep
<1>2. ASSUME FeaturesInv, NEW t \in Trades, NEW l \in 1 .. MaxLate, ProcessTrade(Arrives(t, newest - l))
      PROVE  FeaturesInv'
  <2>1. newest \in Nat /\ newest >= MaxLate /\ MaxLate \in Nat
    BY <1>2, FeaturesAssumption DEF FeaturesInv
  <2>2. newest - l \in Nat
    BY <2>1
  <2>3. Arrives(t, newest - l) \in Fed
    BY <2>2, FeaturesAssumption DEF Arrives, Fed, Sides
  <2> QED
    BY <1>2, <2>3, TradeStep
<1>3. ASSUME FeaturesInv, NEW q \in Quotes, ProcessTick(q) PROVE FeaturesInv'
  <2>1. /\ UNCHANGED <<vwap, imb, vol, mom, newest>>
        /\ fed' = [fed EXCEPT !.events = @ + 1]
    BY <1>3 DEF ProcessTick
  <2>2. fed \in [trades : Seq(Fed), sided : Seq(Fed), prices : Seq(Nat), events : Nat]
    BY <1>3 DEF FeaturesInv
  <2>3. /\ fed'.trades = fed.trades /\ fed'.sided = fed.sided /\ fed'.prices = fed.prices
        /\ fed' \in [trades : Seq(Fed), sided : Seq(Fed), prices : Seq(Nat), events : Nat]
    <3> DEFINE A == Seq(Fed)
               B == Seq(Nat)
    <3> HIDE DEF A, B
    <3>1. fed \in [trades : A, sided : A, prices : B, events : Nat]
      BY <2>2 DEF A, B
    <3>2. /\ fed'.trades = fed.trades /\ fed'.sided = fed.sided /\ fed'.prices = fed.prices
          /\ fed' \in [trades : A, sided : A, prices : B, events : Nat]
      BY <2>1, <3>1
    <3> QED
      BY <3>2 DEF A, B
  <2> QED
    BY <1>3, <2>1, <2>3 DEF FeaturesInv, SumsMatchEntries
<1>4. ASSUME FeaturesInv, ResetSymbol PROVE FeaturesInv'
  <2>1. NoTradeYet'
    BY <1>4 DEF ResetSymbol, NoTradeYet
  <2>2. NoTradeYet' => FeaturesInv'
    BY EmptyBuffers, PTL
  <2> QED
    BY <2>1, <2>2
<1>5. ASSUME FeaturesInv, UNCHANGED fvars PROVE FeaturesInv'
  BY <1>5 DEF fvars, FeaturesInv, SumsMatchEntries
<1> QED
  BY <1>1, <1>2, <1>3, <1>4, <1>5 DEF FNext

(* Whatever is fed, windows and running sums are exact: for any capacities,   *)
(* windows, intervals and prices, and trades as late as one likes (vwap.go,  *)
(* imbalance.go, volatility.go, momentum.go OnTrade).                        *)
THEOREM FeaturesAreExact == FSpec => []FeaturesExact
<1>1. FInit => FeaturesInv
  BY EmptyBuffers DEF FInit, NoTradeYet
<1> QED
  BY <1>1, FeaturesStep, InvIsExact, PTL DEF FSpec
=============================================================================
