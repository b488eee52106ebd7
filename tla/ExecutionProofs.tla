--------------------------- MODULE ExecutionProofs ---------------------------
(***************************************************************************)
(* Theorems about order execution for every set of intents, strategies,      *)
(* symbols and goroutines, any quantities and any behaviour of the exchange. *)
(***************************************************************************)
EXTENDS Execution, SumLemmas

-----------------------------------------------------------------------------
(* Types                                                                   *)

(* Where each event of the order state machine leads from and to.             *)
LEMMA Transitions ==
    ASSUME NEW s \in States, NEW e, After(s, e) # "INVALID"
    PROVE  /\ After(s, e) \in States
           /\ e = "SUBMIT" => s = "CREATED" /\ After(s, e) = "SUBMITTED"
           /\ e = "ACK" => s = "SUBMITTED" /\ After(s, e) = "ACKED"
           /\ e = "REJECT" => s = "SUBMITTED" /\ After(s, e) = "REJECTED"
           /\ e = "PARTIAL_FILL" => s \in {"ACKED", "PARTIAL"} /\ After(s, e) = "PARTIAL"
           /\ e = "FILL" => /\ s \in {"ACKED", "PARTIAL", "CANCEL_PENDING"}
                            /\ After(s, e) = "FILLED"
           /\ e = "REQUEST_CANCEL" => /\ s \in {"ACKED", "PARTIAL"}
                                      /\ After(s, e) = "CANCEL_PENDING"
           /\ e = "CANCEL_ACK" => s = "CANCEL_PENDING" /\ After(s, e) = "CANCELLED"
BY DEF After, States

(* A position is a record of integers after a fill as before it.              *)
Positions == [qty : Int, avg : Int, pnl : Int]

\* A position is one again after a fill of any size.
LEMMA FilledType ==
    ASSUME NEW x \in Positions, NEW n \in Int, n # 0, NEW p \in Int
    PROVE  Filled(x, n, p) \in Positions
<1> USE DEF Positions
<1>1. CASE x.qty = 0
    BY <1>1 DEF Filled
<1>2. CASE x.qty # 0 /\ SameDirection(x.qty, n)
    <2>1. Magnitude(x.qty) \in Nat \ {0} /\ Magnitude(n) \in Nat \ {0}
        BY <1>2 DEF Magnitude, SameDirection
    <2>2. Weighted(Magnitude(x.qty), x.avg, Magnitude(n), p) \in Int
        <3> DEFINE a == Magnitude(x.qty)
                   b == Magnitude(n)
        <3>1. a + b \in Nat \ {0} /\ a * x.avg + b * p \in Int
            BY <2>1
        <3> QED BY <3>1 DEF Weighted
    <2> DEFINE w == Weighted(Magnitude(x.qty), x.avg, Magnitude(n), p)
    <2>3. Filled(x, n, p) = [qty |-> x.qty + n, avg |-> w, pnl |-> x.pnl]
        BY <1>2 DEF Filled
    <2>4. x.qty + n \in Int /\ x.pnl \in Int
        OBVIOUS
    <2> QED BY <2>2, <2>3, <2>4
<1>3. CASE x.qty # 0 /\ ~SameDirection(x.qty, n)
    <2>1. EntryAfter(x, n, p) \in Int
        BY DEF EntryAfter
    <2>2. Earned(x, n, p) \in Int
        <3>1. Magnitude(x.qty) \in Int /\ Magnitude(n) \in Int
            BY DEF Magnitude
        <3> DEFINE b == IF Magnitude(n) < Magnitude(x.qty) THEN Magnitude(n)
                        ELSE Magnitude(x.qty)
        <3>2. b \in Int
            BY <3>1
        <3>3. (p - x.avg) * b \in Int /\ (x.avg - p) * b \in Int
            BY <3>2
        <3> QED BY <3>3 DEF Earned
    <2> QED BY <1>3, <2>1, <2>2 DEF Filled
<1> QED BY <1>1, <1>2, <1>3

(* A goroutine that is at work has something in hand.                         *)
AtWork ==
    /\ \A t \in Traders : xpc[t] \notin {"idle", "next"} => cur[t] \in Intents
    /\ \A h \in Handlers : hpc[h] # "idle" => fill[h] \in Fills
    /\ \A c \in Cancellers : cpc[c] # "idle" => order[c] \in Intents

Typed == TypeOK /\ AtWork

\* A fill that fits its order keeps the filled quantity within what was ordered.
LEMMA RecordFillType ==
    ASSUME TypeOK, NEW f \in Fills, Fits(f.intent, f.qty),
           RecordFill(f.intent, f.qty, f.price)
    PROVE  /\ filled' \in [Intents -> Nat] /\ avgFill' \in [Intents -> Int]
           /\ \A i \in Intents : filled'[i] <= Qty[i]
<1> DEFINE j == f.intent
<1>1. j \in Intents /\ f.qty \in Nat \ {0} /\ f.price \in Int
    BY ExecutionAssumption DEF Fills
<1>2. filled[j] \in Nat /\ avgFill[j] \in Int /\ Qty[j] \in Nat
    BY <1>1, ExecutionAssumption DEF TypeOK
<1>3. filled[j] + f.qty \in 0 .. Qty[j]
    BY <1>1, <1>2 DEF Fits
<1>4. Weighted(filled[j], avgFill[j], f.qty, f.price) \in Int
    <2> DEFINE sum == filled[j] * avgFill[j] + f.qty * f.price
    <2>1. filled[j] + f.qty \in Nat \ {0} /\ sum \in Int
        BY <1>1, <1>2
    <2> QED BY <2>1 DEF Weighted
<1> QED BY <1>1, <1>3, <1>4 DEF RecordFill, TypeOK

\* A transition leaves an order in a state the machine has.
LEMMA TransitionType ==
    ASSUME TypeOK, NEW i \in Intents, NEW e, Transition(i, e)
    PROVE  /\ state' \in [Intents -> States]
           /\ UNCHANGED <<before, filled, avgFill>>
BY Transitions DEF Transition, Advance, Valid, TypeOK

\* Execute keeps the types, at each of its steps.
LEMMA ExecuteType ==
    ASSUME Typed, NEW t \in Traders, Execute(t)
    PROVE  Typed'
<1> USE DEF Typed, AtWork, ExecuteStages, Goto, NextIntent
<1> USE DEF orderVars, bookVars, riskVars, handleVars, cancelVars, marketVars, historyVars
<1>1. ASSUME NEW intents \in SUBSET Intents \ {{}}, Signal(t, intents) PROVE Typed'
    BY <1>1 DEF Signal, TypeOK
<1>2. ASSUME NEW i \in Intents, Lookup(t, i) PROVE Typed'
    <2>1. CASE UNCHANGED <<xpc, cur>>
        BY <1>2, <2>1 DEF Lookup, TypeOK
    <2>2. CASE Goto(t, "killed") /\ cur' = [cur EXCEPT ![t] = i]
        BY <1>2, <2>2 DEF Lookup, TypeOK
    <2> QED BY <1>2, <2>1, <2>2 DEF Lookup
<1>3. CASE Finish(t)
    BY <1>3 DEF Finish, TypeOK
<1>4. CASE RiskCheck(t)
    <2>1. ASSUME NEW stage \in {"killed", "frozen", "limits"},
                 NEW following \in {"frozen", "limits", "insert"}, Check(t, stage, following)
          PROVE  Typed'
        <3>1. CASE NextIntent(t)
            BY <2>1, <3>1 DEF Check, TypeOK
        <3>2. CASE Goto(t, following) /\ UNCHANGED <<todo, cur>>
            BY <2>1, <3>2 DEF Check, TypeOK
        <3> QED BY <2>1, <3>1, <3>2 DEF Check
    <2> HIDE DEF Typed
    <2> QED BY <1>4, <2>1 DEF RiskCheck
<1>5. CASE Insert(t)
    <2>1. state' \in [Intents -> States]
        BY <1>5 DEF Insert, TypeOK, States
    <2>2. UNCHANGED <<before, filled, avgFill, bookVars, riskVars, handleVars, cancelVars,
                      marketVars, historyVars>>
        BY <1>5 DEF Insert
    <2>3. CASE NextIntent(t)
        BY <2>1, <2>2, <2>3 DEF TypeOK
    <2>4. CASE Goto(t, "submit") /\ UNCHANGED <<todo, cur>>
        BY <1>5, <2>1, <2>2, <2>4 DEF Insert, TypeOK
    <2> QED BY <1>5, <2>3, <2>4 DEF Insert
<1>6. CASE Submit(t)
    <2>1. cur[t] \in Intents
        BY <1>6 DEF Submit
    <2> QED BY <1>6, <2>1, TransitionType DEF Submit, TypeOK
<1>7. ASSUME NEW outcome \in {"accepted", "lost", "refused"}, Route(t, outcome)
      PROVE  Typed'
    <2>1. /\ market' \in [Intents -> {"none", "live", "gone"}]
          /\ sent' \in [Intents -> Nat] /\ late' \in [Halts -> [Traders -> Nat]]
        <3>1. CASE outcome = "refused"
            BY <1>7, <3>1 DEF Route, TypeOK
        <3>2. CASE outcome # "refused"
            <4>1. late' \in [Halts -> [Traders -> Nat]]
                <5> DEFINE L(x) == IF Halted(x) THEN [late[x] EXCEPT ![t] = @ + 1] ELSE late[x]
                <5>1. \A x \in Halts : L(x) \in [Traders -> Nat]
                    BY DEF TypeOK
                <5>2. late' = [x \in Halts |-> L(x)]
                    BY <1>7, <3>2 DEF Route
                <5> HIDE DEF L
                <5> QED BY <5>1, <5>2
            <4>2. sent' \in [Intents -> Nat]
                <5>1. sent \in [Intents -> Nat] /\ cur[t] \in Intents
                    BY <1>7 DEF Route, TypeOK
                <5>2. sent' = [sent EXCEPT ![cur[t]] = @ + 1]
                    BY <1>7, <3>2 DEF Route
                <5> QED BY <5>1, <5>2
            <4>3. market' \in [Intents -> {"none", "live", "gone"}]
                BY <1>7, <3>2 DEF Route, TypeOK
            <4> QED BY <4>1, <4>2, <4>3
        <3> QED BY <3>1, <3>2
    <2> QED BY <1>7, <2>1 DEF Route, TypeOK
<1>8. CASE Answer(t)
    <2>1. cur[t] \in Intents
        BY <1>8 DEF Answer
    <2> QED BY <1>8, <2>1, TransitionType DEF Answer, TypeOK
<1> QED BY <1>1, <1>2, <1>3, <1>4, <1>5, <1>6, <1>7, <1>8 DEF Execute

\* So does HandleFill.
LEMMA HandleType ==
    ASSUME Typed, NEW h \in Handlers, HandleFill(h)
    PROVE  Typed'
<1> USE DEF Typed, AtWork
<1> USE DEF orderVars, bookVars, riskVars, executeVars, cancelVars, marketVars, historyVars
<1>1. ASSUME NEW f \in feed, Receive(h, f) PROVE Typed'
    <2>1. f \in Fills
        BY DEF TypeOK
    <2>2. feed' \subseteq feed
        BY <1>1 DEF Receive
    <2>3. event' \in [Handlers -> {"FILL", "PARTIAL_FILL"}]
        BY <1>1 DEF Receive, FillEvent, TypeOK
    <2> QED BY <1>1, <2>1, <2>2, <2>3 DEF Receive, TypeOK
<1>2. CASE Book(h)
    <2>1. fill[h] \in Fills /\ fill[h].intent \in Intents
        BY <1>2 DEF Book, Fills
    <2>2. CASE Valid(fill[h].intent, event[h]) /\ Fits(fill[h].intent, fill[h].qty)
        <3>1. state' \in [Intents -> States]
            <4>1. Advance(fill[h].intent, event[h])
                BY <1>2, <2>2 DEF Book
            <4>2. After(state[fill[h].intent], event[h]) \in States
                BY <2>1, <2>2, Transitions DEF Valid, TypeOK
            <4> QED BY <4>1, <4>2 DEF Advance, TypeOK
        <3>2. /\ filled' \in [Intents -> Nat] /\ avgFill' \in [Intents -> Int]
              /\ \A i \in Intents : filled'[i] <= Qty[i]
            BY <1>2, <2>1, <2>2, RecordFillType DEF Book
        <3> QED BY <1>2, <2>2, <3>1, <3>2 DEF Book, TypeOK
    <2>3. CASE ~(Valid(fill[h].intent, event[h]) /\ Fits(fill[h].intent, fill[h].qty))
        <3>1. HandlerDone(h) /\ UNCHANGED orderVars
            BY <1>2, <2>3 DEF Book
        <3>2. UNCHANGED <<bookVars, riskVars, executeVars, cancelVars, marketVars, historyVars>>
            BY <1>2 DEF Book
        <3>3. /\ hpc' \in [Handlers -> {"idle", "received", "booked"}]
              /\ fill' \in [Handlers -> Fills \cup {NoFill}]
              /\ event' \in [Handlers -> {"FILL", "PARTIAL_FILL"}]
              /\ \A g \in Handlers : hpc'[g] # "idle" => fill'[g] \in Fills
            BY <3>1 DEF HandlerDone, TypeOK
        <3> QED BY <3>1, <3>2, <3>3 DEF TypeOK
    <2> QED BY <2>2, <2>3
<1>3. CASE Apply(h)
    <2> DEFINE f == fill[h]
               n == Direction[f.intent] * f.qty
    <2>1. f \in Fills
        BY <1>3 DEF Apply
    <2>2. /\ StrategyOf[f.intent] \in Strategies /\ SymbolOf[f.intent] \in Symbols
          /\ n \in Int /\ n # 0 /\ f.price \in Int
        <3>1. f.intent \in Intents /\ f.qty \in Nat \ {0} /\ f.price \in Int
            BY <2>1, ExecutionAssumption DEF Fills
        <3>2. Direction[f.intent] \in {1, -1}
            BY <3>1, ExecutionAssumption
        <3> QED BY <3>1, <3>2, ExecutionAssumption
    <2>3. /\ pos' \in [Strategies -> [Symbols -> Positions]]
          /\ net' \in [Symbols -> Positions]
        <3> HIDE DEF n
        <3>1. \A x \in Positions : Filled(x, n, f.price) \in Positions
            BY <2>2, FilledType
        <3>2. /\ pos \in [Strategies -> [Symbols -> Positions]]
              /\ net \in [Symbols -> Positions]
            BY DEF TypeOK, Positions
        <3>3. /\ pos' = [pos EXCEPT ![StrategyOf[f.intent]][SymbolOf[f.intent]] =
                              Filled(@, n, f.price)]
              /\ net' = [net EXCEPT ![SymbolOf[f.intent]] = Filled(@, n, f.price)]
            BY <1>3 DEF Apply, ApplyFill, n
        <3> QED BY <2>2, <3>1, <3>2, <3>3
    <2> QED BY <1>3, <2>3 DEF Apply, HandlerDone, TypeOK, Positions
<1> QED BY <1>1, <1>2, <1>3 DEF HandleFill

\* So does Cancel.
LEMMA CancelType ==
    ASSUME Typed, NEW c \in Cancellers, Cancel(c)
    PROVE  Typed'
<1> USE DEF Typed, AtWork, CancelDone
<1> USE DEF orderVars, bookVars, riskVars, executeVars, handleVars, marketVars, historyVars
<1>1. ASSUME NEW i \in Intents, RequestCancel(c, i) PROVE Typed'
    <2>1. /\ state' \in [Intents -> States]
          /\ before' \in [Intents -> {"NONE", "ACKED", "PARTIAL"}]
        BY <1>1, Transitions DEF RequestCancel, Advance, Valid, TypeOK
    <2> QED BY <1>1, <2>1 DEF RequestCancel, TypeOK
<1>2. CASE AdapterCancels(c)
    <2>1. CASE CancelDone(c) /\ UNCHANGED market
        BY <1>2, <2>1 DEF AdapterCancels, TypeOK
    <2>2. CASE /\ market' = [market EXCEPT ![order[c]] = "gone"]
               /\ cpc' = [cpc EXCEPT ![c] = "ack"] /\ UNCHANGED order
        <3>1. order[c] \in Intents
            BY <1>2 DEF AdapterCancels
        <3> QED BY <1>2, <2>2, <3>1 DEF AdapterCancels, TypeOK
    <2> QED BY <1>2, <2>1, <2>2 DEF AdapterCancels
<1>3. CASE CancelAnswer(c)
    BY <1>3, TransitionType DEF CancelAnswer, TypeOK
<1> QED BY <1>1, <1>2, <1>3 DEF Cancel

\* So do the risk engine and the exchange.
LEMMA WorldType ==
    ASSUME Typed,
           \/ Risk
           \/ \E i \in Intents, p \in Prices : \E q \in 1 .. Qty[i] : ExchangeFills(i, q, p)
    PROVE  Typed'
<1> USE DEF Typed, AtWork
<1> USE DEF orderVars, bookVars, riskVars, executeVars, handleVars, cancelVars, marketVars,
            historyVars
<1>1. CASE Risk
    <2>1. killed' \in BOOLEAN /\ frozen' \in BOOLEAN /\ breached' \in BOOLEAN
        BY <1>1 DEF Risk, Kill, Freeze, Resume, UpdatePnL, TypeOK
    <2>2. late' \in [Halts -> [Traders -> Nat]]
        <3>1. CASE UNCHANGED late
            BY <3>1 DEF TypeOK
        <3>2. CASE UpdatePnL
            BY <3>2 DEF UpdatePnL, TypeOK, Halts
        <3> QED BY <1>1, <3>1, <3>2 DEF Risk, Kill, Freeze, Resume
    <2> QED BY <1>1, <2>1, <2>2 DEF Risk, TypeOK
<1>2. ASSUME NEW i \in Intents, NEW p \in Prices, NEW q \in 1 .. Qty[i],
             ExchangeFills(i, q, p)
      PROVE  Typed'
    <2>1. Qty[i] \in Nat /\ q \in Nat \ {0} /\ executed[i] \in Nat
        BY ExecutionAssumption DEF TypeOK
    <2>2. [intent |-> i, at |-> executed[i], qty |-> q, price |-> p] \in Fills
        BY <2>1 DEF Fills
    <2>3. feed' \subseteq Fills /\ executed' \in [Intents -> Nat]
        BY <1>2, <2>1, <2>2 DEF ExchangeFills, TypeOK
    <2>4. market' \in [Intents -> {"none", "live", "gone"}]
        BY <1>2 DEF ExchangeFills, TypeOK
    <2> QED BY <1>2, <2>3, <2>4 DEF ExchangeFills, TypeOK
<1> QED BY <1>1, <1>2

\* The types, in every state.
LEMMA TypeInvariant == Spec => []Typed
<1>1. Init => Typed
    <2> SUFFICES ASSUME Init PROVE Typed
        OBVIOUS
    <2>1. /\ state \in [Intents -> States] /\ before \in [Intents -> {"NONE", "ACKED", "PARTIAL"}]
          /\ filled \in [Intents -> Nat] /\ avgFill \in [Intents -> Int]
          /\ \A i \in Intents : filled[i] <= Qty[i]
        BY ExecutionAssumption DEF Init, States
    <2>2. /\ pos \in [Strategies -> [Symbols -> [qty : Int, avg : Int, pnl : Int]]]
          /\ net \in [Symbols -> [qty : Int, avg : Int, pnl : Int]]
        BY DEF Init, Flat
    <2>3. /\ killed \in BOOLEAN /\ frozen \in BOOLEAN /\ breached \in BOOLEAN
          /\ xpc \in [Traders -> ExecuteStages] /\ todo \in [Traders -> SUBSET Intents]
          /\ cur \in [Traders -> Intents \cup {NoIntent}]
        BY DEF Init, ExecuteStages
    <2>4. /\ hpc \in [Handlers -> {"idle", "received", "booked"}]
          /\ fill \in [Handlers -> Fills \cup {NoFill}]
          /\ event \in [Handlers -> {"FILL", "PARTIAL_FILL"}]
          /\ cpc \in [Cancellers -> {"idle", "cancel", "ack"}]
          /\ order \in [Cancellers -> Intents \cup {NoIntent}]
        BY DEF Init
    <2>5. /\ market \in [Intents -> {"none", "live", "gone"}] /\ executed \in [Intents -> Nat]
          /\ feed \subseteq Fills
          /\ sent \in [Intents -> Nat] /\ late \in [Halts -> [Traders -> Nat]]
        BY DEF Init
    <2>6. AtWork
        BY DEF Init, AtWork
    <2> QED BY <2>1, <2>2, <2>3, <2>4, <2>5, <2>6 DEF Typed, TypeOK
<1>2. Typed /\ [Next]_vars => Typed'
    <2> SUFFICES ASSUME Typed, [Next]_vars PROVE Typed'
        OBVIOUS
    <2>1. CASE UNCHANGED vars
        BY <2>1 DEF vars, orderVars, bookVars, riskVars, executeVars, handleVars, cancelVars,
                    marketVars, historyVars, Typed, TypeOK, AtWork
    <2> QED BY <2>1, ExecuteType, HandleType, CancelType, WorldType DEF Next
<1> QED BY <1>1, <1>2, PTL DEF Spec

(* Every variable keeps its type; in particular no order ever records more than *)
(* its quantity (recordFill's guard), whatever fills come, also twice.          *)
THEOREM TypeCorrect == Spec => []TypeOK
<1>1. Typed => TypeOK
    BY DEF Typed
<1> QED BY <1>1, TypeInvariant, PTL

-----------------------------------------------------------------------------
(* One order, one submission                                               *)

(* A goroutine that carries an order from its insertion to its answer.        *)
Owns(t) == xpc[t] \in {"submit", "route", "ack", "reject"}

(* Each order has at most one such goroutine, which finds it in the state in    *)
(* which it left it; until the goroutine has called the adapter, the exchange   *)
(* does not know the order.  Only a live order can be cancelled there, and      *)
(* CANCELLED is said only of one that was.                                     *)
Sending ==
    /\ \A t \in Traders :
        /\ xpc[t] = "submit" => state[cur[t]] = "CREATED"
        /\ xpc[t] \in {"route", "ack", "reject"} => state[cur[t]] = "SUBMITTED"
        /\ xpc[t] \in {"submit", "route"} => market[cur[t]] = "none" /\ sent[cur[t]] = 0
        /\ xpc[t] = "route" => ~DryRun
    /\ \A t, u \in Traders : t # u /\ Owns(t) /\ Owns(u) => cur[t] # cur[u]
    /\ \A i \in Intents :
        /\ state[i] = "NONE" => market[i] = "none" /\ sent[i] = 0
        /\ sent[i] <= 1
        /\ DryRun => market[i] = "none"
        /\ state[i] = "CANCELLED" => market[i] # "live"
    /\ \A c \in Cancellers : cpc[c] = "ack" => DryRun \/ market[order[c]] = "gone"

(* What the other goroutines do to an order: it moves on from ACKED, PARTIAL or  *)
(* CANCEL_PENDING only, and to CANCELLED only by a canceller's answer; at the    *)
(* exchange it can go, and it cannot come; an answer is one about a dead order.  *)
OrderMoves ==
    \A i \in Intents :
        \/ state'[i] = state[i]
        \/ /\ state[i] \in {"ACKED", "PARTIAL", "CANCEL_PENDING"}
           /\ state'[i] \in {"PARTIAL", "FILLED", "CANCEL_PENDING", "CANCELLED"}
           /\ state'[i] = "CANCELLED"
                => \E c \in Cancellers : cpc[c] = "ack" /\ order[c] = i

MarketMoves ==
    \A i \in Intents : market'[i] = market[i] \/ (market[i] = "live" /\ market'[i] = "gone")

AnswerMoves ==
    \A c \in Cancellers :
        cpc'[c] = "ack" => \/ DryRun
                           \/ cpc[c] = "ack" /\ order'[c] = order[c]
                           \/ order'[c] \in Intents /\ market'[order'[c]] = "gone"

\* HandleFill leaves the traders and the exchange alone, and moves orders only
\* on from a state in which they may be filled.
LEMMA HandleMoves ==
    ASSUME Typed, NEW h \in Handlers, HandleFill(h)
    PROVE  UNCHANGED <<xpc, cur, cpc, order, sent, market>> /\ OrderMoves
<1> USE DEF OrderMoves, executeVars, orderVars, cancelVars, marketVars, historyVars
<1>1. ASSUME NEW f \in feed, Receive(h, f)
      PROVE  UNCHANGED <<state, xpc, cur, cpc, order, sent, market>>
    BY <1>1 DEF Receive
<1>2. CASE Apply(h)
    BY <1>2 DEF Apply
<1>3. CASE Book(h)
    <2>1. fill[h].intent \in Intents /\ event[h] \in {"FILL", "PARTIAL_FILL"}
        BY <1>3 DEF Book, Typed, TypeOK, AtWork, Fills
    <2>2. CASE Advance(fill[h].intent, event[h]) /\ Valid(fill[h].intent, event[h])
        BY <1>3, <2>1, <2>2, Transitions DEF Book, Advance, Valid, Typed, TypeOK
    <2>3. CASE UNCHANGED orderVars
        BY <1>3, <2>3 DEF Book
    <2> QED BY <1>3, <2>2, <2>3 DEF Book
<1> QED BY <1>1, <1>2, <1>3 DEF HandleFill

\* Cancel leaves the traders alone, and moves an order or what the exchange
\* holds only as one that was sent.
LEMMA CancelMoves ==
    ASSUME Typed, NEW c \in Cancellers, Cancel(c)
    PROVE  UNCHANGED <<xpc, cur, sent>> /\ OrderMoves /\ MarketMoves /\ AnswerMoves
<1> USE DEF executeVars, orderVars, marketVars, historyVars
<1>1. ASSUME NEW i \in Intents, RequestCancel(c, i)
      PROVE  UNCHANGED <<xpc, cur, sent>> /\ OrderMoves /\ MarketMoves /\ AnswerMoves
    <2>1. UNCHANGED <<xpc, cur, sent, market>>
        BY <1>1 DEF RequestCancel
    <2>2. OrderMoves
        BY <1>1, Transitions DEF RequestCancel, Advance, Valid, Typed, TypeOK, OrderMoves
    <2>3. AnswerMoves
        BY <1>1 DEF RequestCancel, Typed, TypeOK, AnswerMoves
    <2> QED BY <2>1, <2>2, <2>3 DEF MarketMoves
<1>2. CASE AdapterCancels(c)
    <2>1. UNCHANGED <<xpc, cur, sent, state>>
        BY <1>2 DEF AdapterCancels
    <2>2. order[c] \in Intents
        BY <1>2 DEF AdapterCancels, Typed, AtWork
    <2>3. CASE CancelDone(c) /\ UNCHANGED market
        BY <2>1, <2>3 DEF CancelDone, Typed, TypeOK, OrderMoves, MarketMoves, AnswerMoves
    <2>4. CASE /\ market[order[c]] = "live"
               /\ market' = [market EXCEPT ![order[c]] = "gone"]
               /\ cpc' = [cpc EXCEPT ![c] = "ack"] /\ UNCHANGED order
        <3>1. MarketMoves
            BY <2>2, <2>4 DEF Typed, TypeOK, MarketMoves
        <3>2. AnswerMoves
            BY <2>2, <2>4 DEF Typed, TypeOK, AnswerMoves
        <3> QED BY <2>1, <3>1, <3>2 DEF OrderMoves
    <2> QED BY <1>2, <2>3, <2>4 DEF AdapterCancels
<1>3. CASE CancelAnswer(c)
    <2>1. UNCHANGED <<xpc, cur, sent, market>> /\ CancelDone(c)
        BY <1>3 DEF CancelAnswer
    <2>2. AnswerMoves
        BY <2>1 DEF CancelDone, Typed, TypeOK, AnswerMoves
    <2>3. OrderMoves
        <3>1. order[c] \in Intents /\ cpc[c] = "ack" /\ Transition(order[c], "CANCEL_ACK")
            BY <1>3 DEF CancelAnswer, Typed, AtWork
        <3>2. CASE Valid(order[c], "CANCEL_ACK")
            BY <3>1, <3>2, Transitions
               DEF Transition, Advance, Valid, Typed, TypeOK, OrderMoves
        <3>3. CASE ~Valid(order[c], "CANCEL_ACK")
            BY <3>1, <3>3 DEF Transition, OrderMoves
        <3> QED BY <3>2, <3>3
    <2> QED BY <2>1, <2>2, <2>3 DEF MarketMoves
<1> QED BY <1>1, <1>2, <1>3 DEF Cancel

\* What any step but a trader's may move.
LEMMA OutsideExecute ==
    ASSUME Typed, [Next]_vars, ~(\E t \in Traders : Execute(t))
    PROVE  UNCHANGED <<xpc, cur, sent>> /\ OrderMoves /\ MarketMoves /\ AnswerMoves
<1> USE DEF executeVars, orderVars, cancelVars, marketVars, historyVars
<1>1. ASSUME NEW h \in Handlers, HandleFill(h)
      PROVE  UNCHANGED <<xpc, cur, sent>> /\ OrderMoves /\ MarketMoves /\ AnswerMoves
    BY <1>1, HandleMoves DEF MarketMoves, AnswerMoves
<1>2. CASE Risk \/ UNCHANGED vars
    <2>1. UNCHANGED <<state, xpc, cur, sent, market, cpc, order>>
        BY <1>2 DEF Risk, vars
    <2> QED BY <2>1 DEF OrderMoves, MarketMoves, AnswerMoves
<1>3. ASSUME NEW i \in Intents, NEW p \in Prices, NEW q \in 1 .. Qty[i], ExchangeFills(i, q, p)
      PROVE  UNCHANGED <<xpc, cur, sent>> /\ OrderMoves /\ MarketMoves /\ AnswerMoves
    <2>1. UNCHANGED <<state, xpc, cur, sent, cpc, order>>
        BY <1>3 DEF ExchangeFills
    <2>2. MarketMoves
        BY <1>3 DEF ExchangeFills, Typed, TypeOK, MarketMoves
    <2> QED BY <2>1, <2>2 DEF OrderMoves, AnswerMoves
<1> QED BY <1>1, <1>2, <1>3, CancelMoves DEF Next

\* None of those disturbs an order that a trader is sending.
LEMMA SendingOutside ==
    ASSUME Typed, Sending, UNCHANGED <<xpc, cur, sent>>, OrderMoves, MarketMoves, AnswerMoves
    PROVE  Sending'
<1>1. ASSUME NEW t \in Traders
      PROVE  /\ xpc'[t] = "submit" => state'[cur'[t]] = "CREATED"
             /\ xpc'[t] \in {"route", "ack", "reject"} => state'[cur'[t]] = "SUBMITTED"
             /\ xpc'[t] \in {"submit", "route"} => market'[cur'[t]] = "none" /\ sent'[cur'[t]] = 0
             /\ xpc'[t] = "route" => ~DryRun
    <2>1. CASE xpc[t] \in {"submit", "route", "ack", "reject"}
        <3>1. cur[t] \in Intents
            BY <2>1 DEF Typed, AtWork
        <3>2. /\ state'[cur[t]] = state[cur[t]]
              /\ market[cur[t]] = "none" => market'[cur[t]] = "none"
            BY <2>1, <3>1 DEF Sending, OrderMoves, MarketMoves
        <3> QED BY <3>2 DEF Sending
    <2> QED BY <2>1
<1>2. \A t, u \in Traders : t # u /\ Owns(t)' /\ Owns(u)' => cur'[t] # cur'[u]
    BY DEF Sending, Owns
<1>3. ASSUME NEW i \in Intents
      PROVE  /\ state'[i] = "NONE" => market'[i] = "none" /\ sent'[i] = 0
             /\ sent'[i] <= 1
             /\ DryRun => market'[i] = "none"
             /\ state'[i] = "CANCELLED" => market'[i] # "live"
    BY DEF Sending, OrderMoves, MarketMoves, AnswerMoves
<1>4. ASSUME NEW c \in Cancellers, cpc'[c] = "ack" PROVE DryRun \/ market'[order'[c]] = "gone"
    <2>1. CASE cpc[c] = "ack" /\ order'[c] = order[c]
        <3>1. order[c] \in Intents
            BY <2>1 DEF Typed, AtWork
        <3> QED BY <2>1, <3>1 DEF Sending, MarketMoves
    <2> QED BY <1>4, <2>1 DEF AnswerMoves
<1> QED BY <1>1, <1>2, <1>3, <1>4 DEF Sending

(* What Execute does besides: one goroutine moves, and only its own order does.  *)
LEMMA ExecuteMoves ==
    ASSUME Typed, NEW t \in Traders, Execute(t)
    PROVE  /\ UNCHANGED <<cpc, order, filled>>
           /\ \A u \in Traders : u # t => xpc'[u] = xpc[u] /\ cur'[u] = cur[u]
           /\ \/ UNCHANGED <<state, market, sent>> /\ ~Owns(t)'
              \/ xpc[t] = "insert" /\ Insert(t)
              \/ Submit(t) \/ Answer(t)
              \/ \E outcome \in {"accepted", "lost", "refused"} : Route(t, outcome)
<1> USE DEF orderVars, cancelVars, marketVars, historyVars, Goto, NextIntent, Typed, TypeOK
<1>1. ASSUME NEW intents \in SUBSET Intents \ {{}}, Signal(t, intents)
      PROVE  /\ UNCHANGED <<cpc, order, filled, state, market, sent>> /\ ~Owns(t)'
             /\ \A u \in Traders : u # t => xpc'[u] = xpc[u] /\ cur'[u] = cur[u]
    BY <1>1 DEF Signal, Owns
<1>2. ASSUME NEW i \in Intents, Lookup(t, i)
      PROVE  /\ UNCHANGED <<cpc, order, filled, state, market, sent>> /\ ~Owns(t)'
             /\ \A u \in Traders : u # t => xpc'[u] = xpc[u] /\ cur'[u] = cur[u]
    BY <1>2 DEF Lookup, Owns
<1>3. CASE Finish(t)
    BY <1>3 DEF Finish, Owns
<1>4. ASSUME NEW stage \in {"killed", "frozen", "limits"},
             NEW following \in {"frozen", "limits", "insert"}, Check(t, stage, following)
      PROVE  /\ UNCHANGED <<cpc, order, filled, state, market, sent>> /\ ~Owns(t)'
             /\ \A u \in Traders : u # t => xpc'[u] = xpc[u] /\ cur'[u] = cur[u]
    BY <1>4 DEF Check, Owns
<1>5. ASSUME Insert(t) \/ Submit(t) \/ Answer(t)
      PROVE  /\ UNCHANGED <<cpc, order, filled>>
             /\ \A u \in Traders : u # t => xpc'[u] = xpc[u] /\ cur'[u] = cur[u]
    BY <1>5 DEF Insert, Submit, Answer, Transition
<1>6. ASSUME NEW outcome \in {"accepted", "lost", "refused"}, Route(t, outcome)
      PROVE  /\ UNCHANGED <<cpc, order, filled>>
             /\ \A u \in Traders : u # t => xpc'[u] = xpc[u] /\ cur'[u] = cur[u]
    BY <1>6 DEF Route
<1>7. Insert(t) => xpc[t] = "insert"
    BY DEF Insert
<1>8. CASE RiskCheck(t)
    <2> HIDE DEF Typed, TypeOK, Goto, NextIntent
    <2> QED BY <1>8, <1>4 DEF RiskCheck
<1> HIDE DEF Typed, TypeOK, Goto, NextIntent
<1> QED BY <1>1, <1>2, <1>3, <1>5, <1>6, <1>7, <1>8 DEF Execute

\* A new order is in nobody else's hands.
LEMMA SendingInsert ==
    ASSUME Typed, Sending, NEW t \in Traders, Execute(t), Insert(t)
    PROVE  Sending'
<1> DEFINE i == cur[t]
<1> USE DEF Goto, NextIntent
<1>1. i \in Intents /\ ~Owns(t) /\ UNCHANGED <<cpc, order, market, sent>>
    BY DEF Insert, Typed, AtWork, Owns, cancelVars, marketVars, historyVars
<1>2. CASE ~IsNew(i)
    <2>1. UNCHANGED <<state, cpc, order, market, sent>> /\ ~Owns(t)'
        BY <1>1, <1>2 DEF Insert, Typed, TypeOK, Owns
    <2>2. \A u \in Traders : u # t => xpc'[u] = xpc[u] /\ cur'[u] = cur[u]
        BY ExecuteMoves
    <2> QED BY <2>1, <2>2 DEF Sending, Owns
<1>3. CASE IsNew(i)
    <2>1. /\ state[i] = "NONE" /\ state' = [state EXCEPT ![i] = "CREATED"]
          /\ xpc' = [xpc EXCEPT ![t] = "submit"] /\ UNCHANGED cur
        BY <1>3 DEF Insert, IsNew
    <2>2. \A u \in Traders : u # t /\ Owns(u) => cur[u] # i /\ cur[u] \in Intents
        BY <2>1 DEF Sending, Owns, Typed, AtWork
    <2>3. /\ state \in [Intents -> States] /\ xpc \in [Traders -> ExecuteStages]
        BY DEF Typed, TypeOK
    <2>4. market[i] = "none" /\ sent[i] = 0
        BY <1>1, <2>1 DEF Sending
    <2> QED BY <1>1, <2>1, <2>2, <2>3, <2>4 DEF Sending, Owns
<1> QED BY <1>2, <1>3

\* Submitting an order, and taking in the exchange's answer.
LEMMA SendingAnswered ==
    ASSUME Typed, Sending, NEW t \in Traders, Execute(t), Submit(t) \/ Answer(t)
    PROVE  Sending'
<1> DEFINE i == cur[t]
<1>1. i \in Intents /\ Owns(t) /\ UNCHANGED <<cpc, order, market, sent>>
    BY DEF Submit, Answer, Typed, AtWork, Owns, cancelVars, marketVars, historyVars
<1>2. \A u \in Traders : u # t => /\ xpc'[u] = xpc[u] /\ cur'[u] = cur[u]
                                  /\ Owns(u) => cur[u] # i /\ cur[u] \in Intents
    BY <1>1, ExecuteMoves DEF Sending, Owns, Typed, AtWork
<1>3. state \in [Intents -> States]
    BY DEF Typed, TypeOK
<1>4. CASE Submit(t)
    <2>1. state[i] = "CREATED" /\ xpc[t] = "submit" /\ market[i] = "none" /\ sent[i] = 0
        BY <1>4 DEF Submit, Sending
    <2>2. state' = [state EXCEPT ![i] = "SUBMITTED"]
        BY <1>4, <2>1 DEF Submit, Transition, Advance, Valid, After
    <2>3. UNCHANGED cur /\ xpc'[t] = IF DryRun THEN "ack" ELSE "route"
        BY <1>4 DEF Submit, Goto, Typed, TypeOK
    <2> QED BY <1>1, <1>2, <1>3, <2>1, <2>2, <2>3 DEF Sending, Owns
<1>5. CASE Answer(t)
    <2>1. state[i] = "SUBMITTED"
        BY <1>5 DEF Answer, Sending
    <2>2. PICK s \in {"ACKED", "REJECTED"} : state' = [state EXCEPT ![i] = s]
        BY <1>5, <2>1 DEF Answer, Transition, Advance, Valid, After
    <2>3. ~Owns(t)'
        BY <1>5 DEF Answer, NextIntent, Goto, Owns, Typed, TypeOK
    <2> QED BY <1>1, <1>2, <1>3, <2>1, <2>2, <2>3 DEF Sending, Owns
<1> QED BY <1>4, <1>5

\* Sending an order to the exchange, whatever comes of it.
LEMMA SendingRoute ==
    ASSUME Typed, Sending, NEW t \in Traders, Execute(t),
           NEW outcome \in {"accepted", "lost", "refused"}, Route(t, outcome)
    PROVE  Sending'
<1> DEFINE i == cur[t]
<1>1. /\ i \in Intents /\ Owns(t) /\ UNCHANGED <<cpc, order, cur, state>> /\ ~DryRun
      /\ xpc'[t] \in {"ack", "reject"}
      /\ state[i] = "SUBMITTED" /\ market[i] = "none" /\ sent[i] = 0
    BY DEF Route, Goto, Typed, TypeOK, AtWork, Owns, Sending, cancelVars, orderVars
<1>2. \A u \in Traders : u # t => /\ xpc'[u] = xpc[u] /\ cur'[u] = cur[u]
                                  /\ Owns(u) => cur[u] # i /\ cur[u] \in Intents
    BY <1>1, ExecuteMoves DEF Sending, Owns, Typed, AtWork
<1>3. \A c \in Cancellers : cpc[c] = "ack" => order[c] \in Intents /\ order[c] # i
    BY <1>1 DEF Typed, AtWork, Sending
<1>4. \/ UNCHANGED <<market, sent>>
      \/ /\ market' = [market EXCEPT ![i] = "live"]
         /\ sent' = [sent EXCEPT ![i] = @ + 1]
    BY DEF Route, historyVars
<1>5. market \in [Intents -> {"none", "live", "gone"}] /\ sent \in [Intents -> Nat]
    BY DEF Typed, TypeOK
<1> QED BY <1>1, <1>2, <1>3, <1>4, <1>5 DEF Sending, Owns

\* Orders in the hands of a trader, in every state.
LEMMA SendingInvariant == Spec => []Sending
<1>1. Init => Sending
    BY DEF Init, Sending, Owns
<1>2. Typed /\ Sending /\ [Next]_vars => Sending'
    <2> SUFFICES ASSUME Typed, Sending, [Next]_vars PROVE Sending'
        OBVIOUS
    <2>1. ASSUME NEW t \in Traders, Execute(t) PROVE Sending'
        <3>1. CASE UNCHANGED <<state, market, sent>> /\ ~Owns(t)'
            BY <2>1, <3>1, ExecuteMoves DEF Sending, Owns
        <3> QED BY <2>1, <3>1, ExecuteMoves, SendingInsert, SendingAnswered, SendingRoute
    <2>2. CASE ~(\E t \in Traders : Execute(t))
        BY <2>2, OutsideExecute, SendingOutside
    <2> QED BY <2>1, <2>2
<1> QED BY <1>1, <1>2, TypeInvariant, PTL DEF Spec

(* An intent reaches the exchange at most once (SubmittedOnce), however many     *)
(* signals carry it to however many goroutines: the write lock of Execute lets   *)
(* one of them insert the order, and only that one ever submits it.              *)
THEOREM IntentsSubmittedOnce == Spec => []SubmittedOnce
<1>1. Sending => SubmittedOnce
    BY DEF Sending, SubmittedOnce
<1> QED BY <1>1, SendingInvariant, PTL

(* The exchange executes nothing of a CANCELLED order (CancelledIsDead): the     *)
(* engine says CANCELLED only after the adapter's answer, and a dry run never    *)
(* sent the order.                                                             *)
THEOREM CancelledStaysDead == Spec => CancelledIsDead
<1>1. Typed /\ Sending /\ [Next]_vars
        => [\A i \in Intents : state[i] = "CANCELLED" => executed'[i] = executed[i]]_vars
    <2> SUFFICES ASSUME Typed, Sending, [Next]_vars,
                        NEW i \in Intents, state[i] = "CANCELLED"
                 PROVE  executed'[i] = executed[i]
        OBVIOUS
    <2>1. ASSUME NEW j \in Intents, NEW p \in Prices, NEW q \in 1 .. Qty[j], ExchangeFills(j, q, p)
          PROVE  executed'[i] = executed[i]
        BY <2>1 DEF ExchangeFills, Sending, Typed, TypeOK
    <2>2. ASSUME NEW t \in Traders, Execute(t) PROVE UNCHANGED executed
        BY <2>2 DEF Execute, Signal, Lookup, Finish, RiskCheck, Check, Insert, Submit, Route,
                    Answer, marketVars
    <2>3. ASSUME NEW h \in Handlers, HandleFill(h) PROVE UNCHANGED executed
        BY <2>3 DEF HandleFill, Receive, Book, Apply, marketVars
    <2>4. ASSUME NEW c \in Cancellers, Cancel(c) PROVE UNCHANGED executed
        BY <2>4 DEF Cancel, RequestCancel, AdapterCancels, CancelAnswer, marketVars
    <2>5. CASE Risk \/ UNCHANGED vars
        BY <2>5 DEF Risk, vars, marketVars
    <2> QED BY <2>1, <2>2, <2>3, <2>4, <2>5 DEF Next
<1> QED BY <1>1, TypeInvariant, SendingInvariant, PTL DEF Spec, CancelledIsDead

-----------------------------------------------------------------------------
(* Fills                                                                   *)

(* A FILLED order is complete; an event FILL, decided from what remained when    *)
(* the fill was read, is still right when the order is locked, since what        *)
(* remains only shrinks.                                                       *)
Filling ==
    /\ FilledIsComplete
    /\ \A h \in Handlers :
        hpc[h] = "received" /\ event[h] = "FILL"
            => fill[h].qty >= Qty[fill[h].intent] - filled[fill[h].intent]

(* The steps that change what is filled: one handler enters its fill in one      *)
(* order that still takes fills.                                               *)
LEMMA Bookings ==
    ASSUME Typed, [Next]_vars
    PROVE  \/ UNCHANGED <<filled, hpc, fill, event>>
           \/ \E h \in Handlers : (\E f \in feed : Receive(h, f)) \/ Book(h) \/ Apply(h)
<1>1. ASSUME NEW t \in Traders, Execute(t) PROVE UNCHANGED <<filled, hpc, fill, event>>
    BY <1>1 DEF Execute, Signal, Lookup, Finish, RiskCheck, Check, Insert, Submit, Route,
                Answer, Transition, orderVars, handleVars
<1>2. ASSUME NEW c \in Cancellers, Cancel(c) PROVE UNCHANGED <<filled, hpc, fill, event>>
    BY <1>2 DEF Cancel, RequestCancel, AdapterCancels, CancelAnswer, Transition, orderVars,
                handleVars
<1>3. CASE Risk \/ UNCHANGED vars
    BY <1>3 DEF Risk, vars, orderVars, handleVars
<1>4. ASSUME NEW i \in Intents, NEW p \in Prices, NEW q \in 1 .. Qty[i], ExchangeFills(i, q, p)
      PROVE  UNCHANGED <<filled, hpc, fill, event>>
    BY <1>4 DEF ExchangeFills, orderVars, handleVars
<1> QED BY <1>1, <1>2, <1>3, <1>4 DEF Next, HandleFill

(* How an order comes to be FILLED.                                            *)
LEMMA Completions ==
    ASSUME Typed, Sending, [Next]_vars, NEW i \in Intents,
           state'[i] = "FILLED", state[i] # "FILLED"
    PROVE  \E h \in Handlers : /\ Book(h) /\ fill[h].intent = i
                               /\ Valid(i, event[h]) /\ Fits(i, fill[h].qty)
                               /\ event[h] = "FILL"
<1> USE DEF Typed, TypeOK, AtWork
<1>1. ASSUME NEW t \in Traders, Execute(t) PROVE FALSE
    <2>1. CASE Insert(t)
        BY <1>1, <2>1 DEF Insert
    <2>2. CASE Submit(t) \/ Answer(t)
        <3>1. cur[t] \in Intents
            BY <2>2 DEF Submit, Answer
        <3> QED BY <2>2, <3>1, Transitions DEF Submit, Answer, Transition, Advance, Valid
    <2>3. ASSUME NEW outcome \in {"accepted", "lost", "refused"}, Route(t, outcome)
          PROVE  FALSE
        BY <2>3 DEF Route, orderVars
    <2> HIDE DEF Typed
    <2> QED BY <1>1, <2>1, <2>2, <2>3, ExecuteMoves
<1>2. ASSUME NEW c \in Cancellers, Cancel(c) PROVE FALSE
    <2>1. ASSUME NEW j \in Intents, RequestCancel(c, j) PROVE FALSE
        BY <2>1, Transitions DEF RequestCancel, Advance, Valid
    <2>2. CASE AdapterCancels(c)
        BY <2>2 DEF AdapterCancels, orderVars
    <2>3. CASE CancelAnswer(c)
        BY <2>3, Transitions DEF CancelAnswer, Transition, Advance, Valid
    <2> QED BY <1>2, <2>1, <2>2, <2>3 DEF Cancel
<1>3. ASSUME Risk \/ UNCHANGED vars PROVE FALSE
    BY <1>3 DEF Risk, vars, orderVars
<1>4. ASSUME NEW j \in Intents, NEW p \in Prices, NEW q \in 1 .. Qty[j], ExchangeFills(j, q, p)
      PROVE  FALSE
    BY <1>4 DEF ExchangeFills, orderVars
<1>5. PICK h \in Handlers : HandleFill(h)
    <2> HIDE DEF Typed
    <2> QED BY <1>1, <1>2, <1>3, <1>4 DEF Next
<1>6. Book(h)
    BY <1>5 DEF HandleFill, Receive, Apply, orderVars
<1>7. fill[h].intent \in Intents
    BY <1>6 DEF Book, Fills
<1>8. CASE Advance(fill[h].intent, event[h]) /\ Valid(fill[h].intent, event[h]) /\ Fits(fill[h].intent, fill[h].qty)
    <2>1. fill[h].intent = i
        BY <1>7, <1>8 DEF Advance
    <2>2. event[h] = "FILL"
        BY <1>7, <1>8, <2>1, Transitions DEF Advance, Valid
    <2> QED BY <1>6, <1>8, <2>1, <2>2
<1>9. CASE UNCHANGED orderVars
    BY <1>9 DEF orderVars
<1> QED BY <1>6, <1>8, <1>9 DEF Book

\* Fills on their way, in every state.
LEMMA FillingInvariant == Spec => []Filling
<1>1. Init => Filling
    BY DEF Init, Filling, FilledIsComplete
<1>2. Typed /\ Sending /\ Filling /\ [Next]_vars => Filling'
    <2> SUFFICES ASSUME Typed, Sending, Filling, [Next]_vars PROVE Filling'
        OBVIOUS
    <2>0. /\ \A i \in Intents : filled[i] \in Nat /\ Qty[i] \in Nat
          /\ \A h \in Handlers : hpc[h] # "idle"
                => fill[h].intent \in Intents /\ fill[h].qty \in Nat
        BY ExecutionAssumption DEF Typed, TypeOK, AtWork, Fills
    <2>1. CASE UNCHANGED <<filled, hpc, fill, event>>
        <3>1. \A i \in Intents : state'[i] = "FILLED" => state[i] = "FILLED"
            <4> SUFFICES ASSUME NEW i \in Intents, state'[i] = "FILLED", state[i] # "FILLED"
                         PROVE  FALSE
                OBVIOUS
            <4>1. PICK h \in Handlers : Book(h)
                BY Completions
            <4>2. hpc[h] = "received" /\ hpc'[h] # "received"
                BY <4>1 DEF Book, HandlerDone, Typed, TypeOK
            <4> QED BY <2>1, <4>2
        <3> QED BY <2>1, <3>1 DEF Filling, FilledIsComplete
    <2>2. ASSUME NEW h \in Handlers, NEW f \in feed, Receive(h, f) PROVE Filling'
        <3>1. UNCHANGED <<state, filled>> /\ f \in Fills
            BY <2>2 DEF Receive, orderVars, Typed, TypeOK
        <3>2. f.intent \in Intents /\ f.qty \in Nat
            BY <3>1 DEF Fills
        <3>3. \A g \in Handlers : hpc'[g] = "received" /\ event'[g] = "FILL"
                => fill'[g].qty >= Qty[fill'[g].intent] - filled[fill'[g].intent]
            BY <2>2, <2>0, <3>1, <3>2 DEF Receive, FillEvent, Filling, Typed, TypeOK
        <3> QED BY <3>1, <3>3 DEF Filling, FilledIsComplete
    <2>3. ASSUME NEW h \in Handlers, Apply(h) PROVE Filling'
        BY <2>3 DEF Apply, HandlerDone, orderVars, Filling, FilledIsComplete, Typed, TypeOK
    <2>4. ASSUME NEW h \in Handlers, Book(h) PROVE Filling'
        <3> DEFINE j == fill[h].intent
        <3>1. CASE UNCHANGED orderVars /\ HandlerDone(h)
            BY <3>1 DEF HandlerDone, orderVars, Filling, FilledIsComplete, Typed, TypeOK
        <3>2. CASE /\ Valid(j, event[h]) /\ Fits(j, fill[h].qty)
                   /\ Advance(j, event[h]) /\ RecordFill(j, fill[h].qty, fill[h].price)
                   /\ hpc' = [hpc EXCEPT ![h] = "booked"] /\ UNCHANGED <<before, fill, event>>
            <4>1. /\ hpc[h] = "received" /\ j \in Intents /\ fill[h].qty \in Nat
                  /\ filled[j] + fill[h].qty <= Qty[j]
                  /\ \A i \in Intents : filled'[i] = IF i = j THEN filled[j] + fill[h].qty ELSE filled[i]
                BY <2>4, <2>0, <3>2 DEF Book, Fits, RecordFill, Typed, TypeOK
            <4>2. FilledIsComplete'
                <5> SUFFICES ASSUME NEW i \in Intents, state'[i] = "FILLED" PROVE filled'[i] = Qty[i]
                    BY DEF FilledIsComplete
                <5>1. CASE i # j
                    BY <2>0, <3>2, <4>1, <5>1
                       DEF Advance, Filling, FilledIsComplete, Typed, TypeOK
                <5>2. CASE i = j
                    <6>1. event[h] = "FILL"
                        BY <3>2, <4>1, <5>2, Transitions
                           DEF Advance, Valid, Typed, TypeOK
                    <6> QED BY <2>0, <4>1, <5>2, <6>1 DEF Filling
                <5> QED BY <5>1, <5>2
            <4>3. ASSUME NEW g \in Handlers, hpc'[g] = "received", event'[g] = "FILL"
                  PROVE  fill'[g].qty >= Qty[fill'[g].intent] - filled'[fill'[g].intent]
                <5>1. /\ hpc[g] = "received" /\ event[g] = "FILL" /\ fill'[g] = fill[g]
                    BY <3>2, <4>3 DEF Typed, TypeOK
                <5>2. filled'[fill[g].intent] >= filled[fill[g].intent] /\ filled'[fill[g].intent] \in Nat
                    BY <2>0, <4>1, <5>1
                <5> QED BY <2>0, <5>1, <5>2 DEF Filling
            <4> QED BY <4>2, <4>3 DEF Filling
        <3> QED BY <2>4, <3>1, <3>2 DEF Book
    <2> QED BY Bookings, <2>1, <2>2, <2>3, <2>4
<1> QED BY <1>1, <1>2, TypeInvariant, SendingInvariant, PTL DEF Spec

(* An order is FILLED only when its whole quantity is (FilledIsComplete), with    *)
(* any number of handlers between the read of what remains and the lock.         *)
THEOREM FilledComplete == Spec => []FilledIsComplete
<1>1. Filling => FilledIsComplete
    BY DEF Filling
<1> QED BY <1>1, FillingInvariant, PTL

(* FILLED, REJECTED and CANCELLED are for good, and so is what such an order has  *)
(* filled (TerminalIsFinal): late acks, cancel answers and fills find no          *)
(* transition.                                                                  *)
THEOREM TerminalStays == Spec => TerminalIsFinal
<1>1. Typed /\ Sending /\ [Next]_vars
        => [\A i \in Intents :
              state[i] \in Terminal => state'[i] = state[i] /\ filled'[i] = filled[i]]_vars
    <2> SUFFICES ASSUME Typed, Sending, [Next]_vars, NEW i \in Intents, state[i] \in Terminal
                 PROVE  state'[i] = state[i] /\ filled'[i] = filled[i]
        OBVIOUS
    <2>1. ASSUME NEW t \in Traders, Execute(t)
          PROVE  state'[i] = state[i] /\ filled'[i] = filled[i]
        <3>1. CASE Insert(t)
            BY <2>1, <3>1, ExecuteMoves DEF Insert, IsNew, Terminal, Typed, TypeOK
        <3>2. CASE Submit(t) \/ Answer(t)
            <4>1. cur[t] \in Intents /\ state[cur[t]] \in {"CREATED", "SUBMITTED"}
                BY <3>2 DEF Submit, Answer, Sending, Typed, AtWork
            <4> QED BY <2>1, <3>2, <4>1, ExecuteMoves
                    DEF Submit, Answer, Transition, Advance, Terminal, Typed, TypeOK
        <3>3. ASSUME NEW outcome \in {"accepted", "lost", "refused"}, Route(t, outcome)
              PROVE  UNCHANGED <<state, filled>>
            BY <3>3 DEF Route, orderVars
        <3> QED BY <2>1, <3>1, <3>2, <3>3, ExecuteMoves
    <2>2. ASSUME ~(\E t \in Traders : Execute(t)) PROVE state'[i] = state[i]
        BY <2>2, OutsideExecute DEF OrderMoves, Terminal
    <2>3. ASSUME ~(\E t \in Traders : Execute(t)) PROVE filled'[i] = filled[i]
        <3>1. ASSUME NEW h \in Handlers, NEW f \in feed, Receive(h, f) PROVE UNCHANGED filled
            BY <3>1 DEF Receive, orderVars
        <3>2. ASSUME NEW h \in Handlers, Apply(h) PROVE UNCHANGED filled
            BY <3>2 DEF Apply, orderVars
        <3>3. ASSUME NEW h \in Handlers, Book(h) PROVE filled'[i] = filled[i]
            <4> DEFINE j == fill[h].intent
            <4>1. j \in Intents /\ event[h] \in {"FILL", "PARTIAL_FILL"}
                BY <3>3 DEF Book, Typed, TypeOK, AtWork, Fills
            <4>2. CASE Valid(j, event[h]) /\ RecordFill(j, fill[h].qty, fill[h].price)
                <5>1. state[j] \in {"ACKED", "PARTIAL", "CANCEL_PENDING"}
                    BY <4>1, <4>2, Transitions DEF Valid, Typed, TypeOK
                <5> QED BY <4>1, <4>2, <5>1 DEF RecordFill, Terminal, Typed, TypeOK
            <4>3. CASE UNCHANGED orderVars
                BY <4>3 DEF orderVars
            <4> QED BY <3>3, <4>2, <4>3 DEF Book
        <3> QED BY <3>1, <3>2, <3>3, Bookings
    <2> QED BY <2>1, <2>2, <2>3
<1> QED BY <1>1, TypeInvariant, SendingInvariant, PTL DEF Spec, TerminalIsFinal

-----------------------------------------------------------------------------
(* The books                                                               *)

\* Selling mirrors buying.
LEMMA Negated ==
    ASSUME NEW w \in Int, NEW q \in Int, NEW n \in Int, NEW a \in Int, NEW p \in Int
    PROVE  w * ((-q) + (-n)) = -(w * (q + n)) /\ (-q) * a + (-n) * p = -(q * a + n * p)
  OBVIOUS

(* What a fill adds to the quantity of a position, and to its cost when the      *)
(* average it computes leaves no remainder.                                    *)
LEMMA FillCosts ==
    ASSUME NEW x \in Positions, NEW n \in Int, n # 0, NEW p \in Int
    PROVE  /\ Filled(x, n, p) \in Positions /\ Filled(x, n, p).qty = x.qty + n
           /\ Cost(x) \in Int /\ Cost(Filled(x, n, p)) \in Int
           /\ Even(x, n, p) => Cost(Filled(x, n, p)) = Cost(x) + n * p
<1> DEFINE q == x.qty
           a == x.avg
           e == x.pnl
           y == Filled(x, n, p)
<1>1. q \in Int /\ a \in Int /\ e \in Int
    BY DEF Positions
<1>2. y \in Positions
    BY FilledType
<1>3. /\ Cost(x) = q * a - e /\ Cost(y) = y.qty * y.avg - y.pnl
      /\ y.qty \in Int /\ y.avg \in Int /\ y.pnl \in Int
    BY <1>2 DEF Cost, Positions
<1>4. Cost(x) \in Int /\ Cost(y) \in Int
    BY <1>1, <1>3
<1>5. CASE q = 0
    <2>1. y.qty = n /\ y.avg = p /\ y.pnl = e
        BY <1>5 DEF Filled, Positions
    <2>2. Cost(y) = n * p - e /\ Cost(x) = 0 - e
        BY <1>1, <1>3, <1>5, <2>1
    <2>3. n * p \in Int
        OBVIOUS
    <2> QED BY <1>1, <1>2, <1>4, <1>5, <2>1, <2>2, <2>3
<1>6. CASE q # 0 /\ SameDirection(q, n)
    <2> DEFINE w == Weighted(Magnitude(q), a, Magnitude(n), p)
    <2>1. y.qty = q + n /\ y.avg = w /\ y.pnl = e
        BY <1>6 DEF Filled, Positions
    <2>2. ASSUME Even(x, n, p) PROVE Cost(y) = Cost(x) + n * p
        <3>1. w * (Magnitude(q) + Magnitude(n)) = Magnitude(q) * a + Magnitude(n) * p
            BY <1>6, <2>2 DEF Even, Divides
        <3>2. w \in Int
            BY <1>3, <2>1
        <3> HIDE DEF w
        <3>3. w * (q + n) = q * a + n * p
            <4>1. CASE q > 0 /\ n > 0
                BY <3>1, <4>1, <1>1 DEF Magnitude
            <4>2. CASE q < 0 /\ n < 0
                <5>1. w * ((-q) + (-n)) = (-q) * a + (-n) * p
                    BY <3>1, <4>2, <1>1 DEF Magnitude
                <5> HIDE DEF q, a
                <5>2. w * ((-q) + (-n)) = -(w * (q + n)) /\ (-q) * a + (-n) * p = -(q * a + n * p)
                    BY <1>1, <3>2, Negated
                <5>3. w * (q + n) \in Int /\ q * a + n * p \in Int
                    BY <1>1, <3>2
                <5> QED BY <5>1, <5>2, <5>3
            <4> QED BY <1>1, <1>6, <4>1, <4>2 DEF SameDirection
        <3>4. Cost(y) = (q + n) * w - e
            BY <1>3, <2>1 DEF w
        <3>5. (q + n) * w = w * (q + n) /\ q * a \in Int /\ n * p \in Int
            BY <1>1, <3>2
        <3> QED BY <1>1, <1>3, <3>3, <3>4, <3>5
    <2> QED BY <1>2, <1>4, <2>1, <2>2
<1>7. CASE q # 0 /\ ~SameDirection(q, n)
    <2>1. y.qty = q + n /\ y.avg = EntryAfter(x, n, p) /\ y.pnl = e + Earned(x, n, p)
        BY <1>7 DEF Filled
    <2> DEFINE c == IF Magnitude(n) < Magnitude(q) THEN Magnitude(n) ELSE Magnitude(q)
    <2>2. Earned(x, n, p) = IF q > 0 THEN (p - a) * c ELSE (a - p) * c
        BY DEF Earned
    <2>3. (q > 0 /\ n < 0) \/ (q < 0 /\ n > 0)
        BY <1>1, <1>7 DEF SameDirection
    <2> HIDE DEF q, a, e
    <2>4. CASE q + n = 0
        <3>1. c = Magnitude(q) /\ n = -q
            BY <1>1, <2>4 DEF Magnitude
        <3>2. Earned(x, n, p) = (p - a) * q
            <4>1. CASE q > 0
                BY <1>1, <2>2, <3>1, <4>1 DEF Magnitude
            <4>2. CASE q < 0
                <5>1. Earned(x, n, p) = (a - p) * (-q)
                    BY <1>1, <2>2, <3>1, <4>2 DEF Magnitude
                <5> QED BY <1>1, <5>1
            <4> QED BY <1>1, <2>3, <4>1, <4>2
        <3>3. y.avg = 0
            <4>1. x.qty + n = 0
                BY <2>4 DEF q
            <4>2. EntryAfter(x, n, p) = 0
                BY <4>1 DEF EntryAfter, SameDirection
            <4> QED BY <2>1, <4>2
        <3>4. Cost(y) = 0 - (e + (p - a) * q)
            BY <1>3, <2>1, <2>4, <3>2, <3>3
        <3>5. (p - a) * q = p * q - q * a /\ n * p = -(p * q) /\ p * q \in Int /\ q * a \in Int
            BY <1>1, <3>1
        <3> QED BY <1>1, <1>2, <1>3, <1>4, <2>1, <3>4, <3>5 DEF q, a, e
    <2>5. CASE q + n # 0 /\ SameDirection(q, q + n)
        <3>1. c = Magnitude(n)
            BY <1>1, <2>3, <2>5 DEF Magnitude, SameDirection
        <3>2. Earned(x, n, p) = (a - p) * n
            <4>1. CASE q > 0
                <5>1. Earned(x, n, p) = (p - a) * (-n)
                    BY <1>1, <2>2, <2>3, <3>1, <4>1 DEF Magnitude
                <5> QED BY <1>1, <5>1
            <4>2. CASE q < 0
                BY <1>1, <2>2, <2>3, <3>1, <4>2 DEF Magnitude
            <4> QED BY <1>1, <2>3, <4>1, <4>2
        <3>3. y.avg = a
            BY <2>1, <2>5 DEF EntryAfter, q, a
        <3>4. Cost(y) = (q + n) * a - (e + (a - p) * n)
            BY <1>3, <2>1, <3>2, <3>3
        <3>5. /\ (q + n) * a = q * a + n * a /\ (a - p) * n = n * a - n * p
              /\ n * a \in Int /\ n * p \in Int /\ q * a \in Int
            BY <1>1
        <3> QED BY <1>1, <1>2, <1>3, <1>4, <2>1, <3>4, <3>5 DEF q, a, e
    <2>6. CASE q + n # 0 /\ ~SameDirection(q, q + n)
        <3>1. c = Magnitude(q)
            BY <1>1, <2>3, <2>6 DEF Magnitude, SameDirection
        <3>2. Earned(x, n, p) = (p - a) * q
            <4>1. CASE q > 0
                BY <1>1, <2>2, <3>1, <4>1 DEF Magnitude
            <4>2. CASE q < 0
                <5>1. Earned(x, n, p) = (a - p) * (-q)
                    BY <1>1, <2>2, <3>1, <4>2 DEF Magnitude
                <5> QED BY <1>1, <5>1
            <4> QED BY <1>1, <2>3, <4>1, <4>2
        <3>3. y.avg = p
            BY <2>1, <2>6 DEF EntryAfter, q
        <3>4. Cost(y) = (q + n) * p - (e + (p - a) * q)
            BY <1>3, <2>1, <3>2, <3>3
        <3>5. /\ (q + n) * p = p * q + n * p /\ (p - a) * q = p * q - q * a
              /\ p * q \in Int /\ n * p \in Int /\ q * a \in Int
            BY <1>1
        <3> QED BY <1>1, <1>2, <1>3, <1>4, <2>1, <3>4, <3>5 DEF q, a, e
    <2> QED BY <2>4, <2>5, <2>6
<1> QED BY <1>5, <1>6, <1>7

(* Book, when the order takes the fill.                                        *)
Records(h) ==
    LET f == fill[h] IN
    /\ hpc[h] = "received" /\ Fits(f.intent, f.qty) /\ RecordFill(f.intent, f.qty, f.price)
    /\ hpc' = [hpc EXCEPT ![h] = "booked"] /\ UNCHANGED <<fill, pos, net>>

(* Only Book and Apply move the books.                                          *)
LEMMA BookMoves ==
    ASSUME Typed, [Next]_vars
    PROVE  \/ /\ UNCHANGED <<filled, avgFill, pos, net>>
              /\ \A h \in Handlers : (hpc[h] = "booked") = (hpc'[h] = "booked")
              /\ \A h \in Handlers : hpc[h] = "booked" => fill'[h] = fill[h]
           \/ \E h \in Handlers : Records(h) \/ Apply(h)
<1> USE DEF Typed, TypeOK
<1>1. ASSUME NEW t \in Traders, Execute(t)
      PROVE  UNCHANGED <<filled, avgFill, pos, net, hpc, fill>>
    BY <1>1 DEF Execute, Signal, Lookup, Finish, RiskCheck, Check, Insert, Submit, Route,
                Answer, Transition, orderVars, handleVars, bookVars
<1>2. ASSUME NEW c \in Cancellers, Cancel(c)
      PROVE  UNCHANGED <<filled, avgFill, pos, net, hpc, fill>>
    BY <1>2 DEF Cancel, RequestCancel, AdapterCancels, CancelAnswer, Transition, orderVars,
                handleVars, bookVars
<1>3. CASE Risk \/ UNCHANGED vars
    BY <1>3 DEF Risk, vars, orderVars, handleVars, bookVars
<1>4. ASSUME NEW i \in Intents, NEW p \in Prices, NEW q \in 1 .. Qty[i], ExchangeFills(i, q, p)
      PROVE  UNCHANGED <<filled, avgFill, pos, net, hpc, fill>>
    BY <1>4 DEF ExchangeFills, orderVars, handleVars, bookVars
<1>5. ASSUME NEW h \in Handlers, NEW f \in feed, Receive(h, f)
      PROVE  /\ UNCHANGED <<filled, avgFill, pos, net>>
             /\ \A g \in Handlers : (hpc[g] = "booked") = (hpc'[g] = "booked")
             /\ \A g \in Handlers : hpc[g] = "booked" => fill'[g] = fill[g]
    BY <1>5 DEF Receive, orderVars, bookVars
<1>6. ASSUME NEW h \in Handlers, Book(h)
      PROVE  \/ /\ UNCHANGED <<filled, avgFill, pos, net>>
                /\ \A g \in Handlers : (hpc[g] = "booked") = (hpc'[g] = "booked")
                /\ \A g \in Handlers : hpc[g] = "booked" => fill'[g] = fill[g]
             \/ Records(h)
    <2>1. CASE Valid(fill[h].intent, event[h]) /\ Fits(fill[h].intent, fill[h].qty)
        BY <1>6, <2>1 DEF Book, Records, bookVars
    <2>2. CASE HandlerDone(h) /\ UNCHANGED orderVars
        BY <1>6, <2>2 DEF Book, HandlerDone, bookVars, orderVars
    <2> QED BY <1>6, <2>1, <2>2 DEF Book
<1> HIDE DEF Typed, TypeOK
<1> QED BY <1>1, <1>2, <1>3, <1>4, <1>5, <1>6 DEF Next, HandleFill

(* A fill in a handler's hand, and the sets the books sum over.                 *)
LEMMA FillInHand ==
    ASSUME Typed, NEW h \in Handlers, hpc[h] # "idle"
    PROVE  /\ fill[h].intent \in Intents /\ fill[h].qty \in Nat \ {0} /\ fill[h].price \in Int
           /\ Signed(fill[h]) \in Int /\ Signed(fill[h]) # 0
           /\ SymbolOf[fill[h].intent] \in Symbols /\ StrategyOf[fill[h].intent] \in Strategies
<1>1. fill[h].intent \in Intents /\ fill[h].qty \in Nat \ {0} /\ fill[h].price \in Int
    BY ExecutionAssumption DEF Typed, AtWork, Fills
<1>2. Direction[fill[h].intent] \in {1, -1}
    BY <1>1, ExecutionAssumption
<1> QED BY <1>1, <1>2, ExecutionAssumption DEF Signed

\* The sums over orders and handlers have finitely many terms.
LEMMA SummedSets ==
    ASSUME NEW k
    PROVE  IsFiniteSet(OrdersIn(k)) /\ IsFiniteSet(Between(k)) /\ IsFiniteSet(Between(k)')
  BY ExecutionAssumption, FS_Subset DEF OrdersIn, Between

\* What is summed over are integers.
LEMMA Summands ==
    ASSUME Typed, NEW k \in Symbols
    PROVE  /\ \A i \in Intents : Booked[i] \in Int /\ Paid[i] \in Int
           /\ \A h \in Between(k) : Applying(k)[h] \in Int /\ Charging(k)[h] \in Int
           /\ \A s \in Strategies : Holding(k)[s] \in Int /\ Costs(k)[s] \in Int
<1>1. ASSUME NEW i \in Intents PROVE Booked[i] \in Int /\ Paid[i] \in Int
    <2>1. Direction[i] \in {1, -1}
        BY ExecutionAssumption
    <2>2. filled[i] \in Int /\ avgFill[i] \in Int
        BY DEF Typed, TypeOK
    <2> QED BY <2>1, <2>2 DEF Booked, Paid
<1>2. ASSUME NEW h \in Between(k) PROVE Applying(k)[h] \in Int /\ Charging(k)[h] \in Int
    BY FillInHand DEF Between, Applying, Charging
<1>3. ASSUME NEW s \in Strategies PROVE Holding(k)[s] \in Int /\ Costs(k)[s] \in Int
    <2>1. pos[s][k] \in [qty : Int, avg : Int, pnl : Int]
        BY DEF Typed, TypeOK
    <2> QED BY <2>1 DEF Holding, Costs, Cost
<1> QED BY <1>1, <1>2, <1>3

\* And after the step, too.
LEMMA SummandsAfter ==
    ASSUME Typed', NEW k \in Symbols
    PROVE  /\ \A i \in Intents : Booked'[i] \in Int /\ Paid'[i] \in Int
           /\ \A h \in Between(k)' : Applying(k)'[h] \in Int /\ Charging(k)'[h] \in Int
           /\ \A s \in Strategies : Holding(k)'[s] \in Int /\ Costs(k)'[s] \in Int
<1>1. ASSUME NEW i \in Intents PROVE Booked'[i] \in Int /\ Paid'[i] \in Int
    <2>1. Direction[i] \in {1, -1}
        BY ExecutionAssumption
    <2>2. filled'[i] \in Int /\ avgFill'[i] \in Int
        BY DEF Typed, TypeOK
    <2> QED BY <2>1, <2>2 DEF Booked, Paid
<1>2. ASSUME NEW h \in Between(k)' PROVE Applying(k)'[h] \in Int /\ Charging(k)'[h] \in Int
    <2>1. fill'[h].intent \in Intents /\ fill'[h].qty \in Nat /\ fill'[h].price \in Int
        BY ExecutionAssumption DEF Typed, AtWork, Fills, Between
    <2>2. Direction[fill'[h].intent] \in {1, -1}
        BY <2>1, ExecutionAssumption
    <2> QED BY <2>1, <2>2 DEF Applying, Charging, Signed
<1>3. ASSUME NEW s \in Strategies PROVE Holding(k)'[s] \in Int /\ Costs(k)'[s] \in Int
    <2>1. pos'[s][k] \in [qty : Int, avg : Int, pnl : Int]
        BY DEF Typed, TypeOK
    <2> QED BY <2>1 DEF Holding, Costs, Cost
<1> QED BY <1>1, <1>2, <1>3

(* Book adds the fill to its order and to the fills in between.                 *)
LEMMA RecordSums ==
    ASSUME Typed, Typed', NEW h \in Handlers, Records(h), NEW k \in Symbols
    PROVE  LET f == fill[h]
               mine == SymbolOf[f.intent] = k
               sum(g, S) == SumFunctionOnSet(g, S)
           IN  /\ sum(Booked', OrdersIn(k)) - sum(Booked, OrdersIn(k))
                      = sum(Applying(k)', Between(k)') - sum(Applying(k), Between(k))
               /\ Divides(filled[f.intent], avgFill[f.intent], f.qty, f.price) =>
                      sum(Paid', OrdersIn(k)) - sum(Paid, OrdersIn(k))
                         = sum(Charging(k)', Between(k)') - sum(Charging(k), Between(k))
<1> DEFINE f == fill[h]
           i == f.intent
           sum(g, S) == SumFunctionOnSet(g, S)
<1>1. /\ i \in Intents /\ f.qty \in Nat \ {0} /\ f.price \in Int /\ hpc[h] = "received"
      /\ Signed(f) \in Int /\ filled[i] \in Nat /\ avgFill[i] \in Int /\ Direction[i] \in {1, -1}
    BY FillInHand, ExecutionAssumption DEF Records, Typed, TypeOK
<1>2. /\ \A j \in Intents \ {i} : Booked'[j] = Booked[j] /\ Paid'[j] = Paid[j]
      /\ Booked'[i] = Booked[i] + Signed(f)
      /\ Divides(filled[i], avgFill[i], f.qty, f.price) => Paid'[i] = Paid[i] + Signed(f) * f.price
    <2> DEFINE w == Weighted(filled[i], avgFill[i], f.qty, f.price)
    <2>1. /\ \A j \in Intents \ {i} : filled'[j] = filled[j] /\ avgFill'[j] = avgFill[j]
          /\ filled'[i] = filled[i] + f.qty /\ avgFill'[i] = w
        BY <1>1 DEF Records, RecordFill, Typed, TypeOK
    <2>2. \A j \in Intents \ {i} : Booked'[j] = Booked[j] /\ Paid'[j] = Paid[j]
        BY <2>1 DEF Booked, Paid
    <2>3. Booked'[i] = Direction[i] * (filled[i] + f.qty) /\ Booked[i] = Direction[i] * filled[i]
        BY <1>1, <2>1 DEF Booked
    <2>4. Paid'[i] = (Direction[i] * (filled[i] + f.qty)) * w /\ Paid[i] = (Direction[i] * filled[i]) * avgFill[i]
        BY <1>1, <2>1, <2>3 DEF Paid
    <2>5. Signed(f) = Direction[i] * f.qty
        BY DEF Signed
    <2>6. w \in Int
        BY <1>1, <2>1 DEF Typed, TypeOK
    <2>7. ASSUME Divides(filled[i], avgFill[i], f.qty, f.price)
          PROVE  Paid'[i] = Paid[i] + Signed(f) * f.price
        <3>1. w * (filled[i] + f.qty) = filled[i] * avgFill[i] + f.qty * f.price
            BY <2>7 DEF Divides
        <3> HIDE DEF w, f, i
        <3>2. CASE Direction[i] = 1
            BY <1>1, <2>4, <2>5, <2>6, <3>1, <3>2
        <3>3. CASE Direction[i] = -1
            <4>1. /\ Paid'[i] = -(w * (filled[i] + f.qty)) /\ Paid[i] = -(filled[i] * avgFill[i])
                  /\ Signed(f) * f.price = -(f.qty * f.price)
                BY <1>1, <2>4, <2>5, <2>6, <3>3
            <4>2. filled[i] * avgFill[i] \in Int /\ f.qty * f.price \in Int
                BY <1>1
            <4> QED BY <3>1, <4>1, <4>2
        <3> QED BY <1>1, <3>2, <3>3
    <2> HIDE DEF f, i
    <2> QED BY <1>1, <2>2, <2>3, <2>5, <2>7
<1>3. CASE SymbolOf[i] = k
    <2>1. /\ h \notin Between(k) /\ Between(k)' = Between(k) \cup {h}
          /\ \A g \in Between(k) : Applying(k)'[g] = Applying(k)[g] /\ Charging(k)'[g] = Charging(k)[g]
          /\ Applying(k)'[h] = Signed(f) /\ Charging(k)'[h] = Signed(f) * f.price
        BY <1>1, <1>3 DEF Records, Between, Applying, Charging, Signed, Typed, TypeOK
    <2>2. i \in OrdersIn(k) /\ OrdersIn(k) \subseteq Intents
        BY <1>1, <1>3 DEF OrdersIn
    <2>3. /\ \A j \in Intents : Booked[j] \in Int /\ Paid[j] \in Int /\ Booked'[j] \in Int /\ Paid'[j] \in Int
          /\ \A g \in Between(k) : Applying(k)[g] \in Int /\ Charging(k)[g] \in Int
          /\ \A g \in Between(k)' : Applying(k)'[g] \in Int /\ Charging(k)'[g] \in Int
        BY Summands, SummandsAfter
    <2>4. /\ sum(Applying(k)', Between(k)') = sum(Applying(k), Between(k)) + Signed(f)
          /\ sum(Charging(k)', Between(k)') = sum(Charging(k), Between(k)) + Signed(f) * f.price
        BY <2>1, <2>3, SumMore, SummedSets
    <2>5. /\ sum(Booked', OrdersIn(k)) = sum(Booked, OrdersIn(k)) + Booked'[i] - Booked[i]
          /\ sum(Paid', OrdersIn(k)) = sum(Paid, OrdersIn(k)) + Paid'[i] - Paid[i]
        BY <1>2, <2>2, <2>3, SumChange, SummedSets
    <2>6. /\ sum(Applying(k), Between(k)) \in Int /\ sum(Charging(k), Between(k)) \in Int
          /\ sum(Booked, OrdersIn(k)) \in Int /\ sum(Paid, OrdersIn(k)) \in Int
          /\ Booked[i] \in Int /\ Paid[i] \in Int /\ Signed(f) * f.price \in Int
        BY <1>1, <2>2, <2>3, SumInt, SummedSets
    <2> HIDE DEF f, i, sum
    <2> QED BY <1>1, <1>2, <2>4, <2>5, <2>6 DEF f, i, sum
<1>4. CASE SymbolOf[i] # k
    <2>1. /\ Between(k)' = Between(k)
          /\ \A g \in Between(k) : Applying(k)'[g] = Applying(k)[g] /\ Charging(k)'[g] = Charging(k)[g]
        BY <1>1, <1>4 DEF Records, Between, Applying, Charging, Signed, Typed, TypeOK
    <2>2. \A j \in OrdersIn(k) : Booked'[j] = Booked[j] /\ Paid'[j] = Paid[j]
        BY <1>2, <1>4 DEF OrdersIn
    <2>3. /\ sum(Applying(k)', Between(k)') = sum(Applying(k), Between(k))
          /\ sum(Charging(k)', Between(k)') = sum(Charging(k), Between(k))
          /\ sum(Booked', OrdersIn(k)) = sum(Booked, OrdersIn(k))
          /\ sum(Paid', OrdersIn(k)) = sum(Paid, OrdersIn(k))
        BY <2>1, <2>2, SumEqual, SummedSets
    <2>4. /\ sum(Applying(k), Between(k)) \in Int /\ sum(Charging(k), Between(k)) \in Int
          /\ sum(Booked, OrdersIn(k)) \in Int /\ sum(Paid, OrdersIn(k)) \in Int
        BY SumInt, SummedSets, Summands DEF OrdersIn
    <2> QED BY <2>3, <2>4
<1> QED BY <1>3, <1>4

(* Apply takes the fill from those in between to the two positions.             *)
LEMMA ApplySums ==
    ASSUME Typed, Typed', NEW h \in Handlers, Apply(h), NEW k \in Symbols
    PROVE  LET f == fill[h]
               s == StrategyOf[f.intent]
               sum(g, S) == SumFunctionOnSet(g, S)
           IN  /\ sum(Booked', OrdersIn(k)) = sum(Booked, OrdersIn(k))
               /\ sum(Paid', OrdersIn(k)) = sum(Paid, OrdersIn(k))
               /\ net'[k].qty - net[k].qty
                      = sum(Applying(k), Between(k)) - sum(Applying(k)', Between(k)')
               /\ net'[k].qty - net[k].qty
                      = sum(Holding(k)', Strategies) - sum(Holding(k), Strategies)
               /\ SymbolOf[f.intent] = k /\ Even(net[k], Signed(f), f.price) =>
                      Cost(net'[k]) - Cost(net[k])
                         = sum(Charging(k), Between(k)) - sum(Charging(k)', Between(k)')
               /\ SymbolOf[f.intent] = k /\ Even(net[k], Signed(f), f.price) /\ Even(pos[s][k], Signed(f), f.price) =>
                      Cost(net'[k]) - Cost(net[k])
                         = sum(Costs(k)', Strategies) - sum(Costs(k), Strategies)
               /\ SymbolOf[f.intent] # k =>
                      /\ net'[k] = net[k]
                      /\ sum(Charging(k)', Between(k)') = sum(Charging(k), Between(k))
                      /\ sum(Costs(k)', Strategies) = sum(Costs(k), Strategies)
<1> DEFINE f == fill[h]
           i == f.intent
           n == Signed(f)
           s == StrategyOf[i]
           sum(g, S) == SumFunctionOnSet(g, S)
<1>1. /\ i \in Intents /\ f.price \in Int /\ hpc[h] = "booked" /\ n \in Int /\ n # 0
      /\ SymbolOf[i] \in Symbols /\ s \in Strategies
    BY FillInHand DEF Apply
<1>2. /\ UNCHANGED <<filled, avgFill>>
      /\ hpc' = [hpc EXCEPT ![h] = "idle"] /\ fill' = [fill EXCEPT ![h] = NoFill]
      /\ pos' = [pos EXCEPT ![s][SymbolOf[i]] = Filled(@, n, f.price)]
      /\ net' = [net EXCEPT ![SymbolOf[i]] = Filled(@, n, f.price)]
    BY DEF Apply, ApplyFill, HandlerDone, orderVars, Signed
<1>9. /\ hpc'[h] = "idle"
      /\ \A g \in Handlers \ {h} : hpc'[g] = hpc[g] /\ fill'[g] = fill[g]
    <2>1. hpc \in [Handlers -> {"idle", "received", "booked"}] /\ fill \in [Handlers -> Fills \cup {NoFill}]
        BY DEF Typed, TypeOK
    <2> HIDE DEF n, f, i, s
    <2> QED BY <1>2, <2>1
<1>3. Booked' = Booked /\ Paid' = Paid
    BY <1>2 DEF Booked, Paid
<1>4. /\ pos[s][k] \in Positions /\ net[k] \in Positions
      /\ pos \in [Strategies -> [Symbols -> Positions]] /\ net \in [Symbols -> Positions]
    BY <1>1 DEF Typed, TypeOK, Positions
<1>5. /\ \A g \in Between(k) : Applying(k)[g] \in Int /\ Charging(k)[g] \in Int
      /\ \A g \in Strategies : /\ Holding(k)[g] \in Int /\ Costs(k)[g] \in Int
                               /\ Holding(k)'[g] \in Int /\ Costs(k)'[g] \in Int
    BY Summands, SummandsAfter
<1>6. /\ sum(Applying(k), Between(k)) \in Int /\ sum(Charging(k), Between(k)) \in Int
      /\ sum(Holding(k), Strategies) \in Int /\ sum(Costs(k), Strategies) \in Int
    BY <1>5, SumInt, SummedSets, ExecutionAssumption
<1>7. CASE SymbolOf[i] = k
    <2>1. /\ h \in Between(k) /\ Between(k)' = Between(k) \ {h}
          /\ \A g \in Between(k) \ {h} : Applying(k)[g] = Applying(k)'[g] /\ Charging(k)[g] = Charging(k)'[g]
          /\ Applying(k)[h] = n /\ Charging(k)[h] = n * f.price
        <3>1. h \in Between(k) /\ Between(k)' = Between(k) \ {h}
            BY <1>1, <1>7, <1>9 DEF Between
        <3>2. \A g \in Between(k) \ {h} : Applying(k)[g] = Applying(k)'[g] /\ Charging(k)[g] = Charging(k)'[g]
            <4>1. \A g \in Between(k) \ {h} : fill'[g] = fill[g]
                BY <1>9 DEF Between
            <4> QED BY <3>1, <4>1 DEF Applying, Charging, Signed
        <3> QED BY <3>1, <3>2 DEF Applying, Charging
    <2>2. /\ sum(Applying(k)', Between(k)') = sum(Applying(k), Between(k)) - n
          /\ sum(Charging(k)', Between(k)') = sum(Charging(k), Between(k)) - n * f.price
        <3> HIDE DEF n, f
        <3>1. IsFiniteSet(Between(k))
            BY SummedSets
        <3>2. sum(Applying(k)', Between(k) \ {h}) = sum(Applying(k), Between(k)) - Applying(k)[h]
            BY <1>5, <2>1, <3>1, SumLess
        <3>3. sum(Charging(k)', Between(k) \ {h}) = sum(Charging(k), Between(k)) - Charging(k)[h]
            <4>1. \A g \in Between(k) : Charging(k)[g] \in Int
                BY <1>5
            <4>2. \A g \in Between(k) \ {h} : Charging(k)[g] = Charging(k)'[g]
                BY <2>1
            <4> DEFINE c == Charging(k)
                       d == Charging(k)'
                       b == Between(k)
            <4>3. IsFiniteSet(b) /\ h \in b /\ (\A g \in b : c[g] \in Int) /\ \A g \in b \ {h} : c[g] = d[g]
                BY <2>1, <3>1, <4>1, <4>2
            <4> HIDE DEF c, d, b
            <4>4. SumFunctionOnSet(d, b \ {h}) = SumFunctionOnSet(c, b) - c[h]
                BY <4>3, SumLess
            <4> QED BY <4>4 DEF c, d, b
        <3> QED BY <2>1, <3>2, <3>3
    <2>3. net'[k] = Filled(net[k], n, f.price) /\ pos'[s][k] = Filled(pos[s][k], n, f.price)
        <3> HIDE DEF n, f, s
        <3> QED BY <1>1, <1>2, <1>4, <1>7
    <2>4. \A g \in Strategies \ {s} : pos'[g][k] = pos[g][k]
        <3> HIDE DEF n, f, s
        <3> QED BY <1>1, <1>2, <1>4, <1>7
    <2>5. /\ net'[k].qty = net[k].qty + n /\ pos'[s][k].qty = pos[s][k].qty + n
          /\ Cost(net[k]) \in Int /\ Cost(net'[k]) \in Int /\ net[k].qty \in Int
          /\ pos[s][k].qty \in Int /\ Cost(pos[s][k]) \in Int
          /\ Even(net[k], n, f.price) => Cost(net'[k]) = Cost(net[k]) + n * f.price
          /\ Even(pos[s][k], n, f.price) => Cost(pos'[s][k]) = Cost(pos[s][k]) + n * f.price
        <3> HIDE DEF n, f, s
        <3>1. net[k] \in Positions /\ pos[s][k] \in Positions /\ n \in Int /\ n # 0 /\ f.price \in Int
            BY <1>1, <1>4
        <3>2. net[k].qty \in Int /\ pos[s][k].qty \in Int
            BY <3>1 DEF Positions
        <3>3. /\ net'[k].qty = net[k].qty + n /\ Cost(net[k]) \in Int /\ Cost(net'[k]) \in Int
              /\ Even(net[k], n, f.price) => Cost(net'[k]) = Cost(net[k]) + n * f.price
            <4> DEFINE x == net[k]
                       p == f.price
            <4>1. x \in Positions /\ n \in Int /\ n # 0 /\ p \in Int /\ net'[k] = Filled(x, n, p)
                BY <2>3, <3>1
            <4> HIDE DEF x, p
            <4>2. /\ Filled(x, n, p).qty = x.qty + n /\ Cost(x) \in Int /\ Cost(Filled(x, n, p)) \in Int
                  /\ Even(x, n, p) => Cost(Filled(x, n, p)) = Cost(x) + n * p
                BY <4>1, FillCosts
            <4> QED BY <4>1, <4>2 DEF x, p
        <3>4. /\ pos'[s][k].qty = pos[s][k].qty + n /\ Cost(pos[s][k]) \in Int /\ Cost(pos'[s][k]) \in Int
              /\ Even(pos[s][k], n, f.price) => Cost(pos'[s][k]) = Cost(pos[s][k]) + n * f.price
            <4> DEFINE x == pos[s][k]
                       p == f.price
            <4>1. x \in Positions /\ n \in Int /\ n # 0 /\ p \in Int /\ pos'[s][k] = Filled(x, n, p)
                BY <2>3, <3>1
            <4> HIDE DEF x, p
            <4>2. /\ Filled(x, n, p).qty = x.qty + n /\ Cost(x) \in Int /\ Cost(Filled(x, n, p)) \in Int
                  /\ Even(x, n, p) => Cost(Filled(x, n, p)) = Cost(x) + n * p
                BY <4>1, FillCosts
            <4> QED BY <4>1, <4>2 DEF x, p
        <3> QED BY <3>2, <3>3, <3>4
    <2>6. /\ \A g \in Strategies \ {s} : Holding(k)[g] = Holding(k)'[g] /\ Costs(k)[g] = Costs(k)'[g]
          /\ Holding(k)[s] = pos[s][k].qty /\ Holding(k)'[s] = pos'[s][k].qty
          /\ Costs(k)[s] = Cost(pos[s][k]) /\ Costs(k)'[s] = Cost(pos'[s][k])
        <3> HIDE DEF s
        <3> QED BY <1>1, <2>4 DEF Holding, Costs, Cost
    <2>7. /\ sum(Holding(k)', Strategies) = sum(Holding(k), Strategies) + Holding(k)'[s] - Holding(k)[s]
          /\ sum(Costs(k)', Strategies) = sum(Costs(k), Strategies) + Costs(k)'[s] - Costs(k)[s]
        <3> HIDE DEF s
        <3> QED BY <1>1, <1>5, <2>6, SumChange, ExecutionAssumption
    <2>8. n * f.price \in Int
        <3> HIDE DEF n, f
        <3> QED BY <1>1
    <2> HIDE DEF sum, n, f, i, s
    <2>9. /\ net'[k].qty - net[k].qty = n
          /\ sum(Applying(k), Between(k)) - sum(Applying(k)', Between(k)') = n
          /\ sum(Holding(k)', Strategies) - sum(Holding(k), Strategies) = n
        BY <1>1, <1>6, <2>2, <2>5, <2>6, <2>7
    <2>10. /\ sum(Charging(k), Between(k)) - sum(Charging(k)', Between(k)') = n * f.price
           /\ Even(net[k], n, f.price) => Cost(net'[k]) - Cost(net[k]) = n * f.price
           /\ Even(pos[s][k], n, f.price) =>
                  sum(Costs(k)', Strategies) - sum(Costs(k), Strategies) = n * f.price
        BY <1>1, <1>6, <2>2, <2>5, <2>6, <2>7, <2>8
    <2> QED BY <1>3, <1>7, <2>9, <2>10 DEF sum, n, f, i, s
<1>8. CASE SymbolOf[i] # k
    <2>1. /\ Between(k)' = Between(k)
          /\ \A g \in Between(k) : Applying(k)[g] = Applying(k)'[g] /\ Charging(k)[g] = Charging(k)'[g]
        <3>1. Between(k)' = Between(k)
            BY <1>1, <1>8, <1>9 DEF Between
        <3>2. \A g \in Between(k) : fill'[g] = fill[g]
            BY <1>8, <1>9 DEF Between
        <3> QED BY <3>1, <3>2 DEF Applying, Charging, Signed
    <2>2. net'[k] = net[k] /\ \A g \in Strategies : pos'[g][k] = pos[g][k]
        <3> HIDE DEF n, f, s
        <3> QED BY <1>1, <1>2, <1>4, <1>8
    <2>3. \A g \in Strategies : Holding(k)[g] = Holding(k)'[g] /\ Costs(k)[g] = Costs(k)'[g]
        BY <2>2 DEF Holding, Costs, Cost
    <2>4. /\ sum(Applying(k)', Between(k)') = sum(Applying(k), Between(k))
          /\ sum(Charging(k)', Between(k)') = sum(Charging(k), Between(k))
          /\ sum(Holding(k)', Strategies) = sum(Holding(k), Strategies)
          /\ sum(Costs(k)', Strategies) = sum(Costs(k), Strategies)
        BY <2>1, <2>3, SumEqual, SummedSets, ExecutionAssumption
    <2>5. net[k].qty \in Int
        BY <1>4 DEF Positions
    <2> QED BY <1>3, <1>6, <1>8, <2>2, <2>4, <2>5
<1> QED BY <1>7, <1>8

\* Nothing is owed or held at first.
LEMMA BooksStart ==
    ASSUME Init
    PROVE  QuantitiesAgree /\ BooksAgree /\ NettingConserves
<1> SUFFICES ASSUME NEW k \in Symbols
             PROVE  /\ SumFunctionOnSet(Booked, OrdersIn(k)) = 0 /\ SumFunctionOnSet(Paid, OrdersIn(k)) = 0
                    /\ SumFunctionOnSet(Applying(k), Between(k)) = 0
                    /\ SumFunctionOnSet(Charging(k), Between(k)) = 0
                    /\ SumFunctionOnSet(Holding(k), Strategies) = 0
                    /\ SumFunctionOnSet(Costs(k), Strategies) = 0
                    /\ net[k].qty = 0 /\ Cost(net[k]) = 0
    BY DEF QuantitiesAgree, BooksAgree, NettingConserves
<1>1. net[k].qty = 0 /\ Cost(net[k]) = 0
    BY DEF Init, Flat, Cost
<1>2. Between(k) = {}
    BY DEF Init, Between
<1>3. \A i \in OrdersIn(k) : Booked[i] = 0 /\ Paid[i] = 0
    <2> SUFFICES ASSUME NEW i \in Intents PROVE Booked[i] = 0 /\ Paid[i] = 0
        BY DEF OrdersIn
    <2>1. Direction[i] \in {1, -1} /\ filled[i] = 0 /\ avgFill[i] = 0
        BY ExecutionAssumption DEF Init
    <2> QED BY <2>1 DEF Booked, Paid
<1>4. \A s \in Strategies : Holding(k)[s] = 0 /\ Costs(k)[s] = 0
    BY DEF Init, Flat, Cost, Holding, Costs
<1> QED BY <1>1, <1>2, <1>3, <1>4, SumZero, SumEmpty, SummedSets, ExecutionAssumption

(* No other step moves a sum.                                                  *)
LEMMA SumsStay ==
    ASSUME Typed, NEW k \in Symbols, UNCHANGED <<filled, avgFill, pos, net>>,
           \A h \in Handlers : (hpc[h] = "booked") = (hpc'[h] = "booked"),
           \A h \in Handlers : hpc[h] = "booked" => fill'[h] = fill[h]
    PROVE  /\ Booked' = Booked /\ Paid' = Paid /\ Between(k)' = Between(k)
           /\ Applying(k)' = Applying(k) /\ Charging(k)' = Charging(k)
           /\ Holding(k)' = Holding(k) /\ Costs(k)' = Costs(k) /\ net' = net
<1>1. Between(k)' = Between(k)
    BY DEF Between
<1>2. \A h \in Between(k) : fill'[h] = fill[h]
    BY DEF Between
<1> QED BY <1>1, <1>2 DEF Booked, Paid, Applying, Charging, Signed, Holding, Costs, Cost

(* The equations on quantities after a step, for the sums of before.            *)
LEMMA QuantitiesStep == Typed /\ Typed' /\ QuantitiesAgree /\ [Next]_vars => QuantitiesAgree'
<1> SUFFICES ASSUME Typed, Typed', QuantitiesAgree, [Next]_vars, NEW k \in Symbols
             PROVE  /\ SumFunctionOnSet(Booked', OrdersIn(k))
                           = net'[k].qty + SumFunctionOnSet(Applying(k)', Between(k)')
                    /\ SumFunctionOnSet(Holding(k)', Strategies) = net'[k].qty
    BY DEF QuantitiesAgree, OrdersIn
<1>1. /\ SumFunctionOnSet(Booked, OrdersIn(k))
             = net[k].qty + SumFunctionOnSet(Applying(k), Between(k))
      /\ SumFunctionOnSet(Holding(k), Strategies) = net[k].qty
    BY DEF QuantitiesAgree
<1>2. /\ net[k].qty \in Int /\ net'[k].qty \in Int
      /\ SumFunctionOnSet(Booked, OrdersIn(k)) \in Int /\ SumFunctionOnSet(Booked', OrdersIn(k)) \in Int
      /\ SumFunctionOnSet(Holding(k)', Strategies) \in Int
      /\ SumFunctionOnSet(Applying(k), Between(k)) \in Int
      /\ SumFunctionOnSet(Applying(k)', Between(k)') \in Int
    <2>1. OrdersIn(k) \subseteq Intents
        BY DEF OrdersIn
    <2> QED BY <2>1, Summands, SummandsAfter, SumInt, SummedSets, ExecutionAssumption DEF Typed, TypeOK
<1>3. CASE /\ UNCHANGED <<filled, avgFill, pos, net>>
           /\ \A h \in Handlers : (hpc[h] = "booked") = (hpc'[h] = "booked")
           /\ \A h \in Handlers : hpc[h] = "booked" => fill'[h] = fill[h]
    BY <1>1, <1>3, SumsStay
<1>4. ASSUME NEW h \in Handlers, Records(h)
      PROVE  /\ SumFunctionOnSet(Booked', OrdersIn(k))
                    = net'[k].qty + SumFunctionOnSet(Applying(k)', Between(k)')
             /\ SumFunctionOnSet(Holding(k)', Strategies) = net'[k].qty
    <2>1. UNCHANGED <<net, pos>> /\ Holding(k)' = Holding(k)
        BY <1>4 DEF Records, Holding
    <2> QED BY <1>1, <1>2, <1>4, <2>1, RecordSums
<1>5. ASSUME NEW h \in Handlers, Apply(h)
      PROVE  /\ SumFunctionOnSet(Booked', OrdersIn(k))
                    = net'[k].qty + SumFunctionOnSet(Applying(k)', Between(k)')
             /\ SumFunctionOnSet(Holding(k)', Strategies) = net'[k].qty
    BY <1>1, <1>2, <1>5, ApplySums
<1> QED BY <1>3, <1>4, <1>5, BookMoves

(* The equations on costs after a step that leaves no remainder.                *)
LEMMA CostsStep ==
    Typed /\ Typed' /\ NoRemainder /\ BooksAgree /\ NettingConserves /\ QuantitiesAgree' /\ [Next]_vars
        => BooksAgree' /\ NettingConserves'
<1> SUFFICES ASSUME Typed, Typed', NoRemainder, BooksAgree, NettingConserves, [Next]_vars,
                    NEW k \in Symbols
             PROVE  /\ SumFunctionOnSet(Paid', OrdersIn(k))
                           = Cost(net'[k]) + SumFunctionOnSet(Charging(k)', Between(k)')
                    /\ SumFunctionOnSet(Costs(k)', Strategies) = Cost(net'[k])
    BY DEF QuantitiesAgree, BooksAgree, NettingConserves, OrdersIn
<1>1. /\ SumFunctionOnSet(Paid, OrdersIn(k))
             = Cost(net[k]) + SumFunctionOnSet(Charging(k), Between(k))
      /\ SumFunctionOnSet(Costs(k), Strategies) = Cost(net[k])
    BY DEF BooksAgree, NettingConserves
<1>2. /\ Cost(net[k]) \in Int /\ Cost(net'[k]) \in Int
      /\ SumFunctionOnSet(Paid, OrdersIn(k)) \in Int /\ SumFunctionOnSet(Paid', OrdersIn(k)) \in Int
      /\ SumFunctionOnSet(Costs(k)', Strategies) \in Int
      /\ SumFunctionOnSet(Charging(k), Between(k)) \in Int
      /\ SumFunctionOnSet(Charging(k)', Between(k)') \in Int
    <2>1. OrdersIn(k) \subseteq Intents
        BY DEF OrdersIn
    <2>2. net[k] \in [qty : Int, avg : Int, pnl : Int] /\ net'[k] \in [qty : Int, avg : Int, pnl : Int]
        BY DEF Typed, TypeOK
    <2>3. Cost(net[k]) \in Int /\ Cost(net'[k]) \in Int
        BY <2>2 DEF Cost
    <2> QED BY <2>1, <2>3, Summands, SummandsAfter, SumInt, SummedSets, ExecutionAssumption
<1>3. CASE /\ UNCHANGED <<filled, avgFill, pos, net>>
           /\ \A h \in Handlers : (hpc[h] = "booked") = (hpc'[h] = "booked")
           /\ \A h \in Handlers : hpc[h] = "booked" => fill'[h] = fill[h]
    BY <1>1, <1>3, SumsStay
<1>4. ASSUME NEW h \in Handlers, Records(h)
      PROVE  /\ SumFunctionOnSet(Paid', OrdersIn(k))
                    = Cost(net'[k]) + SumFunctionOnSet(Charging(k)', Between(k)')
             /\ SumFunctionOnSet(Costs(k)', Strategies) = Cost(net'[k])
    <2>1. UNCHANGED <<net, pos>> /\ Costs(k)' = Costs(k)
        BY <1>4 DEF Records, Costs, Cost
    <2>2. Divides(filled[fill[h].intent], avgFill[fill[h].intent], fill[h].qty, fill[h].price)
        BY <1>4 DEF Records, NoRemainder
    <2> QED BY <1>1, <1>2, <1>4, <2>1, <2>2, RecordSums
<1>5. ASSUME NEW h \in Handlers, Apply(h)
      PROVE  /\ SumFunctionOnSet(Paid', OrdersIn(k))
                    = Cost(net'[k]) + SumFunctionOnSet(Charging(k)', Between(k)')
             /\ SumFunctionOnSet(Costs(k)', Strategies) = Cost(net'[k])
    <2> DEFINE f == fill[h]
    <2>1. /\ Even(net[SymbolOf[f.intent]], Signed(f), f.price)
          /\ Even(pos[StrategyOf[f.intent]][SymbolOf[f.intent]], Signed(f), f.price)
        BY <1>5 DEF Apply, NoRemainder
    <2>2. SumFunctionOnSet(Paid', OrdersIn(k)) = SumFunctionOnSet(Paid, OrdersIn(k))
        BY <1>5, ApplySums
    <2>3. CASE SymbolOf[f.intent] = k
        <3>1. /\ Cost(net'[k]) - Cost(net[k]) = SumFunctionOnSet(Charging(k), Between(k))
                                                 - SumFunctionOnSet(Charging(k)', Between(k)')
              /\ Cost(net'[k]) - Cost(net[k]) = SumFunctionOnSet(Costs(k)', Strategies)
                                                 - SumFunctionOnSet(Costs(k), Strategies)
            BY <1>5, <2>1, <2>3, ApplySums
        <3> QED BY <1>1, <1>2, <2>2, <3>1
    <2>4. CASE SymbolOf[f.intent] # k
        BY <1>1, <1>5, <2>2, <2>4, ApplySums
    <2> QED BY <2>3, <2>4
<1> QED BY <1>3, <1>4, <1>5, BookMoves

(* Whatever fills come, also twice, too large or for orders that take none any   *)
(* more, and however many handlers are between the two locks: a fill counts      *)
(* once in its order, once in the position of its strategy and once in the      *)
(* netted position (QuantitiesAgree).                                          *)
THEOREM QuantitiesConserved == Spec => []QuantitiesAgree
<1>1. Init => QuantitiesAgree
    BY BooksStart
<1> QED BY <1>1, QuantitiesStep, TypeInvariant, PTL DEF Spec

\* The two properties of costs are an invariant together.
LEMMA CostsConserved == Spec /\ []NoRemainder => [](BooksAgree /\ NettingConserves)
<1>1. Init => BooksAgree /\ NettingConserves
    BY BooksStart
<1> QED BY <1>1, QuantitiesConserved, CostsStep, TypeInvariant, PTL DEF Spec

(* As long as the prices leave no remainder in the averages, orders and netted    *)
(* positions also agree on what was paid (BooksAgree), through additions,         *)
(* partial closes and turns.                                                   *)
THEOREM BooksConserved == Spec /\ []NoRemainder => []BooksAgree
BY CostsConserved, PTL

(* Under the same condition the positions of the strategies add up to the netted  *)
(* one in cost as well (NettingConserves), although each of them turns at fills   *)
(* of its own.                                                                 *)
THEOREM NettingIsConserved == Spec /\ []NoRemainder => []NettingConserves
BY CostsConserved, PTL

-----------------------------------------------------------------------------
(* Halts                                                                   *)

(* The stages of Execute from which an order still goes out under halt x.        *)
Passed(x) == IF x = "kill" THEN {"frozen", "limits", "insert", "submit", "route"}
             ELSE {"insert", "submit", "route"}

(* Who has sent an order since the halt is not past the risk check any more.      *)
Halting ==
    \A x \in Halts, t \in Traders :
        /\ ~Halted(x) => late[x][t] = 0
        /\ late[x][t] <= 1
        /\ late[x][t] = 1 => xpc[t] \notin Passed(x)

(* Nobody gets past the check of a halt that is in force.                        *)
LEMMA HaltMoves ==
    ASSUME Typed, NEW t \in Traders, Execute(t)
    PROVE  /\ UNCHANGED riskVars
           /\ \/ /\ UNCHANGED late
                 /\ \A x \in Halts : Halted(x) /\ xpc'[t] \in Passed(x) => xpc[t] \in Passed(x)
              \/ /\ xpc[t] = "route" /\ xpc'[t] \in {"ack", "reject"}
                 /\ late' = [x \in Halts |-> IF Halted(x) THEN [late[x] EXCEPT ![t] = @ + 1]
                                           ELSE late[x]]
<1> USE DEF historyVars, Goto, NextIntent, Typed, TypeOK, Halts, Halted, Passed
<1>1. ASSUME NEW intents \in SUBSET Intents \ {{}}, Signal(t, intents)
      PROVE  UNCHANGED riskVars /\ UNCHANGED late /\ xpc'[t] = "next"
    BY <1>1 DEF Signal
<1>2. ASSUME NEW i \in Intents, Lookup(t, i)
      PROVE  UNCHANGED riskVars /\ UNCHANGED late /\ xpc'[t] \in {"next", "killed"}
    BY <1>2 DEF Lookup
<1>3. ASSUME Finish(t) \/ Answer(t)
      PROVE  UNCHANGED riskVars /\ UNCHANGED late /\ xpc'[t] \in {"next", "idle"}
    BY <1>3 DEF Finish, Answer
<1>4. CASE RiskCheck(t)
    <2>1. UNCHANGED riskVars /\ UNCHANGED late
        BY <1>4 DEF RiskCheck, Check
    <2>2. \/ xpc'[t] = "next"
          \/ xpc[t] = "killed" /\ ~killed /\ xpc'[t] = "frozen"
          \/ xpc[t] = "frozen" /\ xpc'[t] = "limits"
          \/ xpc[t] = "limits" /\ ~breached /\ xpc'[t] = "insert"
        BY <1>4 DEF RiskCheck, Check, Denied
    <2> QED BY <2>1, <2>2
<1>5. CASE Insert(t)
    BY <1>5 DEF Insert
<1>6. CASE Submit(t)
    BY <1>6 DEF Submit
<1>7. ASSUME NEW outcome \in {"accepted", "lost", "refused"}, Route(t, outcome)
      PROVE  /\ UNCHANGED riskVars /\ xpc[t] = "route" /\ xpc'[t] \in {"ack", "reject"}
             /\ \/ UNCHANGED late
                \/ late' = [x \in Halts |-> IF Halted(x) THEN [late[x] EXCEPT ![t] = @ + 1]
                                          ELSE late[x]]
    BY <1>7 DEF Route
<1> HIDE DEF Typed, TypeOK, Halted
<1> QED BY <1>1, <1>2, <1>3, <1>4, <1>5, <1>6, <1>7 DEF Execute

(* While the kill switch is on or the daily loss is beyond its limit, each        *)
(* goroutine sends at most one order (HaltBounded), for any number of             *)
(* goroutines and whoever resumes: a resume clears the freeze, not the kill and   *)
(* not the loss.                                                                *)
THEOREM HaltIsBounded == Spec => []HaltBounded
<1>1. Init => Halting
    BY DEF Init, Halting, Halted, Halts
<1>2. Typed /\ Halting /\ [Next]_vars => Halting'
    <2> SUFFICES ASSUME Typed, Halting, [Next]_vars PROVE Halting'
        OBVIOUS
    <2>0. late \in [Halts -> [Traders -> Nat]]
        BY DEF Typed, TypeOK
    <2>1. ASSUME NEW t \in Traders, Execute(t) PROVE Halting'
        <3>1. \A u \in Traders : u # t => xpc'[u] = xpc[u]
            BY <2>1, ExecuteMoves
        <3>2. \A x \in Halts : Halted(x)' = Halted(x) /\ Passed(x)' = Passed(x)
            BY <2>1, HaltMoves DEF riskVars, Halted, Passed
        <3>3. CASE /\ UNCHANGED late
                   /\ \A x \in Halts : Halted(x) /\ xpc'[t] \in Passed(x) => xpc[t] \in Passed(x)
            BY <3>1, <3>2, <3>3 DEF Halting
        <3>4. CASE /\ xpc[t] = "route" /\ xpc'[t] \in {"ack", "reject"}
                   /\ late' = [x \in Halts |-> IF Halted(x) THEN [late[x] EXCEPT ![t] = @ + 1]
                                             ELSE late[x]]
            <4> SUFFICES ASSUME NEW x \in Halts, NEW u \in Traders
                         PROVE  /\ ~Halted(x)' => late'[x][u] = 0
                                /\ late'[x][u] <= 1
                                /\ late'[x][u] = 1 => xpc'[u] \notin Passed(x)
                BY DEF Halting, Passed
            <4>1. late[x] \in [Traders -> Nat]
                BY <2>0
            <4>2. CASE u = t /\ Halted(x)
                <5>1. late[x][t] = 0
                    BY <3>4, <4>1 DEF Halting, Passed, Halts
                <5>2. late'[x][t] = 1
                    BY <3>4, <4>1, <4>2, <5>1
                <5> QED BY <3>2, <3>4, <4>2, <5>2 DEF Passed
            <4>3. CASE u # t \/ ~Halted(x)
                <5>1. late'[x][u] = late[x][u]
                    BY <3>4, <4>1, <4>3
                <5>2. u = t => late[x][u] = 0
                    BY <4>3 DEF Halting
                <5> QED BY <3>1, <3>2, <5>1, <5>2 DEF Halting
            <4> QED BY <4>2, <4>3
        <3> QED BY <2>1, <3>3, <3>4, HaltMoves
    <2>2. CASE ~(\E t \in Traders : Execute(t))
        <3>1. UNCHANGED xpc
            BY <2>2, OutsideExecute
        <3>2. CASE UNCHANGED <<killed, breached, late>>
            BY <3>1, <3>2 DEF Halting, Halted, Passed
        <3>3. CASE Kill
            BY <3>1, <3>3 DEF Kill, Halting, Halted, Passed
        <3>4. CASE UpdatePnL
            <4>1. /\ late'["loss"] = [u \in Traders |-> 0] /\ late'["kill"] = late["kill"]
                  /\ UNCHANGED killed
                BY <2>0, <3>4 DEF UpdatePnL, Halts
            <4> QED BY <3>1, <4>1 DEF Halting, Halted, Passed, Halts
        <3>5. \/ UNCHANGED <<killed, breached, late>> \/ Kill \/ UpdatePnL
            BY <2>2 DEF Next, vars, riskVars, historyVars, HandleFill, Receive, Book, Apply,
                        Cancel, RequestCancel, AdapterCancels, CancelAnswer, Risk, Freeze,
                        Resume, ExchangeFills
        <3> QED BY <3>2, <3>3, <3>4, <3>5
    <2> QED BY <2>1, <2>2
<1>3. Typed /\ Halting => HaltBounded
    BY DEF Halting, HaltBounded
<1> QED BY <1>1, <1>2, <1>3, TypeInvariant, PTL DEF Spec
=============================================================================
