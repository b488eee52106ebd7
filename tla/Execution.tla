------------------------------ MODULE Execution ------------------------------
(***************************************************************************)
(* Order execution (execution/engine.go, order_sm.go, position.go) behind    *)
(* the pre-trade risk engine (risk/engine.go).                               *)
(*                                                                         *)
(* Any number of goroutines call Execute with signals that carry intents,    *)
(* also the same intent; others call HandleFill and CancelOrder.  Each        *)
(* critical section of Engine, Order and PositionManager, each atomic load   *)
(* and each call of the adapter is a step.  What the exchange does is        *)
(* external: it may fill an order in pieces, tell of them in any order,       *)
(* before SubmitOrder has returned, and twice.                               *)
(*                                                                         *)
(* Left out: target_position signals (which create intents), the producer,   *)
(* fees.  The limits on exposure, notional and position size are a free       *)
(* choice of the risk check; Freeze and Resume and the daily loss are not.    *)
(***************************************************************************)
EXTENDS PositionBook, FiniteSetsExt

CONSTANTS
    Intents,         \* intent IDs
    Strategies, Symbols,
    StrategyOf, SymbolOf,  \* of an intent; a symbol stands for "exchange.symbol"
    Direction,       \* of an intent: 1 buys, -1 sells
    Qty,             \* of an intent
    Prices,          \* at which the exchange fills
    Traders,         \* goroutines calling Execute
    Handlers,        \* goroutines calling HandleFill
    Cancellers,      \* goroutines calling CancelOrder
    DryRun,
    MayRepeat,       \* fills can be delivered again
    Switches,        \* bound: which of the risk engine's switches are used;
                     \* "early kill" is a kill before the first submission
    NoIntent

ASSUME ExecutionAssumption ==
    /\ StrategyOf \in [Intents -> Strategies] /\ SymbolOf \in [Intents -> Symbols]
    /\ Direction \in [Intents -> {1, -1}] /\ Qty \in [Intents -> Nat \ {0}]
    /\ Prices \subseteq Int
    /\ IsFiniteSet(Intents) /\ IsFiniteSet(Strategies) /\ IsFiniteSet(Handlers)
    /\ {DryRun, MayRepeat} \subseteq BOOLEAN /\ NoIntent \notin Intents

VARIABLES
    state, before,     \* Order.State ("NONE": not in orders), stateBeforeCancel
    filled, avgFill,   \* FilledQty, AvgFillPrice
    pos, net,          \* positions, globalPos
    killed, frozen, breached,  \* risk.Engine; dailyPnL is below the limit
    xpc, todo, cur,    \* per trader: stage in Execute, intents left, intent at hand
    hpc, fill, event,  \* per handler: stage in HandleFill, the fill, its event
    cpc, order,        \* per canceller: stage in CancelOrder, its intent
    market, executed,  \* external: the order at the exchange, how much it filled
    feed,              \* external: fills the exchange has told of
    sent, late         \* history: submissions of an intent; of a trader since each halt

orderVars == <<state, before, filled, avgFill>>
bookVars == <<pos, net>>
riskVars == <<killed, frozen, breached>>
executeVars == <<xpc, todo, cur>>
handleVars == <<hpc, fill, event>>
cancelVars == <<cpc, order>>
marketVars == <<market, executed, feed>>
historyVars == <<sent, late>>
vars == <<orderVars, bookVars, riskVars, executeVars, handleVars, cancelVars,
          marketVars, historyVars>>

States == {"NONE", "CREATED", "SUBMITTED", "ACKED", "PARTIAL", "FILLED", "REJECTED",
           "CANCEL_PENDING", "CANCELLED"}
Terminal == {"FILLED", "REJECTED", "CANCELLED"}
ExecuteStages == {"idle", "next", "killed", "frozen", "limits", "insert", "submit", "route",
                  "ack", "reject"}
Fills == [intent : Intents, at : Nat, qty : Nat \ {0}, price : Prices]
NoFill == [intent |-> NoIntent]
Halts == {"kill", "loss"}

Init ==
    /\ state = [i \in Intents |-> "NONE"] /\ before = [i \in Intents |-> "NONE"]
    /\ filled = [i \in Intents |-> 0] /\ avgFill = [i \in Intents |-> 0]
    /\ pos = [s \in Strategies |-> [k \in Symbols |-> Flat]]
    /\ net = [k \in Symbols |-> Flat]
    /\ killed = FALSE /\ frozen = FALSE /\ breached = FALSE
    /\ xpc = [t \in Traders |-> "idle"] /\ todo = [t \in Traders |-> {}]
    /\ cur = [t \in Traders |-> NoIntent]
    /\ hpc = [h \in Handlers |-> "idle"] /\ fill = [h \in Handlers |-> NoFill]
    /\ event = [h \in Handlers |-> "FILL"]
    /\ cpc = [c \in Cancellers |-> "idle"] /\ order = [c \in Cancellers |-> NoIntent]
    /\ market = [i \in Intents |-> "none"] /\ executed = [i \in Intents |-> 0]
    /\ feed = {}
    /\ sent = [i \in Intents |-> 0] /\ late = [x \in Halts |-> [t \in Traders |-> 0]]

-----------------------------------------------------------------------------
(* Order.Transition                                                        *)

\* transitions, without the edge of CANCEL_REJECT, which the engine never sends.
After(s, e) ==
    CASE s = "CREATED" /\ e = "SUBMIT" -> "SUBMITTED"
      [] s = "SUBMITTED" /\ e = "ACK" -> "ACKED"
      [] s = "SUBMITTED" /\ e = "REJECT" -> "REJECTED"
      [] s \in {"ACKED", "PARTIAL"} /\ e = "PARTIAL_FILL" -> "PARTIAL"
      [] s \in {"ACKED", "PARTIAL", "CANCEL_PENDING"} /\ e = "FILL" -> "FILLED"
      [] s \in {"ACKED", "PARTIAL"} /\ e = "REQUEST_CANCEL" -> "CANCEL_PENDING"
      [] s = "CANCEL_PENDING" /\ e = "CANCEL_ACK" -> "CANCELLED"
      [] OTHER -> "INVALID"

Valid(i, e) == After(state[i], e) # "INVALID"
Advance(i, e) == state' = [state EXCEPT ![i] = After(@, e)]

\* A transition without a fill; an invalid one changes nothing.
Transition(i, e) ==
    /\ IF Valid(i, e) THEN Advance(i, e) ELSE UNCHANGED state
    /\ UNCHANGED <<before, filled, avgFill>>

\* Mutant: it does not.
FitsAlways(i, q) == TRUE

\* recordFill refuses a fill that is too large.
Fits(i, q) == filled[i] + q <= Qty[i]

RecordFill(i, q, p) ==
    /\ filled' = [filled EXCEPT ![i] = @ + q]
    /\ avgFill' = [avgFill EXCEPT ![i] = Weighted(filled[i], @, q, p)]

-----------------------------------------------------------------------------
(* Execute                                                                 *)

Goto(t, stage) == xpc' = [xpc EXCEPT ![t] = stage]

\* A signal with some intents.
Signal(t, intents) ==
    /\ xpc[t] = "idle"
    /\ Goto(t, "next") /\ todo' = [todo EXCEPT ![t] = intents]
    /\ UNCHANGED <<cur, orderVars, bookVars, riskVars, handleVars, cancelVars,
                   marketVars, historyVars>>

\* Execute goes on with the next intent, whatever became of the one before.
NextIntent(t) ==
    /\ Goto(t, "next") /\ cur' = [cur EXCEPT ![t] = NoIntent]
    /\ UNCHANGED todo

\* The first look for a duplicate, under the read lock.
Lookup(t, i) ==
    /\ xpc[t] = "next" /\ i \in todo[t]
    /\ todo' = [todo EXCEPT ![t] = @ \ {i}]
    /\ IF state[i] # "NONE" THEN UNCHANGED <<xpc, cur>>
       ELSE Goto(t, "killed") /\ cur' = [cur EXCEPT ![t] = i]
    /\ UNCHANGED <<orderVars, bookVars, riskVars, handleVars, cancelVars, marketVars,
                   historyVars>>

Finish(t) ==
    /\ xpc[t] = "next" /\ todo[t] = {}
    /\ Goto(t, "idle")
    /\ UNCHANGED <<todo, cur, orderVars, bookVars, riskVars, handleVars, cancelVars,
                   marketVars, historyVars>>

\* Mutant: the kill switch freezes only.
DeniedUnlessKilled(stage) == (stage = "frozen" /\ frozen) \/ (stage = "limits" /\ breached)

\* risk.Check loads killed, then frozen, then takes the lock for the limits.
Denied(stage) ==
    \/ stage = "killed" /\ killed
    \/ stage = "frozen" /\ frozen
    \/ stage = "limits" /\ breached

\* The other limits may deny any intent.
Check(t, stage, following) ==
    /\ xpc[t] = stage
    /\ \/ (Denied(stage) \/ stage = "limits") /\ NextIntent(t)
       \/ ~Denied(stage) /\ Goto(t, following) /\ UNCHANGED <<todo, cur>>
    /\ UNCHANGED <<orderVars, bookVars, riskVars, handleVars, cancelVars, marketVars,
                   historyVars>>

RiskCheck(t) ==
    \/ Check(t, "killed", "frozen")
    \/ Check(t, "frozen", "limits")
    \/ Check(t, "limits", "insert")

\* Mutant: no second look.
IsNewAlways(i) == TRUE

\* The second look for a duplicate, under the write lock that inserts the order.
IsNew(i) == state[i] = "NONE"

Insert(t) ==
    LET i == cur[t] IN
    /\ xpc[t] = "insert"
    /\ IF IsNew(i)
       THEN /\ state' = [state EXCEPT ![i] = "CREATED"]
            /\ Goto(t, "submit") /\ UNCHANGED <<todo, cur>>
       ELSE NextIntent(t) /\ UNCHANGED state
    /\ UNCHANGED <<before, filled, avgFill, bookVars, riskVars, handleVars, cancelVars,
                   marketVars, historyVars>>

Submit(t) ==
    /\ xpc[t] = "submit" /\ Transition(cur[t], "SUBMIT")
    /\ Goto(t, IF DryRun THEN "ack" ELSE "route") /\ UNCHANGED <<todo, cur>>
    /\ UNCHANGED <<bookVars, riskVars, handleVars, cancelVars, marketVars, historyVars>>

\* The halts in force: the kill switch, and a daily loss beyond its limit.
Halted(x) == (x = "kill" /\ killed) \/ (x = "loss" /\ breached)

\* adapter.SubmitOrder: accepted, or accepted and the answer lost, or refused (or
\* no adapter).
Route(t, outcome) ==
    LET i == cur[t] IN
    /\ xpc[t] = "route"
    /\ IF outcome = "refused" THEN UNCHANGED <<market, historyVars>>
       ELSE /\ market' = [market EXCEPT ![i] = "live"]
            /\ sent' = [sent EXCEPT ![i] = @ + 1]
            /\ late' = [x \in Halts |-> IF Halted(x) THEN [late[x] EXCEPT ![t] = @ + 1]
                                      ELSE late[x]]
    /\ Goto(t, IF outcome = "accepted" THEN "ack" ELSE "reject") /\ UNCHANGED <<todo, cur>>
    /\ UNCHANGED <<executed, feed, orderVars, bookVars, riskVars, handleVars, cancelVars>>

\* The order learns what the adapter answered.
Answer(t) ==
    /\ \/ xpc[t] = "ack" /\ Transition(cur[t], "ACK")
       \/ xpc[t] = "reject" /\ Transition(cur[t], "REJECT")
    /\ NextIntent(t)
    /\ UNCHANGED <<bookVars, riskVars, handleVars, cancelVars, marketVars, historyVars>>

Execute(t) ==
    \/ \E intents \in SUBSET Intents \ {{}} : Signal(t, intents)
    \/ \E i \in Intents : Lookup(t, i)
    \/ Finish(t) \/ RiskCheck(t) \/ Insert(t) \/ Submit(t) \/ Answer(t)
    \/ \E outcome \in {"accepted", "lost", "refused"} : Route(t, outcome)

-----------------------------------------------------------------------------
(* HandleFill                                                              *)

\* Mutant: off by one.
FillEventEarly(remaining, q) == IF q + 1 >= remaining THEN "FILL" ELSE "PARTIAL_FILL"

\* Does a fill of q complete an order of which this much remains?
FillEvent(remaining, q) == IF q >= remaining THEN "FILL" ELSE "PARTIAL_FILL"

\* A fill is delivered; its event is decided from what remains now.
Receive(h, f) ==
    /\ hpc[h] = "idle" /\ f \in feed
    /\ hpc' = [hpc EXCEPT ![h] = "received"]
    /\ fill' = [fill EXCEPT ![h] = f]
    /\ event' = [event EXCEPT ![h] = FillEvent(Qty[f.intent] - filled[f.intent], f.qty)]
    /\ feed' \in {feed \ {f}} \cup IF MayRepeat THEN {feed} ELSE {}
    /\ UNCHANGED <<market, executed, orderVars, bookVars, riskVars, executeVars, cancelVars,
                   historyVars>>

HandlerDone(h) ==
    /\ hpc' = [hpc EXCEPT ![h] = "idle"] /\ fill' = [fill EXCEPT ![h] = NoFill]
    /\ event' = [event EXCEPT ![h] = "FILL"]

\* PositionManager.ApplyFill
ApplyFill(f) ==
    LET s == StrategyOf[f.intent]
        k == SymbolOf[f.intent]
        n == Direction[f.intent] * f.qty
    IN
    /\ pos' = [pos EXCEPT ![s][k] = Filled(@, n, f.price)]
    /\ net' = [net EXCEPT ![k] = Filled(@, n, f.price)]

\* Mutant: positions first; the fill counts also when the order refuses it.
BookAfterApply(h) ==
    LET f == fill[h]
        i == f.intent
    IN
    /\ hpc[h] = "received"
    /\ IF Valid(i, event[h]) /\ Fits(i, f.qty)
       THEN Advance(i, event[h]) /\ RecordFill(i, f.qty, f.price) /\ UNCHANGED before
       ELSE UNCHANGED orderVars
    /\ ApplyFill(f)
    /\ HandlerDone(h)
    /\ UNCHANGED <<riskVars, executeVars, cancelVars, marketVars, historyVars>>

\* The fill enters the order, unless the order is not in a state for it or the
\* fill is too large.
Book(h) ==
    LET f == fill[h]
        i == f.intent
    IN
    /\ hpc[h] = "received"
    /\ IF Valid(i, event[h]) /\ Fits(i, f.qty)
       THEN /\ Advance(i, event[h]) /\ RecordFill(i, f.qty, f.price)
            /\ hpc' = [hpc EXCEPT ![h] = "booked"]
            /\ UNCHANGED <<before, fill, event>>
       ELSE HandlerDone(h) /\ UNCHANGED orderVars
    /\ UNCHANGED <<bookVars, riskVars, executeVars, cancelVars, marketVars, historyVars>>

Apply(h) ==
    /\ hpc[h] = "booked"
    /\ ApplyFill(fill[h])
    /\ HandlerDone(h)
    /\ UNCHANGED <<orderVars, riskVars, executeVars, cancelVars, marketVars, historyVars>>

HandleFill(h) == (\E f \in feed : Receive(h, f)) \/ Book(h) \/ Apply(h)

-----------------------------------------------------------------------------
(* CancelOrder                                                             *)

RequestCancel(c, i) ==
    /\ cpc[c] = "idle" /\ Valid(i, "REQUEST_CANCEL")
    /\ Advance(i, "REQUEST_CANCEL")
    /\ before' = [before EXCEPT ![i] = state[i]]
    /\ cpc' = [cpc EXCEPT ![c] = IF DryRun THEN "ack" ELSE "cancel"]
    /\ order' = [order EXCEPT ![c] = i]
    /\ UNCHANGED <<filled, avgFill, bookVars, riskVars, executeVars, handleVars, marketVars,
                   historyVars>>

CancelDone(c) ==
    /\ cpc' = [cpc EXCEPT ![c] = "idle"] /\ order' = [order EXCEPT ![c] = NoIntent]

\* Mutant: an error of the adapter is taken for an answer.
AdapterCancelsAnyway(c) ==
    /\ cpc[c] = "cancel"
    /\ \/ market[order[c]] = "live" /\ market' = [market EXCEPT ![order[c]] = "gone"]
       \/ UNCHANGED market
    /\ cpc' = [cpc EXCEPT ![c] = "ack"] /\ UNCHANGED order
    /\ UNCHANGED <<executed, feed, orderVars, bookVars, riskVars, executeVars, handleVars,
                   historyVars>>

\* adapter.CancelOrder: the exchange cancels what is live, or there is an error,
\* after which CancelOrder returns with the order as it is.
AdapterCancels(c) ==
    /\ cpc[c] = "cancel"
    /\ \/ /\ market[order[c]] = "live"
          /\ market' = [market EXCEPT ![order[c]] = "gone"]
          /\ cpc' = [cpc EXCEPT ![c] = "ack"] /\ UNCHANGED order
       \/ CancelDone(c) /\ UNCHANGED market
    /\ UNCHANGED <<executed, feed, orderVars, bookVars, riskVars, executeVars, handleVars,
                   historyVars>>

CancelAnswer(c) ==
    /\ cpc[c] = "ack"
    /\ Transition(order[c], "CANCEL_ACK")
    /\ CancelDone(c)
    /\ UNCHANGED <<bookVars, riskVars, executeVars, handleVars, marketVars, historyVars>>

Cancel(c) ==
    \/ \E i \in Intents : RequestCancel(c, i)
    \/ AdapterCancels(c) \/ CancelAnswer(c)

-----------------------------------------------------------------------------
(* The risk engine's switches, and the exchange                            *)

Kill == ~killed /\ killed' = TRUE /\ UNCHANGED <<frozen, breached, late>>

Freeze == ~frozen /\ frozen' = TRUE /\ UNCHANGED <<killed, breached, late>>

Resume == ~killed /\ frozen /\ frozen' = FALSE /\ UNCHANGED <<killed, breached, late>>

\* UpdatePnL with a loss beyond the limit also freezes; a later value may be
\* within it again, which ends the halt.
UpdatePnL ==
    /\ breached' = ~breached /\ UNCHANGED killed
    /\ frozen' = (frozen \/ breached')
    /\ late' = [late EXCEPT !["loss"] = [t \in Traders |-> 0]]

Risk ==
    /\ \/ "kill" \in Switches /\ Kill
       \/ "early kill" \in Switches /\ (\A i \in Intents : sent[i] = 0) /\ Kill
       \/ "freeze" \in Switches /\ (Freeze \/ Resume)
       \/ "loss" \in Switches /\ UpdatePnL
    /\ UNCHANGED <<sent, orderVars, bookVars, executeVars, handleVars, cancelVars, marketVars>>

\* The exchange executes a part of an order that it has and tells of it.
ExchangeFills(i, q, p) ==
    /\ market[i] = "live" /\ executed[i] + q <= Qty[i]
    /\ executed' = [executed EXCEPT ![i] = @ + q]
    /\ market' = [market EXCEPT ![i] = IF executed'[i] = Qty[i] THEN "gone" ELSE @]
    /\ feed' = feed \cup {[intent |-> i, at |-> executed[i], qty |-> q, price |-> p]}
    /\ UNCHANGED <<orderVars, bookVars, riskVars, executeVars, handleVars, cancelVars,
                   historyVars>>

Next ==
    \/ \E t \in Traders : Execute(t)
    \/ \E h \in Handlers : HandleFill(h)
    \/ \E c \in Cancellers : Cancel(c)
    \/ Risk
    \/ \E i \in Intents, p \in Prices : \E q \in 1 .. Qty[i] : ExchangeFills(i, q, p)

Spec == Init /\ [][Next]_vars

-----------------------------------------------------------------------------
(* Properties                                                              *)

TypeOK ==
    /\ state \in [Intents -> States] /\ before \in [Intents -> {"NONE", "ACKED", "PARTIAL"}]
    /\ filled \in [Intents -> Nat] /\ avgFill \in [Intents -> Int]
    /\ \A i \in Intents : filled[i] <= Qty[i]
    /\ pos \in [Strategies -> [Symbols -> [qty : Int, avg : Int, pnl : Int]]]
    /\ net \in [Symbols -> [qty : Int, avg : Int, pnl : Int]]
    /\ killed \in BOOLEAN /\ frozen \in BOOLEAN /\ breached \in BOOLEAN
    /\ xpc \in [Traders -> ExecuteStages] /\ todo \in [Traders -> SUBSET Intents]
    /\ cur \in [Traders -> Intents \cup {NoIntent}]
    /\ hpc \in [Handlers -> {"idle", "received", "booked"}]
    /\ fill \in [Handlers -> Fills \cup {NoFill}]
    /\ event \in [Handlers -> {"FILL", "PARTIAL_FILL"}]
    /\ cpc \in [Cancellers -> {"idle", "cancel", "ack"}]
    /\ order \in [Cancellers -> Intents \cup {NoIntent}]
    /\ market \in [Intents -> {"none", "live", "gone"}] /\ executed \in [Intents -> Nat]
    /\ feed \subseteq Fills
    /\ sent \in [Intents -> Nat] /\ late \in [Halts -> [Traders -> Nat]]

\* However many signals carry an intent, and however their goroutines interleave,
\* it reaches the exchange at most once ("Intent IDs are de-duplicated").
SubmittedOnce == \A i \in Intents : sent[i] <= 1

\* What the orders of symbol k have filled, and what they paid at their average prices.
OrdersIn(k) == {i \in Intents : SymbolOf[i] = k}
Booked == [i \in Intents |-> Direction[i] * filled[i]]
Paid == [i \in Intents |-> Booked[i] * avgFill[i]]

\* The fills of symbol k that an order has recorded and the positions have not.
Between(k) == {h \in Handlers : hpc[h] = "booked" /\ SymbolOf[fill[h].intent] = k}
Signed(f) == Direction[f.intent] * f.qty
Applying(k) == [h \in Between(k) |-> Signed(fill[h])]
Charging(k) == [h \in Between(k) |-> Signed(fill[h]) * fill[h].price]

\* The books of the strategies in symbol k.
Holding(k) == [s \in Strategies |-> pos[s][k].qty]
Costs(k) == [s \in Strategies |-> Cost(pos[s][k])]

\* Quantities alone: a fill counts once in its order, once in the position of its
\* strategy and once in the netted one, up to the fills in between.
QuantitiesAgree ==
    \A k \in Symbols :
        /\ SumFunctionOnSet(Booked, OrdersIn(k))
               = net[k].qty + SumFunctionOnSet(Applying(k), Between(k))
        /\ SumFunctionOnSet(Holding(k), Strategies) = net[k].qty

\* Orders and positions tell the same: what the orders of a symbol have filled is
\* the position in it, and what they paid at their average prices is what the
\* position cost, up to the fills that HandleFill has entered in one and not yet
\* in the other; also for fills that came twice and for positions that flipped.
BooksAgree ==
    \A k \in Symbols :
        /\ SumFunctionOnSet(Booked, OrdersIn(k))
               = net[k].qty + SumFunctionOnSet(Applying(k), Between(k))
        /\ SumFunctionOnSet(Paid, OrdersIn(k))
               = Cost(net[k]) + SumFunctionOnSet(Charging(k), Between(k))

\* The positions of the strategies add up to the netted one, in quantity and in
\* cost, although they flip at different fills.
NettingConserves ==
    \A k \in Symbols :
        /\ SumFunctionOnSet(Holding(k), Strategies) = net[k].qty
        /\ SumFunctionOnSet(Costs(k), Strategies) = Cost(net[k])

\* The prices are in a unit so small that no average that a fill in hand computes
\* leaves a remainder (PositionBook).
NoRemainder ==
    \A h \in Handlers :
        LET f == fill[h]
            n == Signed(f)
        IN  /\ hpc[h] = "received" /\ Fits(f.intent, f.qty) =>
                   Divides(filled[f.intent], avgFill[f.intent], f.qty, f.price)
            /\ hpc[h] = "booked" =>
                   /\ Even(pos[StrategyOf[f.intent]][SymbolOf[f.intent]], n, f.price)
                   /\ Even(net[SymbolOf[f.intent]], n, f.price)

\* An order is FILLED only when all of it is, although the event was decided from
\* a remainder read before.
FilledIsComplete == \A i \in Intents : state[i] = "FILLED" => filled[i] = Qty[i]

\* While the kill switch is on, and while the daily loss is beyond its limit, each
\* goroutine sends at most the one order whose risk check was before, also when
\* somebody resumes.
HaltBounded == \A x \in Halts : Halted(x) => \A t \in Traders : late[x][t] <= 1

\* An order that is FILLED, REJECTED or CANCELLED stays so, with what it filled.
TerminalIsFinal ==
    [][\A i \in Intents :
        state[i] \in Terminal => state'[i] = state[i] /\ filled'[i] = filled[i]]_vars

\* The exchange executes nothing of an order that the engine calls CANCELLED.
CancelledIsDead ==
    [][\A i \in Intents : state[i] = "CANCELLED" => executed'[i] = executed[i]]_vars

\* An order that is filled completely, with no handler at work on it, is not
\* active any more.
FilledNotActive ==
    \A i \in Intents :
        filled[i] = Qty[i] /\ (\A h \in Handlers : fill[h].intent # i)
            => state[i] \in Terminal
=============================================================================
