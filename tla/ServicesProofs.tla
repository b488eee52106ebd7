--------------------------- MODULE ServicesProofs ---------------------------
(* The two service processes: the rows of nexus-core, from the adapters to   *)
(* ClickHouse, for any number of streams, events and batch sizes and whatever *)
(* the order of start, signal and shutdown; and the limits of nexus-intel,    *)
(* for any number of handlers.                                              *)
EXTENDS MarketData, Intel, FiniteSetTheorems, TLAPS

-----------------------------------------------------------------------------
(* nexus-core                                                              *)

MTypes ==
    /\ buf \in SUBSET Rows /\ stored \in SUBSET Rows /\ lost \in SUBSET Rows
    /\ accepted \in SUBSET Rows /\ taken \in SUBSET Rows /\ published \in SUBSET Rows
    /\ flush \in [Flushers -> {"none", "drain", "ticks", "trades"}]
    /\ batch \in [Flushers -> SUBSET Rows]
    /\ event \in [Streams -> SUBSET Rows]
    /\ spc \in [Streams -> {"off", "select", "publish", "write", "features", "done"}]
    /\ closed \in BOOLEAN /\ wcancel \in BOOLEAN /\ prodClosed \in BOOLEAN
    /\ done \in {"nil", "open", "closed"}
    /\ bg \in {"none", "loop", "last", "exited"}
    /\ closer \in {"none", "close", "cancelled", "await", "stuck", "mark", "last", "returned"}
    /\ main \in {"boot", "serving", "drained", "flushing", "closing", "stopped"}

\* RowsConserved, row by row; a flusher holds rows only between its drain and
\* its last insert.
Places ==
    /\ \A r \in Rows :
          r \in accepted
              <=> \/ r \in buf \/ r \in stored \/ r \in lost
                  \/ \E f \in Flushers : r \in batch[f]
    /\ stored \cap lost = {}
    /\ buf \cap (stored \cup lost) = {}
    /\ \A f \in Flushers : batch[f] \cap (buf \cup stored \cup lost) = {}
    /\ \A f, g \in Flushers : f # g => batch[f] \cap batch[g] = {}
    /\ \A f \in Flushers : flush[f] \in {"none", "drain"} => batch[f] = {}

\* An event is in the hands of its stream, and new to the writer until written.
Events ==
    /\ accepted \subseteq taken
    /\ \A s \in Streams : spc[s] \in {"off", "select", "done"} => event[s] = {}
    /\ \A s \in Streams : \A r \in event[s] :
          /\ r \in taken /\ StreamOf[r] = s
          /\ spc[s] \in {"publish", "write"} => r \notin accepted
    /\ \A r \in taken :
          r \in accepted \/ \E s \in Streams : spc[s] \in {"publish", "write"} /\ r \in event[s]
    /\ \A r \in taken :
          r \in published \/ \E s \in Streams : spc[s] = "publish" /\ r \in event[s]

\* The order of the shutdown: first the streams, then the buffer, then the
\* background goroutine, then Close, then the producer.
Order ==
    /\ \A s \in Streams : flush[s] # "none" => spc[s] = "features"
    /\ main = "boot" => \A s \in Streams : spc[s] = "off"
    /\ main \in {"drained", "flushing", "closing", "stopped"} =>
          \A s \in Streams : spc[s] \in {"off", "done"}
    /\ closed => closer \in {"last", "returned"}
    /\ closer # "none" <=> main \in {"closing", "stopped"}
    /\ main = "stopped" => closer = "returned"
    /\ prodClosed => main = "stopped"
    /\ flush[Closer] # "none" => main = "flushing" \/ closer = "last"
    /\ main = "flushing" => flush[Closer] = "drain" \/ buf = {}
    /\ main \in {"closing", "stopped"} => buf = {}

\* Close goes past its wait only when the background goroutine holds nothing.
BackgroundGone ==
    /\ bg \in {"none", "exited"} => flush[Bg] = "none"
    /\ done = "nil" <=> bg = "none"
    /\ ~wcancel => bg = "none"
    /\ done = "closed" => bg = "exited"
    /\ closer \in {"mark", "last", "returned"} => batch[Bg] = {}

MarketInv == MTypes /\ Places /\ Events /\ Order /\ BackgroundGone

-----------------------------------------------------------------------------

(* The invariant says what RowsConserved says of the sets.                  *)
LEMMA InvConserves == MarketInv => RowsConserved
<1> SUFFICES ASSUME MarketInv PROVE RowsConserved
  OBVIOUS
<1> USE DEF MarketInv, MTypes, Places
<1>1. accepted = buf \cup stored \cup lost \cup UNION {batch[f] : f \in Flushers}
  OBVIOUS
<1> QED
  BY <1>1 DEF RowsConserved

(* When Stop has returned, every place but ClickHouse is empty.             *)
LEMMA InvDrains == MarketInv => StopDrains
<1> SUFFICES ASSUME MarketInv, main = "stopped"
             PROVE  /\ accepted = stored \cup lost
                    /\ taken \subseteq accepted /\ taken \subseteq published
  BY DEF StopDrains
<1>1. \A s \in Streams : spc[s] \in {"off", "done"} /\ batch[s] = {}
  BY DEF MarketInv, Order, Places, Flushers, Streams
<1>2. batch[Closer] = {} /\ batch[Bg] = {} /\ buf = {}
  BY DEF MarketInv, Order, Places, BackgroundGone, Flushers
<1>3. \A f \in Flushers : batch[f] = {}
  BY <1>1, <1>2 DEF Flushers, Streams
<1>4. accepted = stored \cup lost
  BY <1>2, <1>3 DEF MarketInv, MTypes, Places
<1>5. taken \subseteq accepted /\ taken \subseteq published
  BY <1>1 DEF MarketInv, Events
<1> QED
  BY <1>4, <1>5

(* The process starts with nothing in hand.                                *)
LEMMA MarketInit == MInit => MarketInv
  BY WriterAssumption
     DEF MInit, WInit, MarketInv, MTypes, Places, Events, Order, BackgroundGone, Flushers, Streams

-----------------------------------------------------------------------------
(* The streams                                                             *)

(* A new event enters the hands of its stream.                              *)
LEMMA ReceiveStep ==
  ASSUME MarketInv, NEW s \in Streams, NEW r \in Rows, Receive(s, r)
  PROVE  MarketInv'
<1>1. /\ spc[s] = "select" /\ spc' = [spc EXCEPT ![s] = "publish"]
      /\ StreamOf[r] = s /\ r \notin taken /\ taken' = taken \cup {r}
      /\ event' = [event EXCEPT ![s] = {r}]
      /\ UNCHANGED <<published, wvars, mainVars>>
  BY DEF Receive, At
<1>2. MTypes'
  BY <1>1 DEF MarketInv, MTypes, wvars, mainVars
<1>3. Places' /\ BackgroundGone'
  BY <1>1 DEF MarketInv, Places, BackgroundGone, wvars
<1>4. /\ \A t \in Streams : spc'[t] = IF t = s THEN "publish" ELSE spc[t]
      /\ \A t \in Streams : event'[t] = IF t = s THEN {r} ELSE event[t]
  BY <1>1 DEF MarketInv, MTypes
<1>5. Events'
  BY <1>1, <1>4 DEF MarketInv, Events, wvars
<1>6. Order'
  BY <1>1, <1>4 DEF MarketInv, Order, wvars, mainVars
<1> QED
  BY <1>2, <1>3, <1>5, <1>6 DEF MarketInv

(* The producer is open as long as there is a stream to publish.            *)
LEMMA PublishStep ==
  ASSUME MarketInv, NEW s \in Streams, Publish(s)
  PROVE  MarketInv'
<1>1. /\ spc[s] = "publish" /\ spc' = [spc EXCEPT ![s] = "write"]
      /\ UNCHANGED <<event, taken, wvars, mainVars>>
  BY DEF Publish, At
<1>2. published' = published \cup event[s]
  BY <1>1 DEF Publish, MarketInv, Order, MTypes
<1>3. MTypes'
  BY <1>1, <1>2 DEF MarketInv, MTypes, wvars, mainVars
<1>4. Places' /\ BackgroundGone'
  BY <1>1 DEF MarketInv, Places, BackgroundGone, wvars
<1>5. \A t \in Streams : spc'[t] = IF t = s THEN "write" ELSE spc[t]
  BY <1>1 DEF MarketInv, MTypes
<1>6. Events'
  BY <1>1, <1>2, <1>5 DEF MarketInv, Events, wvars
<1>7. Order'
  BY <1>1, <1>5 DEF MarketInv, Order, wvars, mainVars
<1> QED
  BY <1>3, <1>4, <1>6, <1>7 DEF MarketInv

(* The writer is open as long as there is a stream to write, and the row is   *)
(* new to it.                                                               *)
LEMMA WriteStep ==
  ASSUME MarketInv, NEW s \in Streams, NEW r \in Rows, WriteEvent(s, r)
  PROVE  MarketInv'
<1>1. /\ spc[s] = "write" /\ spc' = [spc EXCEPT ![s] = "features"] /\ event[s] = {r}
      /\ UNCHANGED <<event, taken, published, mainVars>>
  BY DEF WriteEvent, At
<1>2. ~closed /\ Write(s, r)
  BY <1>1 DEF WriteEvent, MarketInv, Order, MTypes
<1>3. /\ buf' = buf \cup {r} /\ accepted' = accepted \cup {r}
      /\ \E x \in {"none", "drain"} : flush' = [flush EXCEPT ![s] = x]
      /\ flush[s] = "none"
      /\ UNCHANGED <<batch, stored, lost, lifeVars>>
  BY <1>2 DEF Write, Idle
<1>4. r \in taken /\ r \notin accepted /\ s \in Flushers /\ s # Closer /\ s # Bg
  BY <1>1, WriterAssumption DEF MarketInv, Events, Flushers, Streams
<1>5. MTypes'
  BY <1>1, <1>3, <1>4 DEF MarketInv, MTypes, mainVars, lifeVars
<1>6. Places'
  BY <1>3, <1>4 DEF MarketInv, MTypes, Places
<1>7. /\ \A t \in Streams : spc'[t] = IF t = s THEN "features" ELSE spc[t]
      /\ \A f \in Flushers : f # s => flush'[f] = flush[f]
  BY <1>1, <1>3 DEF MarketInv, MTypes
<1>8. Events'
  BY <1>1, <1>3, <1>4, <1>7 DEF MarketInv, Events
<1>9. main \in {"boot", "serving"}
  BY <1>1 DEF MarketInv, MTypes, Order
<1>10. Order'
  BY <1>1, <1>3, <1>4, <1>7, <1>9
     DEF MarketInv, Order, Flushers, Streams, mainVars, lifeVars
<1>11. BackgroundGone'
  BY <1>3, <1>4, <1>7 DEF MarketInv, BackgroundGone, Flushers, lifeVars
<1> QED
  BY <1>5, <1>6, <1>8, <1>10, <1>11 DEF MarketInv

(* The handler is done with an event, or the stream with its events.        *)
LEMMA StreamStep ==
  ASSUME MarketInv, NEW s \in Streams, PublishFeatures(s) \/ Leave(s)
  PROVE  MarketInv'
<1>1. PICK to \in {"select", "done"} :
          /\ spc[s] \in {"features", "select"} /\ spc' = [spc EXCEPT ![s] = to]
          /\ to = "done" => spc[s] = "select"
  BY DEF PublishFeatures, Leave, At
<1>2. UNCHANGED <<taken, published, wvars, mainVars>>
  BY DEF PublishFeatures, Leave
<1>3. event' = [event EXCEPT ![s] = {}]
  BY DEF PublishFeatures, Leave, At, MarketInv, MTypes, Events
<1>4. flush[s] = "none"
  BY DEF PublishFeatures, Leave, At, Idle, MarketInv, Order
<1>5. MTypes'
  BY <1>1, <1>2, <1>3 DEF MarketInv, MTypes, wvars, mainVars
<1>6. Places' /\ BackgroundGone'
  BY <1>2 DEF MarketInv, Places, BackgroundGone, wvars
<1>7. /\ \A t \in Streams : spc'[t] = IF t = s THEN to ELSE spc[t]
      /\ \A t \in Streams : event'[t] = IF t = s THEN {} ELSE event[t]
  BY <1>1, <1>3 DEF MarketInv, MTypes
<1>8. Events'
  BY <1>1, <1>2, <1>7 DEF MarketInv, Events, wvars
<1>9. main \in {"boot", "serving"} \/ spc'[s] = "done"
  BY <1>1 DEF MarketInv, MTypes, Order
<1>10. Order'
  BY <1>1, <1>2, <1>4, <1>7, <1>9 DEF MarketInv, Order, wvars, mainVars
<1> QED
  BY <1>5, <1>6, <1>8, <1>10 DEF MarketInv

-----------------------------------------------------------------------------
(* Flush, by anybody                                                       *)

(* Rows go from the buffer to the flusher that drains it, and from there into *)
(* ClickHouse or, with their insert, away.                                  *)
LEMMA FlushStep ==
  ASSUME MarketInv, NEW f \in Flushers, Flush(f),
         UNCHANGED <<mainVars, streamVars, alertVars>>
  PROVE  MarketInv'
<1>1. /\ UNCHANGED <<accepted, taken, published, event, spc, main, prodClosed>>
      /\ UNCHANGED <<closed, wcancel, done, bg, closer>>
  BY DEF Flush, Drain, FlushTicks, FlushTrades, Insert, mainVars, streamVars, lifeVars
<1>2. /\ flush[f] # "none"
      /\ \E x \in {"none", "ticks", "trades"} : flush' = [flush EXCEPT ![f] = x]
  BY DEF Flush, Drain, FlushTicks, FlushTrades, Insert
<1>3. CASE Drain(f)
  <2>1. /\ flush[f] = "drain" /\ batch' = [batch EXCEPT ![f] = buf] /\ buf' = {}
        /\ flush' = [flush EXCEPT ![f] = IF buf = {} THEN "none" ELSE "ticks"]
        /\ UNCHANGED <<stored, lost>>
    BY <1>3 DEF Drain
  <2>2. MTypes'
    BY <1>1, <2>1 DEF MarketInv, MTypes
  <2>3. /\ \A g \in Flushers : batch'[g] = IF g = f THEN buf ELSE batch[g]
        /\ \A g \in Flushers :
              flush'[g] = IF g = f THEN (IF buf = {} THEN "none" ELSE "ticks") ELSE flush[g]
        /\ batch[f] = {}
    BY <2>1 DEF MarketInv, MTypes, Places
  <2>4. Places'
    BY <1>1, <2>1, <2>3 DEF MarketInv, MTypes, Places
  <2>5. Events'
    BY <1>1 DEF MarketInv, Events
  <2>6. Order'
    BY <1>1, <1>2, <2>1, <2>3 DEF MarketInv, Order, Flushers, Streams
  <2>7. Bg \in Flushers
    BY DEF Flushers
  <2>8. BackgroundGone'
    BY <1>1, <1>2, <2>3, <2>7 DEF MarketInv, MTypes, BackgroundGone, Order
  <2> QED
    BY <2>2, <2>4, <2>5, <2>6, <2>8 DEF MarketInv
<1>4. ASSUME NEW rows \in SUBSET Rows, NEW next \in {"none", "trades"},
             flush[f] # "drain", rows \subseteq batch[f], Insert(f, rows, next),
             next = "none" => rows = batch[f]
      PROVE  MarketInv'
  <2>1. /\ batch' = [batch EXCEPT ![f] = @ \ rows] /\ flush' = [flush EXCEPT ![f] = next]
        /\ \/ stored' = stored \cup rows /\ lost' = lost
           \/ lost' = lost \cup rows /\ stored' = stored
        /\ buf' = buf
    BY <1>4 DEF Insert
  <2>2. MTypes'
    BY <1>1, <1>4, <2>1 DEF MarketInv, MTypes
  <2>3. /\ \A g \in Flushers : batch'[g] = IF g = f THEN batch[f] \ rows ELSE batch[g]
        /\ \A g \in Flushers : flush'[g] = IF g = f THEN next ELSE flush[g]
    BY <2>1 DEF MarketInv, MTypes
  <2>4. Places'
    BY <1>1, <1>4, <2>1, <2>3 DEF MarketInv, MTypes, Places
  <2>5. Events'
    BY <1>1 DEF MarketInv, Events
  <2>6. Order'
    BY <1>1, <1>2, <1>4, <2>1, <2>3 DEF MarketInv, Order, Flushers, Streams
  <2>7. Bg \in Flushers
    BY DEF Flushers
  <2>8. BackgroundGone'
    BY <1>1, <1>2, <2>3, <2>7 DEF MarketInv, BackgroundGone
  <2> QED
    BY <2>2, <2>4, <2>5, <2>6, <2>8 DEF MarketInv
<1>5. CASE FlushTicks(f)
  BY <1>4, <1>5 DEF FlushTicks, MarketInv, MTypes
<1>6. CASE FlushTrades(f)
  BY <1>4, <1>6 DEF FlushTrades, MarketInv, MTypes
<1> QED
  BY <1>3, <1>5, <1>6 DEF Flush

-----------------------------------------------------------------------------
(* Start, the background goroutine, Close and the main goroutine             *)

(* Steps that leave the rows and the streams alone.                         *)
LEMMA QuietStep ==
  ASSUME MarketInv, UNCHANGED <<rowVars, streamVars>>, MTypes', Order', BackgroundGone',
         \A f \in Flushers : flush'[f] \in {"none", "drain"} => batch[f] = {}
  PROVE  MarketInv'
<1>1. Places'
  BY DEF MarketInv, Places, rowVars
<1>2. Events'
  BY DEF MarketInv, Events, rowVars, streamVars
<1> QED
  BY <1>1, <1>2 DEF MarketInv

(* The ticker and the end of the background goroutine, and Start.           *)
LEMMA BackgroundStep ==
  ASSUME MarketInv, UNCHANGED <<mainVars, streamVars, alertVars>>,
         StartCancel \/ StartLoop \/ BgTick \/ BgLast \/ BgExit
  PROVE  MarketInv'
<1> USE DEF MarketInv, MTypes, Places, rowVars, streamVars, mainVars
<1>1. Bg \in Flushers /\ Bg # Closer /\ Closer \in Flushers
      /\ \A s \in Streams : s \in Flushers /\ s # Bg
  BY WriterAssumption DEF Flushers, Streams
<1>2. CASE StartCancel \/ StartLoop \/ BgExit
  <2>1. UNCHANGED <<rowVars, flush, closer, closed>>
    BY <1>2 DEF StartCancel, StartLoop, BgExit, SetLife
  <2>2. MTypes'
    <3>1. CASE StartCancel
      BY <2>1, <3>1 DEF StartCancel
    <3>2. CASE StartLoop
      BY <2>1, <3>2 DEF StartLoop, SetLife
    <3>3. CASE BgExit
      BY <2>1, <3>3 DEF BgExit, SetLife
    <3> QED
      BY <1>2, <3>1, <3>2, <3>3
  <2>3. Order'
    BY <2>1 DEF Order
  <2>4. BackgroundGone'
    BY <1>2, <2>1 DEF StartCancel, StartLoop, BgExit, SetLife, Idle, BackgroundGone
  <2> QED
    BY <2>1, <2>2, <2>3, <2>4, QuietStep
<1>3. CASE BgTick \/ BgLast
  <2>1. /\ UNCHANGED <<rowVars, closer, closed, wcancel, done>>
        /\ flush' = [flush EXCEPT ![Bg] = "drain"] /\ flush[Bg] = "none"
        /\ bg = "loop" /\ bg' \in {"loop", "last"}
    BY <1>3 DEF BgTick, BgLast, SetLife, Idle, lifeVars
  <2>2. MTypes'
    BY <2>1, <1>1
  <2>3. Order'
    BY <1>1, <2>1 DEF Order
  <2>4. BackgroundGone'
    BY <1>1, <2>1 DEF BackgroundGone
  <2>5. \A f \in Flushers : flush'[f] \in {"none", "drain"} => batch[f] = {}
    BY <1>1, <2>1
  <2> QED
    BY <2>1, <2>2, <2>3, <2>4, <2>5, QuietStep
<1> QED
  BY <1>2, <1>3

(* Close: whichever way it takes past its wait, the background goroutine holds *)
(* no row then.                                                             *)
LEMMA CloseStep ==
  ASSUME MarketInv, UNCHANGED <<mainVars, streamVars, alertVars>>,
         CloseCancel \/ CloseAwait \/ CloseMark \/ CloseReturn
  PROVE  MarketInv'
<1> USE DEF MarketInv, MTypes, Places, rowVars, streamVars, mainVars
<1>1. Bg \in Flushers /\ Bg # Closer /\ Closer \in Flushers
      /\ \A s \in Streams : s \in Flushers /\ s # Closer
  BY WriterAssumption DEF Flushers, Streams
<1>2. UNCHANGED <<rowVars, wcancel, done, bg>>
  BY DEF CloseCancel, CloseAwait, CloseMark, CloseReturn, SetLife
<1>3. CASE CloseCancel \/ CloseAwait \/ CloseReturn
  <2>1. UNCHANGED <<flush, closed>>
    BY <1>3 DEF CloseCancel, CloseAwait, CloseReturn
  <2>2. MTypes'
    BY <1>2, <1>3, <2>1 DEF CloseCancel, CloseAwait, CloseReturn, SetLife
  <2>3. Order'
    BY <1>2, <1>3, <2>1 DEF CloseCancel, CloseAwait, CloseReturn, SetLife, Idle, Order
  <2>4. BackgroundGone'
    BY <1>1, <1>2, <1>3, <2>1 DEF CloseCancel, CloseAwait, CloseReturn, SetLife, BackgroundGone
  <2> QED
    BY <1>2, <2>1, <2>2, <2>3, <2>4, QuietStep
<1>4. CASE CloseMark
  <2>1. /\ closer = "mark" /\ closer' = "last" /\ flush[Closer] = "none" /\ closed' = TRUE
        /\ flush' = [flush EXCEPT ![Closer] = "drain"]
    BY <1>4 DEF CloseMark, SetLife, Idle
  <2>2. MTypes'
    BY <1>2, <2>1
  <2>3. Order'
    BY <1>1, <1>2, <2>1 DEF Order
  <2>4. BackgroundGone'
    BY <1>1, <1>2, <2>1 DEF BackgroundGone
  <2>5. \A f \in Flushers : flush'[f] \in {"none", "drain"} => batch[f] = {}
    BY <1>1, <2>1
  <2> QED
    BY <1>2, <2>2, <2>3, <2>4, <2>5, QuietStep
<1> QED
  BY <1>3, <1>4

(* Service.Stop: one phase after the other.                                 *)
LEMMA StopStep ==
  ASSUME MarketInv, Stop
  PROVE  MarketInv'
<1> USE DEF MarketInv, MTypes, Places, rowVars, streamVars, mainVars
<1>1. Bg \in Flushers /\ Bg # Closer /\ Closer \in Flushers
      /\ \A s \in Streams : s \in Flushers /\ s # Closer
  BY WriterAssumption DEF Flushers, Streams
<1>2. UNCHANGED <<rowVars, streamVars, closed, wcancel, done, bg>>
  BY DEF Stop, DrainStreams, StopFlush, StopClose, StopProducer, CallClose, SetLife, OthersStay,
         wvars, lifeVars
<1>3. CASE DrainStreams \/ StopProducer
  <2>1. UNCHANGED <<flush, closer>>
    BY <1>3 DEF DrainStreams, StopProducer, wvars
  <2>2. MTypes'
    BY <1>2, <1>3, <2>1 DEF DrainStreams, StopProducer, Phase
  <2>3. Order'
    BY <1>2, <1>3, <2>1 DEF DrainStreams, StopProducer, Phase, Order
  <2>4. BackgroundGone'
    BY <1>2, <2>1 DEF BackgroundGone
  <2> QED
    BY <1>2, <2>1, <2>2, <2>3, <2>4, QuietStep
<1>4. CASE StopFlush
  <2>1. /\ main = "drained" /\ main' = "flushing" /\ UNCHANGED <<closer, prodClosed>>
        /\ flush' = [flush EXCEPT ![Closer] = "drain"]
    BY <1>4 DEF StopFlush, Phase, lifeVars
  <2>2. flush[Closer] = "none" /\ closer = "none"
    BY <2>1 DEF Order
  <2>3. MTypes'
    BY <1>2, <2>1
  <2>4. Order'
    BY <1>1, <1>2, <2>1, <2>2 DEF Order
  <2>5. BackgroundGone'
    BY <1>1, <1>2, <2>1 DEF BackgroundGone
  <2>6. \A f \in Flushers : flush'[f] \in {"none", "drain"} => batch[f] = {}
    BY <1>1, <2>1, <2>2
  <2> QED
    BY <1>2, <2>3, <2>4, <2>5, <2>6, QuietStep
<1>5. CASE StopClose
  <2>1. /\ main = "flushing" /\ main' = "closing" /\ closer = "none" /\ closer' = "close"
        /\ flush[Closer] = "none" /\ UNCHANGED <<flush, prodClosed>>
    BY <1>5 DEF StopClose, CallClose, SetLife, Phase, Idle
  <2>2. MTypes'
    BY <1>2, <2>1
  <2>3. Order'
    BY <1>1, <1>2, <2>1 DEF Order
  <2>4. BackgroundGone'
    BY <1>2, <2>1 DEF BackgroundGone
  <2> QED
    BY <1>2, <2>1, <2>2, <2>3, <2>4, QuietStep
<1> QED
  BY <1>3, <1>4, <1>5 DEF Stop

(* The boot, the signal, and steps of the quality monitor.                  *)
LEMMA OtherStep ==
  ASSUME MarketInv, Boot \/ Signal \/ CheckStaleFeeds \/ MonitorStops \/ LogAlert
  PROVE  MarketInv'
<1> USE DEF MarketInv, MTypes, Places
<1>1. UNCHANGED <<rowVars, flush, closer, closed, wcancel, done, bg, prodClosed, taken,
                  published, event>>
  BY DEF Boot, Signal, CheckStaleFeeds, MonitorStops, LogAlert, Cancel, OthersStay, rowVars,
         wvars, mainVars, streamVars
<1>2. CASE Boot
  <2>1. /\ main = "boot" /\ main' = "serving"
        /\ spc' \in [Streams -> {"off", "select"}]
    BY <1>2 DEF Boot, Phase
  <2>2. \A s \in Streams : flush[s] = "none" /\ event[s] = {} /\ spc[s] = "off"
    BY <2>1 DEF Events, Order, Flushers, Streams
  <2>3. MTypes'
    BY <1>1, <2>1 DEF rowVars
  <2>4. Events'
    BY <1>1, <2>1, <2>2 DEF Events, rowVars
  <2>5. Order'
    BY <1>1, <2>1, <2>2 DEF Order, rowVars
  <2>6. Places' /\ BackgroundGone'
    BY <1>1 DEF BackgroundGone, rowVars
  <2> QED
    BY <2>3, <2>4, <2>5, <2>6
<1>3. CASE Signal \/ CheckStaleFeeds \/ MonitorStops \/ LogAlert
  <2>1. UNCHANGED <<spc, main>>
    BY <1>3 DEF Signal, CheckStaleFeeds, MonitorStops, LogAlert, OthersStay, mainVars, streamVars
  <2>2. MTypes' /\ Order' /\ BackgroundGone'
    BY <1>1, <2>1 DEF Order, BackgroundGone, rowVars
  <2>3. UNCHANGED <<rowVars, streamVars>> /\ UNCHANGED flush
    BY <1>1, <2>1 DEF streamVars
  <2> QED
    BY <2>2, <2>3, QuietStep
<1> QED
  BY <1>2, <1>3

(* Every step of the process keeps the invariant.                           *)
LEMMA MarketStep == MarketInv /\ [MNext]_mvars => MarketInv'
<1> SUFFICES ASSUME MarketInv, [MNext]_mvars PROVE MarketInv'
  OBVIOUS
<1>1. CASE UNCHANGED mvars
  BY <1>1 DEF mvars, wvars, mainVars, streamVars, alertVars, MarketInv, MTypes, Places, Events,
              Order, BackgroundGone
<1>2. ASSUME NEW s \in Streams, HandleEvent(s) PROVE MarketInv'
  <2>1. CASE FlushFull(s)
    <3>1. s \in Flushers
      BY DEF Flushers, Streams
    <3> QED
      BY <2>1, <3>1, FlushStep DEF FlushFull
  <2> QED
    BY <1>2, <2>1, PublishStep, WriteStep, StreamStep DEF HandleEvent
<1>3. ASSUME NEW s \in Streams, StreamStops(s) \/ ChannelCloses(s) PROVE MarketInv'
  BY <1>3, StreamStep DEF StreamStops, ChannelCloses
<1>4. Bg \in Flushers /\ Closer \in Flushers
  BY DEF Flushers
<1>5. CASE StartWriter
  BY <1>5, BackgroundStep DEF StartWriter, Start, OthersStay
<1>6. CASE RunWriter
  BY <1>4, <1>6, BackgroundStep, FlushStep DEF RunWriter, Background, OthersStay
<1>7. CASE CloseWriter
  BY <1>4, <1>7, CloseStep, FlushStep DEF CloseWriter, Close, OthersStay
<1> QED
  BY <1>1, <1>2, <1>3, <1>5, <1>6, <1>7, ReceiveStep, OtherStep, StopStep DEF MNext

(* Every row the writer took is in exactly one place (writer.go Flush).      *)
THEOREM RowsAreConserved == MSpec => []RowsConserved
  BY InvConserves, MarketInit, MarketStep, PTL DEF MSpec

(* When Stop has returned, every event that a stream read is stored or was     *)
(* lost with its insert, and was published (service.go Stop).               *)
THEOREM StopLeavesNothing == MSpec => []StopDrains
  BY InvDrains, MarketInit, MarketStep, PTL DEF MSpec

-----------------------------------------------------------------------------
(* nexus-intel                                                             *)

Steps == {"idle", "rate", "budget", "select", "query", "charge", "dedup",
          "write", "flush"}

\* The handlers in one of some steps; those past the hourly check that are not
\* yet counted, and those past the daily check.
InSteps(S) == {h \in Handlers : hpc[h] \in S}
PastRate == {"budget", "select", "query", "charge", "dedup"}
PastBudget == {"select", "query", "charge"}

\* A counter and those about to be counted together stay under limit and all
\* handlers but one.
LimitInv ==
    /\ hpc \in [Handlers -> Steps]
    /\ hourCount \in Nat /\ queries \in Nat
    /\ hourCount + Cardinality(InSteps(PastRate)) <= MaxPerHour + Cardinality(Handlers) - 1
    /\ queries + Cardinality(InSteps(PastBudget)) <= MaxQueries + Cardinality(Handlers) - 1

(* Among the handlers, those in some steps are finitely many.               *)
LEMMA FewHandlers ==
    ASSUME NEW S
    PROVE  /\ IsFiniteSet(InSteps(S)) /\ Cardinality(InSteps(S)) \in Nat
           /\ Cardinality(InSteps(S)) <= Cardinality(Handlers)
           /\ Cardinality(Handlers) \in Nat \ {0}
<1>1. InSteps(S) \in SUBSET Handlers /\ IsFiniteSet(Handlers) /\ Handlers # {}
  BY IntelAssumption DEF InSteps
<1>2. Cardinality(Handlers) # 0
  BY <1>1, FS_EmptySet
<1> QED
  BY <1>1, <1>2, FS_Subset, FS_CardinalityType

(* A handler that moves within, into or out of some steps.                  *)
LEMMA OneMoves ==
    ASSUME hpc \in [Handlers -> Steps], NEW h \in Handlers, NEW from, NEW to \in Steps,
           Move(h, from, to), NEW S
    PROVE  /\ hpc' \in [Handlers -> Steps]
           /\ from \in S /\ to \notin S =>
                 Cardinality(InSteps(S)') = Cardinality(InSteps(S)) - 1
           /\ from \in S \/ to \notin S =>
                 Cardinality(InSteps(S)') <= Cardinality(InSteps(S))
           /\ Cardinality(InSteps(S)') \in Nat
           /\ Cardinality(InSteps(S)') <= Cardinality(Handlers)
<1>1. hpc' \in [Handlers -> Steps]
  BY DEF Move
<1>2. IsFiniteSet(InSteps(S)) /\ IsFiniteSet(Handlers)
  BY FewHandlers, IntelAssumption
<1>3. ASSUME from \in S, to \notin S
      PROVE  Cardinality(InSteps(S)') = Cardinality(InSteps(S)) - 1
  <2>1. InSteps(S)' = InSteps(S) \ {h} /\ h \in InSteps(S)
    BY <1>3 DEF Move, InSteps
  <2> QED
    BY <2>1, <1>2, FS_RemoveElement
<1>4. ASSUME from \in S \/ to \notin S
      PROVE  Cardinality(InSteps(S)') <= Cardinality(InSteps(S))
  <2>1. InSteps(S)' \in SUBSET InSteps(S)
    BY <1>4 DEF Move, InSteps
  <2> QED
    BY <2>1, <1>2, FS_Subset
<1>5. InSteps(S)' \in SUBSET Handlers
  BY DEF InSteps
<1>6. /\ Cardinality(InSteps(S)') \in Nat
      /\ Cardinality(InSteps(S)') <= Cardinality(Handlers)
  BY <1>5, <1>2, FS_Subset, FS_CardinalityType
<1> QED
  BY <1>1, <1>3, <1>4, <1>6

(* A handler that starts a trigger, or finishes one, changes no count.      *)
LEMMA LimitMove ==
    ASSUME LimitInv, NEW h \in Handlers, NEW from \in Steps, NEW to \in Steps,
           Move(h, from, to), UNCHANGED <<hourCount, queries>>,
           from \in PastRate \/ to \notin PastRate,
           from \in PastBudget \/ to \notin PastBudget
    PROVE  LimitInv'
<1>1. /\ Cardinality(InSteps(PastRate)) \in Nat /\ Cardinality(InSteps(PastBudget)) \in Nat
      /\ Cardinality(Handlers) \in Nat
  BY FewHandlers
<1>2. /\ hpc' \in [Handlers -> Steps]
      /\ Cardinality(InSteps(PastRate)') <= Cardinality(InSteps(PastRate))
      /\ Cardinality(InSteps(PastRate)') \in Nat
  BY OneMoves DEF LimitInv
<1>3. /\ Cardinality(InSteps(PastBudget)') <= Cardinality(InSteps(PastBudget))
      /\ Cardinality(InSteps(PastBudget)') \in Nat
  BY OneMoves DEF LimitInv
<1>4. MaxPerHour \in Nat /\ MaxQueries \in Nat
  BY IntelAssumption
<1> QED
  BY <1>1, <1>2, <1>3, <1>4 DEF LimitInv

(* A step that moves no handler and touches no counter.                     *)
LEMMA LimitStays ==
    ASSUME LimitInv, UNCHANGED <<hpc, hourCount, queries>>
    PROVE  LimitInv'
  BY DEF LimitInv, InSteps

(* Nobody has asked at the start.                                           *)
LEMMA LimitInit == IInit => LimitInv
<1> SUFFICES ASSUME IInit PROVE LimitInv
  OBVIOUS
<1>1. InSteps(PastRate) = {} /\ InSteps(PastBudget) = {}
  BY DEF IInit, InSteps, PastRate, PastBudget
<1>2. Cardinality({}) = 0
  BY FS_EmptySet
<1>3. Cardinality(Handlers) \in Nat \ {0}
  BY FewHandlers
<1>4. hpc \in [Handlers -> Steps] /\ hourCount = 0 /\ queries = 0
  BY DEF IInit, Steps
<1> QED
  BY <1>1, <1>2, <1>3, <1>4, IntelAssumption DEF LimitInv

(* Every trigger starts a handler that was idle, or none.                   *)
LEMMA TriggerKeepsLimits == LimitInv /\ Trigger => LimitInv'
<1> SUFFICES ASSUME LimitInv, Trigger PROVE LimitInv'
  OBVIOUS
<1>1. UNCHANGED <<hourCount, queries>>
  BY DEF Trigger, limitVars
<1>2. ASSUME NEW h \in Handlers, FireTrigger(h) PROVE LimitInv'
  <2>1. Move(h, "idle", "rate")
    BY <1>2 DEF FireTrigger
  <2> QED
    BY <1>1, <2>1, LimitMove DEF Steps, PastRate, PastBudget
<1>3. CASE UNCHANGED handlerVars
  BY <1>1, <1>3, LimitStays DEF handlerVars
<1>4. UNCHANGED handlerVars \/ \E h \in Handlers : FireTrigger(h)
  BY IntelAssumption DEF Trigger, OnVolatility, OnPrice, OnCascade, OnStrategyRequest,
     CheckSchedule, FireScheduled
<1> QED
  BY <1>2, <1>3, <1>4

(* The steps of ProcessTrigger: the two that read a limit, the two that      *)
(* count, and the others.                                                  *)
LEMMA ProcessKeepsLimits ==
    ASSUME LimitInv, NEW h \in Handlers, ProcessTrigger(h)
    PROVE  LimitInv'
<1> DEFINE rate == Cardinality(InSteps(PastRate))
           budget == Cardinality(InSteps(PastBudget))
<1>1. /\ rate \in Nat /\ budget \in Nat /\ Cardinality(Handlers) \in Nat \ {0}
      /\ MaxPerHour \in Nat \ {0} /\ MaxQueries \in Nat \ {0}
      /\ rate <= Cardinality(Handlers) /\ budget <= Cardinality(Handlers)
  BY FewHandlers, IntelAssumption
<1>2. CASE CheckRate(h)
  <2>1. PICK to \in {"budget", "idle"} : Move(h, "rate", to)
    BY <1>2 DEF CheckRate
  <2>2. /\ hpc' \in [Handlers -> Steps]
        /\ to = "idle" => rate' <= rate
        /\ budget' <= budget /\ budget' \in Nat
        /\ rate' \in Nat /\ rate' <= Cardinality(Handlers)
    BY <2>1, OneMoves DEF LimitInv, Steps, PastRate, PastBudget
  <2>3. /\ UNCHANGED queries
        /\ hourCount' = 0 \/ hourCount' = hourCount
        /\ hourCount' < MaxPerHour \/ Move(h, "rate", "idle")
    BY <1>2 DEF CheckRate
  <2>4. hourCount' < MaxPerHour \/ rate' <= rate
    BY <2>3, OneMoves DEF LimitInv, Steps, PastRate
  <2>5. hourCount' + rate' <= MaxPerHour + Cardinality(Handlers) - 1
    BY <1>1, <2>2, <2>3, <2>4 DEF LimitInv
  <2> QED
    BY <1>1, <2>2, <2>3, <2>5 DEF LimitInv
<1>3. CASE CanQuery(h)
  <2>1. /\ UNCHANGED hourCount
        /\ queries' = 0 \/ queries' = queries
        /\ (queries' < MaxQueries /\ Move(h, "budget", "select")) \/ Move(h, "budget", "idle")
    BY <1>3 DEF CanQuery, QueriesToday, UnderDayLimit
  <2>2. PICK to \in {"select", "idle"} : Move(h, "budget", to)
    BY <2>1
  <2>3. /\ hpc' \in [Handlers -> Steps]
        /\ rate' <= rate /\ rate' \in Nat
        /\ budget' \in Nat /\ budget' <= Cardinality(Handlers)
    BY <2>2, OneMoves DEF LimitInv, Steps, PastRate, PastBudget
  <2>4. queries' < MaxQueries \/ budget' <= budget
    BY <2>1, OneMoves DEF LimitInv, Steps, PastBudget
  <2>5. queries' + budget' <= MaxQueries + Cardinality(Handlers) - 1
    BY <1>1, <2>1, <2>3, <2>4 DEF LimitInv
  <2> QED
    BY <1>1, <2>1, <2>3, <2>5 DEF LimitInv
<1>4. CASE SelectProvider(h)
  <2>1. PICK to \in {"query", "idle"} : Move(h, "select", to)
    BY <1>4 DEF SelectProvider
  <2> QED
    BY <1>4, <2>1, LimitMove DEF SelectProvider, Steps, PastRate, PastBudget
<1>5. CASE Query(h)
  <2>1. PICK to \in {"charge", "idle"} : Move(h, "query", to)
    BY <1>5 DEF Query
  <2> QED
    BY <1>5, <2>1, LimitMove DEF Query, Steps, PastRate, PastBudget
<1>6. CASE RecordQuery(h)
  <2>1. PICK to \in {"dedup", "idle"} : Move(h, "charge", to)
    BY <1>6 DEF RecordQuery
  <2>2. /\ UNCHANGED hourCount
        /\ queries' = 1 \/ queries' = queries + 1
    BY <1>6 DEF RecordQuery, QueriesToday, LimitInv
  <2>3. /\ hpc' \in [Handlers -> Steps]
        /\ rate' <= rate /\ rate' \in Nat
        /\ budget' = budget - 1 /\ budget' \in Nat
    BY <2>1, OneMoves DEF LimitInv, Steps, PastRate, PastBudget
  <2> QED
    BY <1>1, <2>2, <2>3 DEF LimitInv
<1>7. CASE Dedup(h)
  <2>1. CASE Move(h, "dedup", "idle") /\ UNCHANGED hourCount
    BY <1>7, <2>1, LimitMove DEF Dedup, Steps, PastRate, PastBudget
  <2>2. CASE Move(h, "dedup", "write") /\ hourCount' = hourCount + 1
    <3>1. /\ hpc' \in [Handlers -> Steps]
          /\ rate' = rate - 1 /\ rate' \in Nat
          /\ budget' <= budget /\ budget' \in Nat
      BY <2>2, OneMoves DEF LimitInv, Steps, PastRate, PastBudget
    <3> QED
      BY <1>1, <1>7, <2>2, <3>1 DEF Dedup, LimitInv
  <2> QED
    BY <1>7, <2>1, <2>2 DEF Dedup
<1> QED
  BY <1>2, <1>3, <1>4, <1>5, <1>6, <1>7 DEF ProcessTrigger

(* Every step of the process.                                              *)
LEMMA LimitStep == LimitInv /\ [INext]_ivars => LimitInv'
<1> SUFFICES ASSUME LimitInv, [INext]_ivars PROVE LimitInv'
  OBVIOUS
<1>1. ASSUME NEW h \in Handlers, WriteIntelEvent(h) \/ FlushIntel(h)
      PROVE  LimitInv'
  <2>1. PICK from \in {"write", "flush"}, to \in {"flush", "idle"} : Move(h, from, to)
    BY <1>1 DEF WriteIntelEvent, FlushIntel
  <2>2. UNCHANGED <<hourCount, queries>>
    BY <1>1 DEF WriteIntelEvent, FlushIntel, limitVars
  <2> QED
    BY <2>1, <2>2, LimitMove DEF Steps, PastRate, PastBudget
<1>2. CASE UNCHANGED <<hpc, hourCount, queries>>
  BY <1>2, LimitStays
<1>3. \/ Trigger
      \/ \E h \in Handlers : HandleTrigger(h)
      \/ UNCHANGED <<hpc, hourCount, queries>>
  BY DEF INext, Serve, Interrupt, Shutdown, CloseIntelWriter, Exit, Leaves, OnlyProc,
     TimePasses, FlushPeriodic, ivars, handlerVars, limitVars
<1> QED
  BY <1>1, <1>2, <1>3, TriggerKeepsLimits, ProcessKeepsLimits DEF HandleTrigger

(* However many handlers read a limit before one of them counts, the hourly  *)
(* and the daily limit are overshot by all of them but one at most           *)
(* (brain.go ProcessTrigger, taxonomy.go CanQuery and RecordQuery).          *)
THEOREM LimitsNearlyHold == ISpec => []OvershootBounded
<1>1. LimitInv => OvershootBounded
  <2> SUFFICES ASSUME LimitInv PROVE OvershootBounded
    OBVIOUS
  <2>1. /\ Cardinality(InSteps(PastRate)) \in Nat /\ Cardinality(InSteps(PastBudget)) \in Nat
        /\ Cardinality(Handlers) \in Nat
    BY FewHandlers
  <2> QED
    BY <2>1, IntelAssumption DEF LimitInv, OvershootBounded
<1> QED
  BY <1>1, LimitInit, LimitStep, PTL DEF ISpec
=============================================================================
