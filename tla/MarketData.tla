----------------------------- MODULE MarketData -----------------------------
(***************************************************************************)
(* The nexus-core process: the market data service (internal/market), the  *)
(* quality monitor, the exchange adapters and the producer it uses, the     *)
(* batch writer, and the start and shutdown of cmd/nexus-core/main.go.      *)
(*                                                                         *)
(* A stream is one goroutine that reads the trades or the ticks of one      *)
(* symbol; it handles one event at a time, in the steps of handleTrade and  *)
(* handleTick.  The main goroutine is also the caller of Close.             *)
(***************************************************************************)
EXTENDS BatchWriter

CONSTANTS
    StreamOf,     \* the stream each event (a row) comes from
    AlertCap      \* capacity of Monitor.alertCh

ASSUME MarketAssumption ==
    StreamOf \in [Rows -> Writers] /\ AlertCap \in Nat \ {0}

VARIABLES
    main,         \* the main goroutine
    spc,          \* per stream: "off", "select", or the step of its handler
    event,        \* per stream: the event it handles, {} or a singleton
    taken,        \* the events read from the adapters
    published,    \* events handed to the producer
    prodClosed,   \* KafkaProducer.closed
    alerts,       \* alerts in alertCh
    monitor       \* the goroutine of Monitor.Start
mainVars == <<main, prodClosed>>
streamVars == <<spc, event, taken, published>>
alertVars == <<alerts, monitor>>
mvars == <<wvars, mainVars, streamVars, alertVars>>

Streams == Writers

MInit ==
    /\ WInit
    /\ main = "boot" /\ prodClosed = FALSE
    /\ spc = [s \in Streams |-> "off"]
    /\ event = [s \in Streams |-> {}]
    /\ taken = {} /\ published = {}
    /\ alerts = 0 /\ monitor = "off"

-----------------------------------------------------------------------------
(* The quality monitor                                                     *)

\* emitAlert drops what does not fit; it never blocks.
Emit(n) == alerts' = IF alerts + n > AlertCap THEN AlertCap ELSE alerts + n

\* checkStaleFeeds raises one alert for each stale feed.
CheckStaleFeeds ==
    /\ monitor = "running"
    /\ \E stale \in SUBSET Streams : Emit(Cardinality(stale))
    /\ UNCHANGED <<monitor, wvars, mainVars, streamVars>>
MonitorStops ==
    /\ monitor = "running" /\ ctxDone
    /\ monitor' = "done"
    /\ UNCHANGED <<alerts, wvars, mainVars, streamVars>>
\* The logger of main.go ranges over the channel, which nobody closes.
LogAlert ==
    /\ alerts > 0
    /\ alerts' = alerts - 1
    /\ UNCHANGED <<monitor, wvars, mainVars, streamVars>>

-----------------------------------------------------------------------------
(* The streams                                                             *)

At(s, from, to) == spc[s] = from /\ spc' = [spc EXCEPT ![s] = to]

\* An event arrives; RecordTrade and RecordTick raise an alert when it lags.
Receive(s, r) ==
    /\ At(s, "select", "publish")
    /\ StreamOf[r] = s /\ r \notin taken
    /\ taken' = taken \cup {r}
    /\ event' = [event EXCEPT ![s] = {r}]
    /\ \E lagging \in 0 .. 1 : Emit(lagging)
    /\ UNCHANGED <<published, monitor, wvars, mainVars>>

\* publishJSON: a closed producer refuses, the error is logged only.
Publish(s) ==
    /\ At(s, "publish", "write")
    /\ published' = IF prodClosed THEN published ELSE published \cup event[s]
    /\ UNCHANGED <<event, taken, alertVars, wvars, mainVars>>

WriteEvent(s, r) ==
    /\ At(s, "write", "features")
    /\ event[s] = {r}
    /\ IF closed THEN UNCHANGED wvars ELSE Write(s, r)
    /\ UNCHANGED <<event, taken, published, alertVars, mainVars>>
FlushFull(s) == Flush(s) /\ UNCHANGED <<mainVars, streamVars, alertVars>>

\* The features of the event (module Features) are published.
PublishFeatures(s) ==
    /\ At(s, "features", "select") /\ Idle(s)
    /\ event' = [event EXCEPT ![s] = {}]
    /\ UNCHANGED <<taken, published, alertVars, wvars, mainVars>>

Leave(s) == At(s, "select", "done")
            /\ UNCHANGED <<event, taken, published, alertVars, wvars, mainVars>>
StreamStops(s) == ctxDone /\ Leave(s)
ChannelCloses(s) == ~ctxDone /\ Leave(s)

HandleEvent(s) ==
    \/ Publish(s)
    \/ \E r \in Rows : WriteEvent(s, r)
    \/ FlushFull(s)
    \/ PublishFeatures(s)

-----------------------------------------------------------------------------
(* The main goroutine, the goroutine that starts the writer, the signal     *)

Phase(from, to) == main = from /\ main' = to
OthersStay == UNCHANGED <<streamVars, alertVars>>

\* main spawns the alert logger and the goroutine of the writer; svc.Start
\* connects the adapters and starts the streams of those that answered.
Boot ==
    /\ Phase("boot", "serving")
    /\ monitor' = "running"
    /\ \E up \in SUBSET Streams :
          spc' = [s \in Streams |-> IF s \in up THEN "select" ELSE "off"]
    /\ UNCHANGED <<event, taken, published, alerts, prodClosed, wvars>>

StartWriter ==
    /\ main # "boot"
    /\ Start
    /\ UNCHANGED mainVars /\ OthersStay

Signal == Cancel /\ UNCHANGED mainVars /\ OthersStay

\* Mutant: Stop does not wait for the streams.
DrainStreamsAtOnce ==
    /\ ctxDone
    /\ Phase("serving", "drained")
    /\ UNCHANGED <<prodClosed, wvars>> /\ OthersStay

\* svc.Start and svc.Stop wait for the streams and the quality monitor.
DrainStreams ==
    /\ ctxDone
    /\ \A s \in Streams : spc[s] \in {"off", "done"}
    /\ monitor = "done"
    /\ Phase("serving", "drained")
    /\ UNCHANGED <<prodClosed, wvars>> /\ OthersStay

\* Stop: flush, then close the writer, then the producer.
StopFlush ==
    /\ Phase("drained", "flushing")
    /\ flush' = [flush EXCEPT ![Closer] = "drain"]
    /\ UNCHANGED <<rowVars, lifeVars, prodClosed>> /\ OthersStay
StopClose ==
    /\ Phase("flushing", "closing") /\ Idle(Closer)
    /\ CallClose
    /\ UNCHANGED prodClosed /\ OthersStay
StopProducer ==
    /\ Phase("closing", "stopped") /\ closer = "returned"
    /\ prodClosed' = TRUE
    /\ UNCHANGED wvars /\ OthersStay

Stop == DrainStreams \/ StopFlush \/ StopClose \/ StopProducer
CloseWriter == Close /\ UNCHANGED mainVars /\ OthersStay
RunWriter == Background /\ UNCHANGED mainVars /\ OthersStay

MNext ==
    \/ CheckStaleFeeds \/ MonitorStops \/ LogAlert
    \/ \E s \in Streams, r \in Rows : Receive(s, r)
    \/ \E s \in Streams : HandleEvent(s) \/ StreamStops(s) \/ ChannelCloses(s)
    \/ Boot \/ StartWriter \/ Signal \/ Stop \/ CloseWriter \/ RunWriter

MSpec == MInit /\ [][MNext]_mvars

\* The scheduler runs every goroutine that can move.  A select whose context
\* is done takes that branch at the latest when no event is left.
MFairness ==
    /\ WF_mvars(Boot) /\ WF_mvars(StartWriter) /\ WF_mvars(Stop)
    /\ WF_mvars(CloseWriter) /\ WF_mvars(MonitorStops)
    /\ SF_mvars(BgLast /\ UNCHANGED mainVars /\ OthersStay)
    /\ WF_mvars((BgExit \/ Flush(Bg)) /\ UNCHANGED mainVars /\ OthersStay)
    /\ \A s \in Streams : WF_mvars(HandleEvent(s)) /\ WF_mvars(StreamStops(s))

MFairSpec == MSpec /\ MFairness

-----------------------------------------------------------------------------
(* Properties                                                              *)

(* When Service.Stop has returned, no event that a stream read and the      *)
(* writer took is still in memory: each is in ClickHouse or its insert      *)
(* failed, and no stream publishes any more (service.go Stop).              *)
StopDrains ==
    main = "stopped" =>
        /\ accepted = stored \cup lost
        /\ taken \subseteq accepted /\ taken \subseteq published

(* After the signal Stop returns, whatever the streams, the ticker and the  *)
(* quality monitor are doing - unless Close read w.done before Start had    *)
(* made it, and receives from a nil channel for ever (writer.go Close).     *)
StopReturns == ctxDone ~> main = "stopped" \/ closer = "stuck"
=============================================================================
