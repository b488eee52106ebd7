----------------------------- MODULE BatchWriter -----------------------------
(***************************************************************************)
(* The batch writer of ClickHouse rows: internal/clickhouse/writer.go.     *)
(*                                                                         *)
(* Two tables are buffered under one mutex and drained together; the        *)
(* inserts run outside it, one table after the other, in whichever          *)
(* goroutine filled the buffer, in the background goroutine (Bg) or in      *)
(* Close (Closer).  One step is one critical section or one insert.         *)
(*                                                                         *)
(* w.cancel and w.done are written by Start and read by Close without the   *)
(* mutex: Start writes them in two steps and Close may run between them.    *)
(***************************************************************************)
EXTENDS Integers, FiniteSets

CONSTANTS
    Writers,      \* goroutines that call WriteTick and WriteTrade
    Bg, Closer,   \* the goroutine Start spawns, the caller of Close
    Rows,         \* bound: rows ever written
    Ticks,        \* those of Rows that are ticks; the rest are trades
    BatchSize,
    InsertFails   \* bound: whether ClickHouse may refuse an insert

ASSUME WriterAssumption ==
    /\ BatchSize \in Nat \ {0}     \* NewBatchWriter replaces 0 and less by 1000
    /\ Ticks \subseteq Rows /\ IsFiniteSet(Rows)
    /\ Bg \notin Writers /\ Closer \notin Writers /\ Bg # Closer
    /\ InsertFails \in BOOLEAN

Flushers == Writers \cup {Bg, Closer}

VARIABLES
    buf,        \* tickBuf and tradeBuf
    closed,
    flush,      \* per flusher: "none", or the step of Flush it is at
    batch,      \* per flusher: the rows it drained and has not disposed of
    stored,     \* rows in ClickHouse
    lost,       \* rows of failed inserts
    accepted,   \* rows that WriteTick or WriteTrade took
    wcancel,    \* w.cancel is set
    done,       \* w.done: "nil", "open" or "closed"
    bg,         \* the background goroutine
    closer,     \* the caller of Close
    ctxDone,    \* the context of the process is cancelled
    bgDone      \* Close called w.cancel
wvars == <<buf, closed, flush, batch, stored, lost, accepted, wcancel, done,
           bg, closer, ctxDone, bgDone>>
rowVars == <<buf, batch, stored, lost, accepted>>
lifeVars == <<closed, wcancel, done, bg, closer, ctxDone, bgDone>>

WInit ==
    /\ buf = {} /\ stored = {} /\ lost = {} /\ accepted = {}
    /\ flush = [f \in Flushers |-> "none"]
    /\ batch = [f \in Flushers |-> {}]
    /\ closed = FALSE /\ wcancel = FALSE /\ done = "nil"
    /\ bg = "none" /\ closer = "none" /\ ctxDone = FALSE /\ bgDone = FALSE

\* The context a flush of f runs with is cancelled.  The last flush of Bg and
\* the flushes of Closer use context.Background.
Doomed(f) == IF f = Bg THEN bg = "loop" /\ (ctxDone \/ bgDone)
             ELSE f # Closer /\ ctxDone

-----------------------------------------------------------------------------
(* WriteTick, WriteTrade and Flush                                         *)

Idle(f) == flush[f] = "none"

\* A writer that fills the buffer flushes it, after it let go of the mutex.
Write(f, r) ==
    /\ Idle(f)
    /\ ~closed
    /\ buf' = buf \cup {r}
    /\ accepted' = accepted \cup {r}
    /\ flush' = [flush EXCEPT ![f] = IF Cardinality(buf') >= BatchSize
                                     THEN "drain" ELSE "none"]
    /\ UNCHANGED <<batch, stored, lost>>
    /\ UNCHANGED lifeVars

\* Mutant: the buffers are emptied after the inserts, whatever came meanwhile.
DrainLater(f) ==
    /\ flush[f] = "drain"
    /\ batch' = [batch EXCEPT ![f] = buf]
    /\ flush' = [flush EXCEPT ![f] = IF buf = {} THEN "none" ELSE "ticks"]
    /\ UNCHANGED <<buf, stored, lost, accepted>>
    /\ UNCHANGED lifeVars

\* Flush takes both buffers at once and returns when they were empty.
Drain(f) ==
    /\ flush[f] = "drain"
    /\ batch' = [batch EXCEPT ![f] = buf]
    /\ buf' = {}
    /\ flush' = [flush EXCEPT ![f] = IF buf = {} THEN "none" ELSE "ticks"]
    /\ UNCHANGED <<stored, lost, accepted>>
    /\ UNCHANGED lifeVars

\* flushTicks and flushTrades: one batch, sent as a whole or not at all.  The
\* rows of a failed insert are dropped, and the other table is still tried.
Insert(f, rows, next) ==
    /\ \/ stored' = stored \cup rows /\ UNCHANGED lost
       \/ /\ InsertFails \/ Doomed(f)
          /\ lost' = lost \cup rows
          /\ UNCHANGED stored
    /\ batch' = [batch EXCEPT ![f] = @ \ rows]
    /\ flush' = [flush EXCEPT ![f] = next]
    /\ UNCHANGED <<buf, accepted>>
    /\ UNCHANGED lifeVars

FlushTicks(f) == flush[f] = "ticks" /\ Insert(f, batch[f] \cap Ticks, "trades")
FlushTrades(f) == flush[f] = "trades" /\ Insert(f, batch[f], "none")

Flush(f) == Drain(f) \/ FlushTicks(f) \/ FlushTrades(f)

-----------------------------------------------------------------------------
(* Start, the background goroutine and Close                               *)

SetLife(b, c) == bg' = b /\ closer' = c

\* Start: w.cancel first, then w.done and the goroutine.
StartCancel ==
    /\ ~wcancel
    /\ wcancel' = TRUE
    /\ UNCHANGED <<rowVars, flush, closed, done, bg, closer, ctxDone, bgDone>>
StartLoop ==
    /\ wcancel /\ done = "nil"
    /\ done' = "open"
    /\ SetLife("loop", closer)
    /\ UNCHANGED <<rowVars, flush, closed, wcancel, ctxDone, bgDone>>

\* The ticker, and the end of bgCtx with a last flush.
BgTick ==
    /\ bg = "loop" /\ Idle(Bg)
    /\ flush' = [flush EXCEPT ![Bg] = "drain"]
    /\ UNCHANGED <<rowVars, lifeVars>>
BgLast ==
    /\ bg = "loop" /\ Idle(Bg) /\ (ctxDone \/ bgDone)
    /\ flush' = [flush EXCEPT ![Bg] = "drain"]
    /\ SetLife("last", closer)
    /\ UNCHANGED <<rowVars, closed, wcancel, done, ctxDone, bgDone>>
\* Mutant: nobody closes w.done.
BgExitSilently ==
    /\ bg = "last" /\ Idle(Bg)
    /\ SetLife("exited", closer)
    /\ UNCHANGED <<rowVars, flush, closed, wcancel, done, ctxDone, bgDone>>
BgExit ==
    /\ bg = "last" /\ Idle(Bg)
    /\ SetLife("exited", closer)
    /\ done' = "closed"
    /\ UNCHANGED <<rowVars, flush, closed, wcancel, ctxDone, bgDone>>

\* Close: stop the background goroutine if Start has set w.cancel ...
CloseCancel ==
    /\ closer = "close"
    /\ bgDone' = (bgDone \/ wcancel)
    /\ SetLife(bg, IF wcancel THEN "cancelled" ELSE "mark")
    /\ UNCHANGED <<rowVars, flush, closed, wcancel, done, ctxDone>>
\* ... receive from w.done, which blocks for ever when it is still nil ...
CloseAwait ==
    /\ \/ closer = "cancelled" /\ SetLife(bg, IF done = "nil" THEN "stuck" ELSE "await")
       \/ closer = "await" /\ done = "closed" /\ SetLife(bg, "mark")
    /\ UNCHANGED <<rowVars, flush, closed, wcancel, done, ctxDone, bgDone>>
\* ... refuse rows from now on, and flush what is left.
CloseMark ==
    /\ closer = "mark" /\ Idle(Closer)
    /\ closed' = TRUE
    /\ flush' = [flush EXCEPT ![Closer] = "drain"]
    /\ SetLife(bg, "last")
    /\ UNCHANGED <<rowVars, wcancel, done, ctxDone, bgDone>>
CloseReturn ==
    /\ closer = "last" /\ Idle(Closer)
    /\ SetLife(bg, "returned")
    /\ UNCHANGED <<rowVars, flush, closed, wcancel, done, ctxDone, bgDone>>

\* The owner of the writer calls Close; the process is told to stop.
CallClose ==
    /\ closer = "none"
    /\ SetLife(bg, "close")
    /\ UNCHANGED <<rowVars, flush, closed, wcancel, done, ctxDone, bgDone>>
Cancel ==
    /\ ~ctxDone
    /\ ctxDone' = TRUE
    /\ UNCHANGED <<rowVars, flush, closed, wcancel, done, bg, closer, bgDone>>

Background == BgTick \/ BgLast \/ BgExit \/ Flush(Bg)
Start == StartCancel \/ StartLoop
Close == CloseCancel \/ CloseAwait \/ CloseMark \/ CloseReturn \/ Flush(Closer)

-----------------------------------------------------------------------------
(* Properties                                                              *)

(* Every accepted row is in exactly one place: in a buffer, in the hands of *)
(* one flusher, in ClickHouse, or lost with a failed insert (writer.go      *)
(* Flush).  No interleaving of writers, ticker and Close inserts a row      *)
(* twice or drops one silently.                                             *)
RowsConserved ==
    /\ accepted = buf \cup stored \cup lost \cup UNION {batch[f] : f \in Flushers}
    /\ stored \cap lost = {}
    /\ buf \cap (stored \cup lost) = {}
    /\ \A f \in Flushers :
          /\ batch[f] \cap (buf \cup stored \cup lost) = {}
          /\ \A g \in Flushers \ {f} : batch[f] \cap batch[g] = {}
=============================================================================
