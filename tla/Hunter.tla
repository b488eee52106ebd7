------------------------------- MODULE Hunter -------------------------------
(***************************************************************************)
(* The nexus-hunter process (cmd/nexus-hunter/main.go): the discovery        *)
(* pipeline in front of the sniper engine, the control plane and the         *)
(* shutdown sequence.  What the callback onPositionClose learns from a closed *)
(* position is left out.                                                    *)
(*                                                                         *)
(* The stages of the pipeline that only look at the token (sanitizer,        *)
(* analyzer, sell simulation, entity graph, scorer, price impact) are one    *)
(* choice: the token is dropped or passes.  HTTP handlers store the two      *)
(* control flags one after the other, as the code does.                      *)
(*                                                                         *)
(* nexus-hunter never calls Engine.UpdatePrice (only tests do), so the steps *)
(* Price of Sniper are not steps of this process and it has no Workers.      *)
(***************************************************************************)
EXTENDS Sniper

CONSTANTS
    KillCloser,   \* the goroutine of /control/kill that calls ForceClose
    MainCloser    \* main, which calls ForceClose at shutdown

ASSUME HunterAssumption ==
    /\ Closers = {KillCloser, MainCloser} /\ KillCloser # MainCloser
    /\ Workers = {}

VARIABLES
    paused, killed,  \* controlState
    handlers,        \* control handlers between their two stores
    spawned,         \* the kill handler has started its goroutine
    processing,      \* the keys of processingMints
    hpc, target,     \* per scanner goroutine: stage in the pipeline, its pool
    late,            \* per scanner goroutine: positions it opened since the kill switch
    exited           \* main has returned

controlVars == <<paused, killed, handlers, spawned>>
pipeVars == <<processing, hpc, target>>
hunterVars == <<controlVars, pipeVars, late, exited>>
hvars == <<vars, hunterVars>>

PipeStages == {"idle", "received", "seen", "passed", "unkilled", "approved", "sniping",
               "leaving"}

HInit ==
    /\ Init
    /\ paused = FALSE /\ killed = FALSE /\ handlers = {} /\ spawned = FALSE
    /\ processing = {}
    /\ hpc = [d \in Dexes |-> "idle"]
    /\ target = [d \in Dexes |-> NoPos]
    /\ late = [d \in Dexes |-> 0] /\ exited = FALSE

\* Mutant: the kill flag is forgotten.
KillForgotten == FALSE

\* killed.Load(), the first of the two loads of a control check.
KillSeen == killed

MintAt(d) == MintOf[target[d]]

-----------------------------------------------------------------------------
(* The pipeline callback of the scanner                                    *)

Goto(d, stage) == hpc' = [hpc EXCEPT ![d] = stage]

\* A pool the scanner has not seen; the first control check loads killed, then
\* paused.  p stands for the position this pool would become.
Receive(d, p) ==
    /\ hpc[d] = "idle" /\ Unused(p) /\ \A e \in Dexes : target[e] # p
    /\ ~rootDone /\ ~KillSeen
    /\ Goto(d, "received")
    /\ target' = [target EXCEPT ![d] = p]
    /\ UNCHANGED <<vars, controlVars, processing, late, exited>>

Admit(d) ==
    /\ hpc[d] = "received"
    /\ IF paused THEN Goto(d, "idle") /\ target' = [target EXCEPT ![d] = NoPos]
       ELSE Goto(d, "seen") /\ UNCHANGED target
    /\ UNCHANGED <<vars, controlVars, processing, late, exited>>

\* Mutant: Load instead of LoadOrStore.
MintNeverBusy(m) == FALSE

\* processingMints.LoadOrStore
MintBusy(m) == m \in processing

\* The mint is locked; then any stage from the sanitizer to the price impact may
\* drop the token.
Analyse(d) ==
    /\ hpc[d] = "seen"
    /\ IF MintBusy(MintAt(d))
       THEN /\ Goto(d, "idle")
            /\ target' = [target EXCEPT ![d] = NoPos]
            /\ UNCHANGED processing
       ELSE /\ Goto(d, "passed") \/ Goto(d, "leaving")
            /\ processing' = processing \cup {MintAt(d)}
            /\ UNCHANGED target
    /\ UNCHANGED <<vars, controlVars, late, exited>>

\* The second control check, again one load after the other.
Recheck(d) ==
    /\ hpc[d] = "passed"
    /\ Goto(d, IF KillSeen THEN "leaving" ELSE "unkilled")
    /\ UNCHANGED <<vars, controlVars, processing, target, late, exited>>

RecheckPaused(d) ==
    /\ hpc[d] = "unkilled"
    /\ Goto(d, IF paused THEN "leaving" ELSE "approved")
    /\ UNCHANGED <<vars, controlVars, processing, target, late, exited>>

\* sniperEngine.OnDiscovery
Snipe(d) ==
    /\ hpc[d] = "approved"
    /\ Reserve(d, target[d])
    /\ Goto(d, IF BudgetAllows(SpentNow, LossNow) THEN "sniping" ELSE "leaving")
    /\ UNCHANGED <<controlVars, processing, target, late, exited>>

\* Positions opened after the kill switch are counted.
OnDiscoveryStep(d) ==
    /\ hpc[d] = "sniping"
    /\ \/ CheckLimits(d) /\ UNCHANGED late
       \/ (\E o \in AllOutcomes : BuyReturns(d, o)) /\ UNCHANGED late
       \/ Insert(d) /\ late' = IF killed THEN [late EXCEPT ![d] = @ + 1] ELSE late
       \/ RegisterCsm(d) /\ UNCHANGED late
    /\ Goto(d, IF dpc'[d] = "idle" THEN "leaving" ELSE "sniping")
    /\ UNCHANGED <<controlVars, processing, target, exited>>

\* Mutant: no deferred delete.
LeaveLocked(d) ==
    /\ hpc[d] = "leaving"
    /\ Goto(d, "idle")
    /\ target' = [target EXCEPT ![d] = NoPos]
    /\ UNCHANGED <<vars, controlVars, processing, late, exited>>

\* The deferred processingMints.Delete
Leave(d) ==
    /\ hpc[d] = "leaving"
    /\ processing' = processing \ {MintAt(d)}
    /\ Goto(d, "idle")
    /\ target' = [target EXCEPT ![d] = NoPos]
    /\ UNCHANGED <<vars, controlVars, late, exited>>

-----------------------------------------------------------------------------
(* The control plane                                                       *)

\* Resume and kill are two stores each; handlers has those in between.
Pause ==
    /\ ~paused /\ paused' = TRUE
    /\ UNCHANGED <<vars, killed, handlers, spawned, pipeVars,
                   late, exited>>

Resume ==
    /\ "resume" \notin handlers
    /\ paused' = FALSE
    /\ handlers' = handlers \cup {"resume"}
    /\ UNCHANGED <<vars, killed, spawned, pipeVars, late, exited>>

ResumeEnds ==
    /\ "resume" \in handlers
    /\ killed' = FALSE /\ late' = [d \in Dexes |-> 0]
    /\ handlers' = handlers \ {"resume"}
    /\ UNCHANGED <<vars, paused, spawned, pipeVars, exited>>

\* bound: one kill, since KillCloser is one goroutine, and none after the signal,
\* which shuts the HTTP server down.
Kill ==
    /\ "kill" \notin handlers /\ ~spawned /\ ~rootDone
    /\ killed' = TRUE
    /\ handlers' = handlers \cup {"kill"}
    /\ UNCHANGED <<vars, paused, spawned, pipeVars, late, exited>>

KillEnds ==
    /\ "kill" \in handlers
    /\ paused' = TRUE /\ spawned' = TRUE
    /\ handlers' = handlers \ {"kill"}
    /\ UNCHANGED <<vars, killed, pipeVars, late, exited>>

-----------------------------------------------------------------------------
(* Shutdown                                                                *)

\* bound: the signal does not come while a kill is under way, so ForceClose runs
\* once at a time (how it collides with other sellers is what Sniper checks).
Signal ==
    /\ "kill" \notin handlers /\ (spawned => fpc[KillCloser] = "done")
    /\ CancelRoot

\* The kill goroutine starts when it is scheduled, main when the root context
\* is cancelled.
StartForceClose ==
    /\ \/ spawned /\ ForceClose(KillCloser)
       \/ rootDone /\ ForceClose(MainCloser)
    /\ UNCHANGED hunterVars

\* main waits for the scanner goroutines (wg), not for CSMs or sells.
Exit ==
    /\ fpc[MainCloser] = "done" /\ \A d \in Dexes : hpc[d] = "idle"
    /\ exited' = TRUE
    /\ UNCHANGED <<vars, controlVars, pipeVars, late>>

CloserWork(f) ==
    /\ \/ \E p \in Positions : ForceNext(f, p)
       \/ ForceDone(f)
    /\ UNCHANGED hunterVars

Pipeline(d) ==
    \/ Admit(d) \/ Analyse(d) \/ Recheck(d) \/ RecheckPaused(d) \/ Snipe(d)
    \/ OnDiscoveryStep(d) \/ Leave(d)

Control == Pause \/ Resume \/ ResumeEnds \/ Kill \/ KillEnds

Shutdown ==
    \/ (Signal \/ NewDay) /\ UNCHANGED hunterVars
    \/ StartForceClose
    \/ Exit

HNext ==
    /\ ~exited
    /\ \/ \E d \in Dexes : Pipeline(d) \/ \E p \in Positions : Receive(d, p)
       \/ \E s \in Sellers : SellerStep(s) /\ UNCHANGED hunterVars
       \/ \E p \in Positions : CsmStep(p) /\ UNCHANGED hunterVars
       \/ \E f \in Closers : CloserWork(f)
       \/ Control
       \/ Shutdown

HSpec == HInit /\ [][HNext]_hvars

-----------------------------------------------------------------------------
(* Properties                                                              *)

HTypeOK ==
    /\ TypeOK
    /\ paused \in BOOLEAN /\ killed \in BOOLEAN /\ exited \in BOOLEAN
    /\ handlers \subseteq {"resume", "kill"} /\ spawned \in BOOLEAN
    /\ processing \subseteq Mints
    /\ hpc \in [Dexes -> PipeStages]
    /\ target \in [Dexes -> Positions \cup {NoPos}]
    /\ late \in [Dexes -> Nat]

\* Two scanner goroutines never buy the same mint at the same time, although
\* each has its own pool of it (processingMints in the pipeline callback).
MintExclusive ==
    \A d, e \in Dexes :
        d # e /\ dpos[d] # NoPos /\ dpos[e] # NoPos => MintOf[dpos[d]] # MintOf[dpos[e]]

\* After the kill switch each scanner goroutine opens at most one more position,
\* the one whose second control check had loaded killed before.
KillExposure == killed => \A d \in Dexes : late[d] <= 1

\* A mint is marked as being processed only while one goroutine works on it, so
\* whatever way the pipeline returns, the mint can be processed again later.
MintOwned ==
    \A m \in processing :
        \E d \in Dexes : hpc[d] \notin {"idle", "received", "seen"} /\ MintAt(d) = m

=============================================================================
