---------------------------- MODULE HunterProofs ----------------------------
(***************************************************************************)
(* Theorems about the process nexus-hunter for every number of positions,    *)
(* mints and scanner goroutines.                                            *)
(***************************************************************************)
EXTENDS Hunter, SniperProofs

(* A goroutine in the pipeline works on some pool.                           *)
PipeType ==
    /\ hpc \in [Dexes -> PipeStages]
    /\ target \in [Dexes -> Positions \cup {NoPos}]
    /\ \A d \in Dexes : hpc[d] # "idle" => target[d] \in Positions

(* The steps of one goroutine in the pipeline.                               *)
LEMMA PipeMoves ==
    ASSUME PipeType, NEW d \in Dexes, Pipeline(d)
    PROVE  /\ hpc[d] # "idle" /\ target[d] \in Positions
           /\ \A e \in Dexes : e # d => hpc'[e] = hpc[e] /\ target'[e] = target[e]
           /\ hpc' \in [Dexes -> PipeStages]
           /\ \/ target'[d] = target[d] /\ hpc'[d] # "idle"
              \/ target'[d] = NoPos /\ hpc'[d] = "idle"
           /\ target' \in [Dexes -> Positions \cup {NoPos}]
<1> USE DEF PipeType, PipeStages, Goto
<1>1. CASE Admit(d) \/ Analyse(d)
    BY <1>1 DEF Admit, Analyse
<1>2. CASE Recheck(d) \/ RecheckPaused(d)
    BY <1>2 DEF Recheck, RecheckPaused
<1>3. CASE Snipe(d)
    BY <1>3 DEF Snipe
<1>4. CASE OnDiscoveryStep(d)
    BY <1>4 DEF OnDiscoveryStep
<1>5. CASE Leave(d)
    BY <1>5 DEF Leave
<1> QED BY <1>1, <1>2, <1>3, <1>4, <1>5 DEF Pipeline

(* What the other goroutines and handlers do to the pipelines.               *)
LEMMA OtherMoves ==
    ASSUME [HNext]_hvars
    PROVE  \/ \E d \in Dexes : Pipeline(d)
           \/ \E d \in Dexes, p \in Positions : Receive(d, p)
           \/ UNCHANGED pipeVars
    BY DEF HNext, hvars, hunterVars, CloserWork, Control, Pause, Resume, ResumeEnds, Kill,
           KillEnds, Shutdown, Signal, StartForceClose, Exit

\* The types, in every state.
LEMMA PipeTyped == HSpec => []PipeType
<1> USE SniperAssumption
<1>1. HInit => PipeType
    BY DEF HInit, PipeType, PipeStages
<1>2. PipeType /\ [HNext]_hvars => PipeType'
    <2> SUFFICES ASSUME PipeType, [HNext]_hvars PROVE PipeType'
        OBVIOUS
    <2>1. ASSUME NEW d \in Dexes, Pipeline(d) PROVE PipeType'
        BY <2>1, PipeMoves DEF PipeType
    <2>2. ASSUME NEW d \in Dexes, NEW p \in Positions, Receive(d, p) PROVE PipeType'
        BY <2>2 DEF Receive, PipeType, PipeStages, Goto
    <2>3. CASE UNCHANGED pipeVars
        BY <2>3 DEF pipeVars, PipeType
    <2> QED BY OtherMoves, <2>1, <2>2, <2>3
<1> QED BY <1>1, <1>2, PTL DEF HSpec

(* The engine inside the process behaves as the engine does on its own, so     *)
(* every theorem about Sniper holds of nexus-hunter too (main.go touches the   *)
(* engine only through OnDiscovery and ForceClose).                            *)
THEOREM EngineWithin == HSpec => Spec
<1> USE HunterAssumption
<1>1. HInit => Init
    BY DEF HInit
<1>2. PipeType /\ [HNext]_hvars => [Next]_vars
    <2> SUFFICES ASSUME PipeType, [HNext]_hvars PROVE [Next]_vars
        OBVIOUS
    <2>1. ASSUME NEW d \in Dexes, Pipeline(d) PROVE [Next]_vars
        <3>1. CASE Snipe(d)
            BY <2>1, <3>1, PipeMoves DEF Snipe, Next, Discover
        <3>2. CASE OnDiscoveryStep(d)
            BY <3>2 DEF OnDiscoveryStep, Next, Discover
        <3>3. CASE Admit(d) \/ Analyse(d) \/ Recheck(d) \/ RecheckPaused(d) \/ Leave(d)
            BY <3>3 DEF Admit, Analyse, Recheck, RecheckPaused, Leave
        <3> QED BY <2>1, <3>1, <3>2, <3>3 DEF Pipeline
    <2>2. ASSUME NEW d \in Dexes, NEW p \in Positions, Receive(d, p) PROVE [Next]_vars
        BY <2>2 DEF Receive
    <2>3. ASSUME NEW f \in Closers, CloserWork(f) PROVE [Next]_vars
        BY <2>3 DEF CloserWork, Next, CloserStep
    <2>4. CASE Control
        BY <2>4 DEF Control, Pause, Resume, ResumeEnds, Kill, KillEnds
    <2>5. CASE Shutdown
        BY <2>5 DEF Shutdown, Signal, StartForceClose, Exit, Next, CloserStep
    <2>6. CASE UNCHANGED hvars
        BY <2>6 DEF hvars
    <2>7. ASSUME NEW s \in Sellers, SellerStep(s) PROVE [Next]_vars
        BY <2>7 DEF Next
    <2>8. ASSUME NEW p \in Positions, CsmStep(p) PROVE [Next]_vars
        BY <2>8 DEF Next
    <2> QED BY <2>1, <2>2, <2>3, <2>4, <2>5, <2>6, <2>7, <2>8 DEF HNext
<1> QED BY <1>1, <1>2, PipeTyped, PTL DEF HSpec, Spec

-----------------------------------------------------------------------------
(* processingMints: MintExclusive and MintOwned                            *)

Working(d) == hpc[d] \notin {"idle", "received", "seen"}

(* A goroutine past LoadOrStore holds its mint, alone.                        *)
Holds == \A d \in Dexes : Working(d) => MintAt(d) \in processing
Alone == \A d, e \in Dexes : d # e /\ Working(d) /\ Working(e) => MintAt(d) # MintAt(e)

(* OnDiscovery runs inside the pipeline, for its pool.                        *)
Within ==
    \A d \in Dexes : dpos[d] # NoPos => hpc[d] = "sniping" /\ dpos[d] = target[d]

MintInv == Holds /\ Alone /\ MintOwned /\ Within

(* How a step of the pipeline relates to the lock on the mint.                *)
LEMMA MintMoves ==
    ASSUME PipeType, NEW d \in Dexes, Pipeline(d)
    PROVE  \/ /\ ~Working(d) /\ Working(d)' /\ MintAt(d) \notin processing
              /\ processing' = processing \cup {MintAt(d)}
           \/ ~Working(d) /\ ~Working(d)' /\ UNCHANGED processing
           \/ Working(d) /\ Working(d)' /\ UNCHANGED processing
           \/ /\ Working(d) /\ ~Working(d)'
              /\ processing' = processing \ {MintAt(d)}
<1> USE DEF PipeType, PipeStages, Goto, Working
<1>1. CASE Admit(d) \/ Analyse(d)
    BY <1>1 DEF Admit, Analyse, MintBusy
<1>2. CASE Recheck(d) \/ RecheckPaused(d)
    BY <1>2 DEF Recheck, RecheckPaused
<1>3. CASE Snipe(d)
    BY <1>3 DEF Snipe
<1>4. CASE OnDiscoveryStep(d)
    BY <1>4 DEF OnDiscoveryStep
<1>5. CASE Leave(d)
    BY <1>5 DEF Leave
<1> QED BY <1>1, <1>2, <1>3, <1>4, <1>5 DEF Pipeline

(* How it relates to OnDiscovery.                                             *)
LEMMA BuyMoves ==
    ASSUME PipeType, Within, NEW d \in Dexes, Pipeline(d),
           dpos \in [Dexes -> Positions \cup {NoPos}], dpc \in [Dexes -> DiscoverStages]
    PROVE  /\ \A e \in Dexes : e # d => dpos'[e] = dpos[e]
           /\ dpos'[d] # NoPos => hpc'[d] = "sniping" /\ dpos'[d] = target'[d]
<1> USE DEF PipeType, PipeStages, Goto, Within
<1>1. CASE Admit(d) \/ Analyse(d) \/ Recheck(d) \/ RecheckPaused(d) \/ Leave(d)
    BY <1>1 DEF Admit, Analyse, Recheck, RecheckPaused, Leave, vars, discVars
<1>2. CASE Snipe(d)
    BY <1>2 DEF Snipe, Reserve, discVars
<1>3. CASE OnDiscoveryStep(d)
    <2>1. CASE CheckLimits(d)
        BY <1>3, <2>1 DEF OnDiscoveryStep, CheckLimits
    <2>2. ASSUME NEW o \in AllOutcomes, BuyReturns(d, o)
          PROVE  /\ \A e \in Dexes : e # d => dpos'[e] = dpos[e]
                 /\ dpos'[d] # NoPos => hpc'[d] = "sniping" /\ dpos'[d] = target'[d]
        BY <1>3, <2>2 DEF OnDiscoveryStep, BuyReturns
    <2>3. CASE Insert(d)
        BY <1>3, <2>3 DEF OnDiscoveryStep, Insert
    <2>4. CASE RegisterCsm(d)
        BY <1>3, <2>4 DEF OnDiscoveryStep, RegisterCsm
    <2> QED BY <1>3, <2>1, <2>2, <2>3, <2>4 DEF OnDiscoveryStep
<1> QED BY <1>1, <1>2, <1>3 DEF Pipeline

(* Steps outside the pipeline do not touch OnDiscovery, and only those of the   *)
(* control plane touch its flags.                                              *)
LEMMA OthersDoNotBuy ==
    ASSUME [HNext]_hvars
    PROVE  \/ \E d \in Dexes : Pipeline(d)
           \/ UNCHANGED <<dpos, dpc>> /\ (Control \/ UNCHANGED <<killed, late>>)
<1> DEFINE Same == UNCHANGED <<dpos, dpc>>
           Flags == UNCHANGED <<killed, late>>
<1>1. ASSUME NEW s \in Sellers, SellerStep(s) PROVE Same
    BY <1>1 DEF SellerStep, EnterSell, SubmitSell, SubmitPartial, ConfirmSell, ConfirmPartial,
                SwapReturns, SettleFailed, SettleSold, SettlePartial, discVars
<1>2. ASSUME NEW p \in Positions, CsmStep(p) PROVE Same
    BY <1>2 DEF CsmStep, CsmTick, CsmStop, CsmQuiet, CsmPanic, CsmWarn, CheckEnds, discVars
<1>3. ASSUME NEW f \in Closers, CloserWork(f) PROVE Same /\ Flags
    BY <1>3 DEF CloserWork, ForceNext, ForceDone, discVars, hunterVars, controlVars
<1>4. CASE Control
    BY <1>4 DEF Control, Pause, Resume, ResumeEnds, Kill, KillEnds, vars, discVars
<1>5. CASE Shutdown
    BY <1>5 DEF Shutdown, Signal, CancelRoot, NewDay, StartForceClose, ForceClose, Exit, vars,
                discVars, hunterVars, controlVars
<1>6. ASSUME NEW d \in Dexes, NEW p \in Positions, Receive(d, p) PROVE Same /\ Flags
    BY <1>6 DEF Receive, vars, discVars, controlVars
<1> QED BY <1>1, <1>2, <1>3, <1>4, <1>5, <1>6
        DEF HNext, hvars, vars, discVars, hunterVars, controlVars

\* Where a mint is, in every state.
LEMMA MintInvariant == HSpec => []MintInv
<1> USE SniperAssumption
<1>1. HInit => MintInv
    BY DEF HInit, Init, MintInv, Holds, Alone, MintOwned, Within, Working
<1>2. TypeOK /\ PipeType /\ MintInv /\ [HNext]_hvars => MintInv'
    <2> SUFFICES ASSUME TypeOK, PipeType, MintInv, [HNext]_hvars PROVE MintInv'
        OBVIOUS
    <2>t. dpos \in [Dexes -> Positions \cup {NoPos}] /\ dpc \in [Dexes -> DiscoverStages]
        BY DEF TypeOK
    <2>1. ASSUME NEW d \in Dexes, Pipeline(d) PROVE MintInv'
        <3>1. /\ target[d] \in Positions
              /\ \A e \in Dexes : e # d => hpc'[e] = hpc[e] /\ target'[e] = target[e]
              /\ Working(d)' => target'[d] = target[d]
            BY <2>1, PipeMoves DEF Working
        <3>2. /\ Within'
            BY <2>1, <2>t, <3>1, BuyMoves DEF MintInv, Within
        <3>3. \A e \in Dexes : e # d => MintAt(e)' = MintAt(e) /\ (Working(e)' <=> Working(e))
            BY <3>1 DEF MintAt, Working
        <3>4. Working(d)' => MintAt(d)' = MintAt(d)
            BY <3>1 DEF MintAt
        <3> HIDE DEF MintAt, Working
        <3>5. CASE /\ ~Working(d) /\ Working(d)' /\ MintAt(d) \notin processing
                   /\ processing' = processing \cup {MintAt(d)}
            BY <3>2, <3>3, <3>4, <3>5 DEF MintInv, Holds, Alone, MintOwned, Working
        <3>6. CASE ~Working(d) /\ ~Working(d)' /\ UNCHANGED processing
            BY <3>2, <3>3, <3>6 DEF MintInv, Holds, Alone, MintOwned, Working
        <3>7. CASE Working(d) /\ Working(d)' /\ UNCHANGED processing
            BY <3>2, <3>3, <3>4, <3>7 DEF MintInv, Holds, Alone, MintOwned, Working
        <3>8. CASE Working(d) /\ ~Working(d)' /\ processing' = processing \ {MintAt(d)}
            BY <3>2, <3>3, <3>8 DEF MintInv, Holds, Alone, MintOwned, Working
        <3> QED BY <2>1, <3>5, <3>6, <3>7, <3>8, MintMoves
    <2>2. ASSUME NEW d \in Dexes, NEW p \in Positions, Receive(d, p) PROVE MintInv'
        <3>1. /\ UNCHANGED <<dpos, processing>> /\ hpc[d] = "idle"
              /\ ~Working(d) /\ ~Working(d)'
              /\ \A e \in Dexes : e # d => hpc'[e] = hpc[e] /\ target'[e] = target[e]
            BY <2>2 DEF Receive, PipeType, Goto, Working, vars, discVars
        <3>2. \A e \in Dexes : e # d => MintAt(e)' = MintAt(e) /\ (Working(e)' <=> Working(e))
            BY <3>1 DEF MintAt, Working
        <3>3. dpos[d] = NoPos
            BY <3>1 DEF MintInv, Within
        <3>4. Within'
            BY <3>1, <3>3 DEF MintInv, Within
        <3> QED BY <3>1, <3>2, <3>4 DEF MintInv, Holds, Alone, MintOwned, Working
    <2>3. CASE UNCHANGED pipeVars /\ UNCHANGED dpos
        BY <2>3 DEF pipeVars, MintInv, Holds, Alone, MintOwned, Within, Working, MintAt
    <2> QED BY OtherMoves, OthersDoNotBuy, <2>1, <2>2, <2>3
<1> QED BY <1>1, <1>2, PipeTyped, EngineWithin, TypeCorrect, PTL DEF HSpec

(* Whatever number of scanners discover pools of the same mint at the same     *)
(* time, two of them are never in OnDiscovery for it together (MintExclusive), *)
(* since LoadOrStore lets one of them in and the others go.                    *)
THEOREM MintsExclusive == HSpec => []MintExclusive
<1>1. MintInv => MintExclusive
    BY DEF MintInv, Within, Alone, Working, MintAt, MintExclusive
<1> QED BY <1>1, MintInvariant, PTL

(* Every return of the pipeline callback unlocks its mint and no other         *)
(* (MintOwned): a locked mint has a goroutine that is still going to leave.    *)
THEOREM MintsOwned == HSpec => []MintOwned
<1>1. MintInv => MintOwned
    BY DEF MintInv
<1> QED BY <1>1, MintInvariant, PTL
----

(* What a goroutine opened since the kill switch, at most one position, it      *)
(* opened in an OnDiscovery that it has not left or after which it is done.     *)
KillInv ==
    \A d \in Dexes :
        /\ late[d] \in {0, 1}
        /\ ~killed => late[d] = 0
        /\ late[d] = 1 => \/ hpc[d] \in {"idle", "leaving"}
                          \/ hpc[d] = "sniping" /\ dpc[d] = "inserted"

\* A step of one pipeline leaves the others and the kill switch alone.
LEMMA KillMoves ==
    ASSUME PipeType, KillInv, late \in [Dexes -> Nat], dpc \in [Dexes -> DiscoverStages],
           NEW d \in Dexes, Pipeline(d)
    PROVE  /\ UNCHANGED killed
           /\ \A e \in Dexes : e # d =>
                /\ late'[e] = late[e] /\ hpc'[e] = hpc[e] /\ dpc'[e] = dpc[e]
           /\ late'[d] \in {0, 1}
           /\ ~killed => late'[d] = 0
           /\ late'[d] = 1 => \/ hpc'[d] \in {"idle", "leaving"}
                              \/ hpc'[d] = "sniping" /\ dpc'[d] = "inserted"
<1> DEFINE Goal == /\ UNCHANGED killed
                   /\ \A e \in Dexes : e # d =>
                        /\ late'[e] = late[e] /\ hpc'[e] = hpc[e] /\ dpc'[e] = dpc[e]
                   /\ late'[d] \in {0, 1}
                   /\ ~killed => late'[d] = 0
                   /\ late'[d] = 1 => \/ hpc'[d] \in {"idle", "leaving"}
                                      \/ hpc'[d] = "sniping" /\ dpc'[d] = "inserted"
<1> USE DEF PipeType, PipeStages, Goto, KillInv, controlVars
<1>1. CASE Admit(d) \/ Analyse(d) \/ Recheck(d) \/ RecheckPaused(d) \/ Leave(d)
    BY <1>1 DEF Admit, Analyse, Recheck, RecheckPaused, Leave, vars, discVars
<1>2. CASE Snipe(d)
    BY <1>2 DEF Snipe, Reserve, discVars
<1>3. CASE OnDiscoveryStep(d)
    <2>1. CASE CheckLimits(d) /\ UNCHANGED late
        BY <1>3, <2>1 DEF OnDiscoveryStep, CheckLimits
    <2>2. ASSUME NEW o \in AllOutcomes, BuyReturns(d, o), UNCHANGED late PROVE Goal
        BY <1>3, <2>2 DEF OnDiscoveryStep, BuyReturns
    <2>3. CASE Insert(d) /\ late' = IF killed THEN [late EXCEPT ![d] = @ + 1] ELSE late
        BY <1>3, <2>3 DEF OnDiscoveryStep, Insert
    <2>4. CASE RegisterCsm(d) /\ UNCHANGED late
        BY <1>3, <2>4 DEF OnDiscoveryStep, RegisterCsm
    <2> QED BY <1>3, <2>1, <2>2, <2>3, <2>4 DEF OnDiscoveryStep
<1> QED BY <1>1, <1>2, <1>3 DEF Pipeline

(* Whatever number of scanners run, the exposure added after the kill switch is *)
(* bounded by one position each (KillExposure): the second control check of the *)
(* pipeline stops every pool that had not loaded killed.                            *)
THEOREM KillBounded == HSpec => []KillExposure
<1> USE SniperAssumption
<1> DEFINE Inv == late \in [Dexes -> Nat] /\ KillInv
<1>1. HInit => Inv
    BY DEF HInit, KillInv
<1>2. TypeOK /\ PipeType /\ Inv /\ [HNext]_hvars => Inv'
    <2> SUFFICES ASSUME TypeOK, PipeType, Inv, [HNext]_hvars PROVE Inv'
        OBVIOUS
    <2>t. dpc \in [Dexes -> DiscoverStages] /\ late \in [Dexes -> Nat]
        BY DEF TypeOK
    <2>1. ASSUME NEW d \in Dexes, Pipeline(d) PROVE Inv'
        <3>1. late' \in [Dexes -> Nat]
            BY <2>1, <2>t DEF Pipeline, Admit, Analyse, Recheck, RecheckPaused, Snipe,
                          OnDiscoveryStep, Leave
        <3>2. KillInv'
            BY <2>1, <2>t, KillMoves DEF KillInv
        <3> QED BY <3>1, <3>2
    <2>2. ASSUME NEW d \in Dexes, NEW p \in Positions, Receive(d, p) PROVE Inv'
        BY <2>2 DEF Receive, PipeType, Goto, KillInv, KillSeen, controlVars, vars, discVars
    <2>3. CASE Control
        BY <2>3 DEF Control, Pause, Resume, ResumeEnds, Kill, KillEnds, KillInv, pipeVars, vars,
                    discVars
    <2>4. CASE UNCHANGED pipeVars /\ UNCHANGED <<late, killed, dpc>>
        BY <2>4 DEF KillInv, pipeVars
    <2> QED BY <2>1, <2>2, <2>3, <2>4, OtherMoves, OthersDoNotBuy
<1>3. Inv => KillExposure
    BY DEF KillInv, KillExposure
<1> QED BY <1>1, <1>2, <1>3, PipeTyped, EngineWithin, TypeCorrect, PTL DEF HSpec
=============================================================================
