----------------------------- MODULE MCServices -----------------------------
(***************************************************************************)
(* Small instances of the two service processes, side by side: the first     *)
(* state picks nexus-core (MarketData: two streams, three rows) or            *)
(* nexus-intel (Intel: a caller of the trigger engine and the scheduler), and *)
(* only that one moves.  The fairness is that of nexus-core, while it is picked;*)
(* nexus-intel is only asked for safety.                                     *)
(***************************************************************************)
EXTENDS MarketData, Intel

CONSTANTS e1, e2, e3, s1, s2

VARIABLE process
svars == <<process, mvars, ivars>>

ServicesInit == process \in {"core", "intel"} /\ MInit /\ IInit

CoreStep(A) == process = "core" /\ A /\ UNCHANGED <<process, ivars>>
IntelStep(A) == process = "intel" /\ A /\ UNCHANGED <<process, mvars>>

ServicesNext == CoreStep(MNext) \/ IntelStep(INext)

CoreFairness ==
    /\ WF_svars(CoreStep(Boot)) /\ WF_svars(CoreStep(StartWriter))
    /\ WF_svars(CoreStep(Stop)) /\ WF_svars(CoreStep(CloseWriter))
    /\ WF_svars(CoreStep(MonitorStops))
    /\ SF_svars(CoreStep(BgLast /\ UNCHANGED mainVars /\ OthersStay))
    /\ WF_svars(CoreStep((BgExit \/ Flush(Bg)) /\ UNCHANGED mainVars /\ OthersStay))
    /\ \A s \in Streams :
          WF_svars(CoreStep(HandleEvent(s))) /\ WF_svars(CoreStep(StreamStops(s)))
ServicesSpec ==
    ServicesInit /\ [][ServicesNext]_svars /\ CoreFairness

TwoStreams == [r \in Rows |-> IF r = e2 THEN s2 ELSE s1]
=============================================================================
