------------------------------ MODULE Clusters ------------------------------
(***************************************************************************)
(* Tokens that come from one deployer cluster: internal/correlation/         *)
(* crosstoken.go.  Every operation holds the mutex.  The pattern and the      *)
(* risk of a cluster are stored when something happens to it; time passes    *)
(* without an operation.  Time is in whole hours; what a token is worth only  *)
(* matters against its peak.                                                *)
(***************************************************************************)
EXTENDS Integers, Sequences, FiniteSets

CONSTANTS
    ClusterIds, Mints,
    LaunchMcaps, Mcaps,
    RotationWindow, SerialThreshold, RotationDropPct, MaxClusters,
    Day,            \* the 24 hours that launches are counted over
    IdleHours,      \* the argument of Cleanup
    LastHour,       \* bound: time
    MaxLaunches     \* bound: tokens of one cluster

ASSUME ClustersAssumption ==
    /\ RotationWindow \in Nat /\ Day \in Nat /\ RotationWindow <= Day
    /\ SerialThreshold \in Nat /\ MaxClusters \in Nat \ {0}
    /\ IdleHours \in Nat /\ LaunchMcaps \cup Mcaps \subseteq Nat \ {0}

VARIABLES
    hour,
    clusters    \* tracked: their ActiveTokens, Pattern, RiskLevel, LastUpdated
cvars == <<hour, clusters>>

ClustersInit == hour = 0 /\ clusters = <<>>

-----------------------------------------------------------------------------
(* recalculate and assessRisk, of tokens at a time                          *)

LaunchedWithin(refs, h) == Cardinality({i \in DOMAIN refs : hour - refs[i].launched <= h})
InStatus(refs, s) == Cardinality({i \in DOMAIN refs : refs[i].status = s})

PatternOf(refs) ==
    LET pumping == InStatus(refs, "PUMPING") > 0
        dumped == InStatus(refs, "DUMPED") > 0
        several == LaunchedWithin(refs, RotationWindow) >= 2
    IN  IF \/ InStatus(refs, "RUGGED") >= 2
           \/ LaunchedWithin(refs, Day) >= SerialThreshold THEN "SERIAL"
        ELSE IF pumping /\ dumped /\ several THEN "ROTATION"
        ELSE IF ~pumping /\ ~dumped /\ several THEN "DISTRACTION"
        ELSE "NONE"

RiskOf(refs) ==
    IF InStatus(refs, "RUGGED") >= 2 THEN "CRITICAL"
    ELSE IF PatternOf(refs) = "ROTATION" THEN "HIGH"
    ELSE IF LaunchedWithin(refs, Day) >= SerialThreshold + 2 THEN "CRITICAL"
    ELSE IF PatternOf(refs) = "SERIAL" THEN "HIGH"
    ELSE IF LaunchedWithin(refs, RotationWindow) >= 2 THEN "MEDIUM"
    ELSE "LOW"

Recalculated(refs, updated) ==
    [refs |-> refs, pattern |-> PatternOf(refs), risk |-> RiskOf(refs), updated |-> updated]

-----------------------------------------------------------------------------
(* The operations                                                           *)

Put(c, state) == [d \in DOMAIN clusters \cup {c} |-> IF d = c THEN state ELSE clusters[d]]
LeastRecent ==
    {c \in DOMAIN clusters :
        \A d \in DOMAIN clusters : clusters[c].updated <= clusters[d].updated}

Launch(m, v) == [mint |-> m, launched |-> hour, status |-> "ALIVE", peak |-> v]

RecordTokenLaunch(c, m, v) ==
    /\ IF c \in DOMAIN clusters
       THEN /\ Len(clusters[c].refs) < MaxLaunches
            /\ clusters' = Put(c, Recalculated(Append(clusters[c].refs, Launch(m, v)), hour))
       ELSE \E gone \in IF Cardinality(DOMAIN clusters) >= MaxClusters
                        THEN {{d} : d \in LeastRecent} ELSE {{}} :
                clusters' = [d \in (DOMAIN clusters \ gone) \cup {c} |->
                                IF d = c THEN Recalculated(<<Launch(m, v)>>, hour)
                                ELSE clusters[d]]
    /\ UNCHANGED hour

\* Only the first reference to a mint is looked at, if there is one.
First(refs, m) ==
    {i \in DOMAIN refs : refs[i].mint = m /\ \A j \in 1 .. i - 1 : refs[j].mint # m}

Traded(r, v) ==
    LET top == IF v > r.peak THEN v ELSE r.peak
    IN  [r EXCEPT !.peak = top,
                  !.status = IF 100 * (top - v) >= RotationDropPct * top THEN "DUMPED"
                             ELSE IF 10 * v > 8 * top THEN "PUMPING" ELSE @]

UpdateTokenStatus(c, m, v) ==
    /\ c \in DOMAIN clusters
    /\ LET refs == clusters[c].refs
           first == First(refs, m)
       IN  clusters' = Put(c, Recalculated(
               [i \in DOMAIN refs |-> IF i \in first THEN Traded(refs[i], v) ELSE refs[i]],
               hour))
    /\ UNCHANGED hour

\* Mutant: the risk is left as it was.
MarkedOnly(c, refs) == [clusters[c] EXCEPT !.refs = refs]
\* LastUpdated stays.
Marked(c, refs) == Recalculated(refs, clusters[c].updated)

MarkRugged(c, m) ==
    /\ c \in DOMAIN clusters
    /\ LET refs == clusters[c].refs
           first == First(refs, m)
       IN  clusters' = Put(c, Marked(c,
               [i \in DOMAIN refs |->
                   IF i \in first THEN [refs[i] EXCEPT !.status = "RUGGED"] ELSE refs[i]]))
    /\ UNCHANGED hour

Cleanup ==
    /\ clusters' = [c \in {d \in DOMAIN clusters : hour - clusters[d].updated <= IdleHours} |->
                       clusters[c]]
    /\ UNCHANGED hour

HourPasses == hour < LastHour /\ hour' = hour + 1 /\ UNCHANGED clusters

ClustersNext ==
    \/ \E c \in ClusterIds, m \in Mints :
          \/ MarkRugged(c, m)
          \/ \E v \in LaunchMcaps : RecordTokenLaunch(c, m, v)
          \/ \E v \in Mcaps : UpdateTokenStatus(c, m, v)
    \/ Cleanup \/ HourPasses

ClustersSpec == ClustersInit /\ [][ClustersNext]_cvars

-----------------------------------------------------------------------------
(* Properties                                                              *)

Rank(risk) == CHOOSE n \in 1 .. 4 : <<"LOW", "MEDIUM", "HIGH", "CRITICAL">>[n] = risk

(* The stored risk of a cluster, which GetClusterState hands out at any later  *)
(* time without calculating it again, never ranks below what a calculation at  *)
(* that time would say: a stale answer is only ever too careful (crosstoken.go *)
(* recalculate, assessRisk and GetClusterState).                              *)
StaleIsCautious ==
    \A c \in DOMAIN clusters : Rank(clusters[c].risk) >= Rank(RiskOf(clusters[c].refs))
=============================================================================
