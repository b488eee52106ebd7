--------------------------- MODULE ScannerProofs ---------------------------
(* The scanner, for any number of DEXes and pools and any limits, the         *)
(* deployer clusters, for any windows and thresholds, the sanitizer, the      *)
(* entity graph, for any wallets, and the scores, for any tokens and weights. *)
EXTENDS Discovery, Clusters, Sanitizer, Graph, Scoring, SumLemmas, SequenceTheorems

-----------------------------------------------------------------------------
(* Discovery                                                               *)

\* What the entries of seenPools, the keys collected for deletion and the
\* pools in hand have in common: a pool whose entry is gone without having
\* been displaced is too old, and time does not make it younger.
DiscoveryInv ==
    /\ minute \in Nat
    /\ createdAt \in [Pools -> Nat]
    /\ handling \in [MonitorDEXes ->
           SUBSET [pool : Pools, step : {"filter", "info"}, again : BOOLEAN]]
    /\ Tracked \subseteq entered /\ entered \subseteq Pools
    /\ \A p \in Tracked : seenAt[p] \in Nat /\ createdAt[p] <= seenAt[p] /\ seenAt[p] <= minute
    /\ \A p \in toDelete : p \in Pools /\ TooOld(p)
    /\ \A p \in entered \ Tracked : TooOld(p)
    /\ \A d \in MonitorDEXes : \A h \in handling[d] :
           h.again => h.step = "filter" /\ TooOld(h.pool)
    /\ AcceptedOnce

(* Nothing has been seen at the start.                                     *)
LEMMA DiscoveryInit == DInit => DiscoveryInv
  BY DEF DInit, DiscoveryInv, Tracked, AcceptedOnce

(* Every step of a DEX goroutine, of the cleanup and of time.               *)
LEMMA DiscoveryStep == DiscoveryInv /\ [DNext]_dvars => DiscoveryInv'
<1> SUFFICES ASSUME DiscoveryInv, [DNext]_dvars PROVE DiscoveryInv'
  OBVIOUS
<1> USE DiscoveryAssumption DEF DiscoveryInv, TooOld, AcceptedOnce
<1>1. ASSUME NEW d \in MonitorDEXes, NEW p \in Pools, EnterPool(d, p)
      PROVE  DiscoveryInv'
  <2>1. PICK out \in SUBSET Tracked :
            /\ seenAt' = [q \in (Tracked \ out) \cup {p} |->
                             IF q = p THEN minute ELSE seenAt[q]]
            /\ entered' = (entered \ out) \cup {p}
    BY <1>1, ZenonT(60) DEF EnterPool, Oldest
  <2>2. Tracked' = (Tracked \ out) \cup {p}
    BY <2>1 DEF Tracked
  <2>3. /\ UNCHANGED <<minute, createdAt, toDelete, repeated>> /\ createdAt[p] <= minute
        /\ handling' = [handling EXCEPT ![d] = InHand(p, "filter", p \in entered)]
        /\ p \notin Tracked
    BY <1>1 DEF EnterPool
  <2>4. \A q \in Tracked' : seenAt'[q] = IF q = p THEN minute ELSE seenAt[q]
    BY <2>1, <2>2
  <2>5. \A e \in MonitorDEXes : \A h \in handling'[e] :
            h.again => h.step = "filter" /\ TooOld(h.pool)
    <3> SUFFICES ASSUME NEW e \in MonitorDEXes, NEW h \in handling'[e], h.again
                 PROVE  h.step = "filter" /\ TooOld(h.pool)
      OBVIOUS
    <3>1. CASE e = d
      <4>1. h = [pool |-> p, step |-> "filter", again |-> p \in entered]
        BY <2>3, <3>1 DEF InHand
      <4> QED
        BY <2>3, <4>1
    <3>2. CASE e # d
      BY <2>3, <3>2
    <3> QED
      BY <3>1, <3>2
  <2>6. handling' \in [MonitorDEXes ->
            SUBSET [pool : Pools, step : {"filter", "info"}, again : BOOLEAN]]
    BY <2>3 DEF InHand
  <2> QED
    BY <2>1, <2>2, <2>3, <2>4, <2>5, <2>6
<1>2. ASSUME NEW d \in MonitorDEXes, RejectPool(d) PROVE DiscoveryInv'
  BY <1>2 DEF RejectPool, Tracked
<1>3. ASSUME NEW d \in MonitorDEXes, PassPool(d) PROVE DiscoveryInv'
  <2>1. PICK h \in handling[d] :
            /\ h.step = "filter" /\ ~TooOld(h.pool)
            /\ handling' = [handling EXCEPT ![d] = InHand(h.pool, "info", h.again)]
    BY <1>3 DEF PassPool
  <2>2. h.again = FALSE
    BY <2>1
  <2> QED
    BY <1>3, <2>1, <2>2 DEF PassPool, InHand, Tracked
<1>4. ASSUME NEW d \in MonitorDEXes, EmitDiscovery(d) PROVE DiscoveryInv'
  <2>1. repeated' = {}
    BY <1>4 DEF EmitDiscovery
  <2> QED
    BY <1>4, <2>1 DEF EmitDiscovery, Tracked
<1>5. CASE CollectExpired
  BY <1>5 DEF CollectExpired, Expirable, Tracked
<1>6. CASE DeleteExpired
  <2>1. Tracked' = Tracked \ toDelete /\ \A p \in Tracked' : seenAt'[p] = seenAt[p]
    BY <1>6 DEF DeleteExpired, Tracked
  <2> QED
    BY <1>6, <2>1 DEF DeleteExpired
<1>7. CASE MinutePasses
  BY <1>7 DEF MinutePasses, Tracked
<1>8. CASE UNCHANGED dvars
  BY <1>8 DEF dvars, Tracked
<1> QED
  BY <1>1, <1>2, <1>3, <1>4, <1>5, <1>6, <1>7, <1>8 DEF DNext

(* A pool is discovered once, however the goroutines interleave, unless the   *)
(* full map had to displace it (scanner.go handlePool and cleanupLoop).      *)
THEOREM DiscoveredOnce == DSpec => []AcceptedOnce
<1>1. DiscoveryInv => AcceptedOnce
  BY DEF DiscoveryInv
<1> QED
  BY <1>1, DiscoveryInit, DiscoveryStep, PTL DEF DSpec

-----------------------------------------------------------------------------
(* Clusters                                                                *)

\* What a cluster looks like between two operations.
TokenRefs == [mint : Mints, launched : Nat, peak : Nat,
              status : {"ALIVE", "PUMPING", "DUMPED", "RUGGED"}]
Risks == {"LOW", "MEDIUM", "HIGH", "CRITICAL"}
Cautious(c) ==
    /\ clusters[c].refs \in Seq(TokenRefs)
    /\ clusters[c].risk \in Risks
    /\ Rank(clusters[c].risk) >= Rank(RiskOf(clusters[c].refs))
ClustersInv == hour \in Nat /\ \A c \in DOMAIN clusters : Cautious(c)

(* The ranks of the four risks.                                            *)
LEMMA Ranks == Rank("LOW") = 1 /\ Rank("MEDIUM") = 2 /\ Rank("HIGH") = 3 /\ Rank("CRITICAL") = 4
<1>1. \A n \in 1 .. 4 : n = 1 \/ n = 2 \/ n = 3 \/ n = 4
  OBVIOUS
<1>2. 1 \in 1 .. 4 /\ 2 \in 1 .. 4 /\ 3 \in 1 .. 4 /\ 4 \in 1 .. 4
  OBVIOUS
<1> QED
  BY <1>1, <1>2 DEF Rank

(* A calculation has one of four results, and the same once it is stored.   *)
LEMMA Fresh ==
    ASSUME NEW refs
    PROVE  /\ RiskOf(refs) \in Risks /\ Rank(RiskOf(refs)) \in 1 .. 4
           /\ \A t : Recalculated(refs, t).refs = refs /\ Recalculated(refs, t).risk = RiskOf(refs)
<1>1. RiskOf(refs) \in Risks
  BY DEF RiskOf, Risks
<1> QED
  BY <1>1, Ranks DEF Recalculated, Risks

(* Looking at every token of a cluster keeps it a sequence of tokens.       *)
LEMMA EveryToken ==
    ASSUME NEW refs \in Seq(TokenRefs), NEW f \in [DOMAIN refs -> TokenRefs]
    PROVE  f \in Seq(TokenRefs)
<1>1. DOMAIN refs = 1 .. Len(refs) /\ Len(refs) \in Nat
  OBVIOUS
<1>2. f \in [1 .. Len(refs) -> TokenRefs]
  BY <1>1
<1> QED
  BY <1>1, <1>2, SeqDef

(* As time passes, the risk that would be calculated only falls.            *)
LEMMA TimeLowersRisk ==
    ASSUME ClustersInv, HourPasses, NEW c \in DOMAIN clusters
    PROVE  Rank(RiskOf(clusters[c].refs)') <= Rank(RiskOf(clusters[c].refs))
<1> DEFINE refs == clusters[c].refs
<1>1. refs \in Seq(TokenRefs) /\ IsFiniteSet(DOMAIN refs) /\ UNCHANGED refs
  <2>1. refs \in Seq(TokenRefs) /\ UNCHANGED refs
    BY DEF ClustersInv, Cautious, HourPasses
  <2>2. DOMAIN refs = 1 .. Len(refs) /\ Len(refs) \in Nat
    BY <2>1
  <2>3. \A n \in Nat : IsFiniteSet(1 .. n)
    BY FS_Interval
  <2> QED
    BY <2>1, <2>2, <2>3
<1>2. \A s : InStatus(refs, s)' = InStatus(refs, s) /\ InStatus(refs, s) \in Nat
  <2> TAKE s
  <2>1. {i \in DOMAIN refs : refs[i].status = s} \in SUBSET DOMAIN refs
    OBVIOUS
  <2>2. InStatus(refs, s) \in Nat
    BY <1>1, <2>1, FS_Subset, FS_CardinalityType DEF InStatus
  <2> QED
    BY <1>1, <2>2 DEF InStatus
<1>3. \A h \in Nat : /\ LaunchedWithin(refs, h)' <= LaunchedWithin(refs, h)
                     /\ LaunchedWithin(refs, h)' \in Nat /\ LaunchedWithin(refs, h) \in Nat
  <2> TAKE h \in Nat
  <2> DEFINE was == {i \in DOMAIN refs : hour - refs[i].launched <= h}
             is == {i \in DOMAIN refs : hour' - refs[i].launched <= h}
  <2>1. \A i \in DOMAIN refs : refs[i].launched \in Nat
    <3>1. \A i \in DOMAIN refs : refs[i] \in TokenRefs
      BY <1>1
    <3> QED
      BY <3>1 DEF TokenRefs
  <2>2. is \in SUBSET was /\ was \in SUBSET DOMAIN refs
    BY <2>1 DEF ClustersInv, HourPasses
  <2>3. IsFiniteSet(was)
    BY <1>1, <2>2, FS_Subset
  <2>4. Cardinality(is) <= Cardinality(was) /\ Cardinality(is) \in Nat /\ Cardinality(was) \in Nat
    BY <2>2, <2>3, FS_Subset, FS_CardinalityType
  <2>5. LaunchedWithin(refs, h) = Cardinality(was) /\ LaunchedWithin(refs, h)' = Cardinality(is)
    BY <1>1 DEF LaunchedWithin
  <2> QED
    BY <2>4, <2>5
<1>4. RotationWindow \in Nat /\ Day \in Nat /\ SerialThreshold \in Nat
  BY ClustersAssumption
<1> DEFINE ruggedNow == InStatus(refs, "RUGGED")
           pumping == InStatus(refs, "PUMPING")
           dumped == InStatus(refs, "DUMPED")
           recently == LaunchedWithin(refs, RotationWindow)
           today == LaunchedWithin(refs, Day)
<1>5. /\ ruggedNow' = ruggedNow /\ pumping' = pumping /\ dumped' = dumped
      /\ ruggedNow \in Nat /\ pumping \in Nat /\ dumped \in Nat
      /\ recently' <= recently /\ today' <= today
      /\ recently \in Nat /\ today \in Nat /\ recently' \in Nat /\ today' \in Nat
  BY <1>2, <1>3, <1>4
<1> HIDE DEF refs
<1>6. RiskOf(refs)' = RiskOf(refs) \/ Rank(RiskOf(refs)') <= Rank(RiskOf(refs))
  BY <1>4, <1>5, Ranks DEF RiskOf, PatternOf
<1>7. Rank(RiskOf(refs)) \in 1 .. 4
  BY Fresh
<1>8. Rank(RiskOf(refs)') <= Rank(RiskOf(refs))
  BY <1>6, <1>7
<1> QED
  BY <1>8 DEF refs

(* A new calculation is exact, so cautious.                                 *)
LEMMA RecalculatedIsCautious ==
    ASSUME NEW d, NEW refs \in Seq(TokenRefs), NEW t,
           clusters'[d] = Recalculated(refs, t), UNCHANGED hour
    PROVE  Cautious(d)'
<1>1. clusters'[d].refs = refs /\ clusters'[d].risk = RiskOf(refs)
  BY DEF Recalculated
<1>2. RiskOf(clusters[d].refs)' = RiskOf(refs)
  BY <1>1 DEF RiskOf, PatternOf, InStatus, LaunchedWithin
<1>3. RiskOf(refs) \in Risks /\ Rank(RiskOf(refs)) \in 1 .. 4
  BY Fresh
<1> QED
  BY <1>1, <1>2, <1>3 DEF Cautious

(* A cluster that is left alone stays cautious as long as time stands still. *)
LEMMA LeftAlone ==
    ASSUME NEW d, Cautious(d), clusters'[d] = clusters[d], UNCHANGED hour
    PROVE  Cautious(d)'
<1>1. RiskOf(clusters[d].refs)' = RiskOf(clusters[d].refs)
  BY DEF RiskOf, PatternOf, InStatus, LaunchedWithin
<1> QED
  BY <1>1 DEF Cautious

(* Every operation, and time.                                              *)
LEMMA ClustersStep == ClustersInv /\ [ClustersNext]_cvars => ClustersInv'
<1> SUFFICES ASSUME ClustersInv, [ClustersNext]_cvars PROVE ClustersInv'
  OBVIOUS
<1>1. ASSUME NEW c \in ClusterIds, NEW m \in Mints, NEW v \in LaunchMcaps,
             RecordTokenLaunch(c, m, v)
      PROVE  ClustersInv'
  <2>1. Launch(m, v) \in TokenRefs /\ UNCHANGED hour
    BY <1>1, ClustersAssumption DEF Launch, TokenRefs, ClustersInv, RecordTokenLaunch
  <2>2. CASE c \in DOMAIN clusters
    <3>1. clusters' = Put(c, Recalculated(Append(clusters[c].refs, Launch(m, v)), hour))
      BY <1>1, <2>2 DEF RecordTokenLaunch
    <3>2. Append(clusters[c].refs, Launch(m, v)) \in Seq(TokenRefs)
      BY <2>1, <2>2 DEF ClustersInv, Cautious
    <3>3. \A d \in DOMAIN clusters' : d = c \/ (d \in DOMAIN clusters /\ clusters'[d] = clusters[d])
      BY <3>1 DEF Put
    <3>4. clusters'[c] = Recalculated(Append(clusters[c].refs, Launch(m, v)), hour)
      BY <3>1 DEF Put
    <3>5. Cautious(c)'
      BY <2>1, <3>2, <3>4, RecalculatedIsCautious
    <3> QED
      BY <2>1, <3>3, <3>5, LeftAlone DEF ClustersInv
  <2>3. CASE c \notin DOMAIN clusters
    <3>1. PICK gone : clusters' = [d \in (DOMAIN clusters \ gone) \cup {c} |->
                                     IF d = c THEN Recalculated(<<Launch(m, v)>>, hour)
                                     ELSE clusters[d]]
      BY <1>1, <2>3 DEF RecordTokenLaunch
    <3>2. <<Launch(m, v)>> \in Seq(TokenRefs)
      BY <2>1
    <3>3. \A d \in DOMAIN clusters' : d = c \/ (d \in DOMAIN clusters /\ clusters'[d] = clusters[d])
      BY <3>1
    <3>4. clusters'[c] = Recalculated(<<Launch(m, v)>>, hour)
      BY <3>1
    <3>5. Cautious(c)'
      BY <2>1, <3>2, <3>4, RecalculatedIsCautious
    <3> QED
      BY <2>1, <3>3, <3>5, LeftAlone DEF ClustersInv
  <2> QED
    BY <2>2, <2>3
<1>2. ASSUME NEW c \in ClusterIds, NEW m \in Mints, NEW v \in Mcaps,
             UpdateTokenStatus(c, m, v)
      PROVE  ClustersInv'
  <2> DEFINE refs == clusters[c].refs
             traded == [i \in DOMAIN refs |->
                           IF i \in First(refs, m) THEN Traded(refs[i], v) ELSE refs[i]]
  <2>1. c \in DOMAIN clusters /\ UNCHANGED hour /\ clusters' = Put(c, Recalculated(traded, hour))
    BY <1>2 DEF UpdateTokenStatus
  <2>2. traded \in Seq(TokenRefs)
    <3>1. refs \in Seq(TokenRefs)
      BY <2>1 DEF ClustersInv, Cautious
    <3>2. \A r \in TokenRefs : Traded(r, v) \in TokenRefs
      BY ClustersAssumption DEF Traded, TokenRefs
    <3>3. traded \in [DOMAIN refs -> TokenRefs]
      <4>1. \A i \in DOMAIN refs : refs[i] \in TokenRefs
        BY <3>1
      <4> QED
        BY <3>2, <4>1
    <3> QED
      BY <3>1, <3>3, EveryToken
  <2>3. \A d \in DOMAIN clusters' : d = c \/ (d \in DOMAIN clusters /\ clusters'[d] = clusters[d])
    BY <2>1 DEF Put
  <2>4. clusters'[c] = Recalculated(traded, hour)
    BY <2>1 DEF Put
  <2> HIDE DEF traded
  <2>5. Cautious(c)'
    BY <2>1, <2>2, <2>4, RecalculatedIsCautious
  <2> QED
    BY <2>1, <2>3, <2>5, LeftAlone DEF ClustersInv
<1>3. ASSUME NEW c \in ClusterIds, NEW m \in Mints, MarkRugged(c, m) PROVE ClustersInv'
  <2> DEFINE refs == clusters[c].refs
             marked == [i \in DOMAIN refs |->
                           IF i \in First(refs, m) THEN [refs[i] EXCEPT !.status = "RUGGED"]
                           ELSE refs[i]]
  <2>1. /\ c \in DOMAIN clusters /\ UNCHANGED hour
        /\ clusters' = Put(c, Recalculated(marked, clusters[c].updated))
    BY <1>3 DEF MarkRugged, Marked
  <2>2. marked \in Seq(TokenRefs)
    <3>1. refs \in Seq(TokenRefs)
      BY <2>1 DEF ClustersInv, Cautious
    <3>2. \A r \in TokenRefs : [r EXCEPT !.status = "RUGGED"] \in TokenRefs
      BY DEF TokenRefs
    <3>3. marked \in [DOMAIN refs -> TokenRefs]
      <4>1. \A i \in DOMAIN refs : refs[i] \in TokenRefs
        BY <3>1
      <4> QED
        BY <3>2, <4>1
    <3> QED
      BY <3>1, <3>3, EveryToken
  <2>3. \A d \in DOMAIN clusters' : d = c \/ (d \in DOMAIN clusters /\ clusters'[d] = clusters[d])
    BY <2>1 DEF Put
  <2>4. clusters'[c] = Recalculated(marked, clusters[c].updated)
    BY <2>1 DEF Put
  <2> HIDE DEF marked
  <2>5. Cautious(c)'
    BY <2>1, <2>2, <2>4, RecalculatedIsCautious
  <2> QED
    BY <2>1, <2>3, <2>5, LeftAlone DEF ClustersInv
<1>4. CASE Cleanup \/ UNCHANGED cvars
  <2>1. /\ UNCHANGED hour
        /\ \A d \in DOMAIN clusters' : d \in DOMAIN clusters /\ clusters'[d] = clusters[d]
    BY <1>4 DEF Cleanup, cvars
  <2> QED
    BY <2>1, LeftAlone DEF ClustersInv
<1>5. CASE HourPasses
  <2>1. hour' \in Nat /\ UNCHANGED clusters
    BY <1>5 DEF HourPasses, ClustersInv
  <2>2. ASSUME NEW c \in DOMAIN clusters PROVE Cautious(c)'
    <3>1. Rank(RiskOf(clusters[c].refs)') <= Rank(RiskOf(clusters[c].refs))
      BY <1>5, TimeLowersRisk
    <3>2. Cautious(c) /\ Rank(clusters[c].risk) \in 1 .. 4
      BY Ranks DEF ClustersInv, Cautious, Risks
    <3>3. RiskOf(clusters[c].refs)' \in Risks
      BY DEF RiskOf, Risks
    <3>4. Rank(RiskOf(clusters[c].refs)') \in 1 .. 4 /\ Rank(RiskOf(clusters[c].refs)) \in 1 .. 4
      BY <3>3, Ranks, Fresh DEF Risks
    <3> QED
      BY <2>1, <3>1, <3>2, <3>4 DEF Cautious
  <2> QED
    BY <2>1, <2>2 DEF ClustersInv
<1> QED
  BY <1>1, <1>2, <1>3, <1>4, <1>5 DEF ClustersNext

(* The stored risk never falls behind, for any windows, thresholds and        *)
(* lengths of the registry (crosstoken.go recalculate and assessRisk).       *)
THEOREM CautiousForever == ClustersSpec => []StaleIsCautious
<1>1. ClustersInit => ClustersInv
  BY DEF ClustersInit, ClustersInv
<1>2. ClustersInv => StaleIsCautious
  BY DEF ClustersInv, Cautious, StaleIsCautious
<1> QED
  BY <1>1, <1>2, ClustersStep, PTL DEF ClustersSpec

-----------------------------------------------------------------------------
(* Sanitizer                                                               *)

\* The passes counted by one window.
OfWindow(a, w) == {p \in passes : p.addr = a /\ p.window = w}

\* What a pass looks like, and the entry it was counted by: windows of one
\* address are more than HistoryHours apart, and each of their counts passes
\* at most once.
PassType(p) ==
    /\ p.at \in Nat /\ p.window \in Nat /\ p.at <= hours
    /\ p.nth \in 1 .. MaxDeployerTokens24h
    /\ p.window <= p.at /\ p.at <= p.window + HistoryHours
EntryType(a) ==
    /\ deployerHist[a].count \in Nat /\ deployerHist[a].firstSeen \in Nat
    /\ deployerHist[a].firstSeen <= hours
CountedBy(p) ==
    \/ p.window + HistoryHours < hours
    \/ /\ p.addr \in Known /\ p.window = deployerHist[p.addr].firstSeen
       /\ p.nth <= deployerHist[p.addr].count
NoLaterThan(p) ==
    p.addr \in Known =>
        \/ p.window = deployerHist[p.addr].firstSeen
        \/ p.window + HistoryHours < deployerHist[p.addr].firstSeen
Apart(p, q) ==
    p.addr = q.addr =>
        /\ p.window < q.window => p.window + HistoryHours < q.window
        /\ p.window = q.window /\ p.nth = q.nth => p = q
SanitizerInv ==
    /\ hours \in Nat
    /\ \A a \in Known : EntryType(a)
    /\ \A p \in passes : PassType(p) /\ CountedBy(p) /\ NoLaterThan(p)
    /\ \A p, q \in passes : Apart(p, q)

(* An entry that was counted and the pass that goes with it.                *)
LEMMA PassKept ==
    ASSUME SanitizerInv, NEW a, NEW entry, UNCHANGED hours,
           entry.count \in 1 .. MaxDeployerTokens24h, entry.firstSeen \in Nat,
           entry.firstSeen <= hours, hours <= entry.firstSeen + HistoryHours,
           \A p \in passes : p.addr = a =>
               \/ p.window + HistoryHours < entry.firstSeen
               \/ p.window = entry.firstSeen /\ p.nth < entry.count,
           Count(a, entry), Pass(a, entry)
    PROVE  SanitizerInv'
<1> USE SanitizerAssumption DEF SanitizerInv
<1> DEFINE new == [addr |-> a, at |-> hours, window |-> entry.firstSeen, nth |-> entry.count]
<1>1. Known' = Known \cup {a} /\ deployerHist'[a] = entry
      /\ \A b \in Known : b # a => deployerHist'[b] = deployerHist[b]
  BY DEF Count, Known
<1>2. passes' = passes \cup {new}
  BY DEF Pass
<1>3. \A b \in Known' : EntryType(b)'
  BY <1>1 DEF EntryType
<1>4. PassType(new)' /\ CountedBy(new)' /\ NoLaterThan(new)'
  BY <1>1 DEF PassType, CountedBy, NoLaterThan
<1>5. ASSUME NEW p \in passes PROVE PassType(p)' /\ CountedBy(p)' /\ NoLaterThan(p)'
  BY <1>1 DEF PassType, CountedBy, NoLaterThan
<1>6. ASSUME NEW p \in passes PROVE Apart(p, new)' /\ Apart(new, p)'
  BY DEF Apart, PassType
<1>7. \A p, q \in passes' : Apart(p, q)'
  BY <1>2, <1>6 DEF Apart
<1> QED
  BY <1>2, <1>3, <1>4, <1>5, <1>7

(* Every step: a window begins only when the last one of its address has      *)
(* lapsed, whether the address was forgotten meanwhile or not.               *)
LEMMA SanitizerStep == SanitizerInv /\ [SanitizerNext]_svars => SanitizerInv'
<1> SUFFICES ASSUME SanitizerInv, [SanitizerNext]_svars PROVE SanitizerInv'
  OBVIOUS
<1> USE SanitizerAssumption
<1>1. ASSUME NEW a, FirstToken(a), UNCHANGED hours PROVE SanitizerInv'
  <2> DEFINE entry == [count |-> 1, firstSeen |-> hours]
  <2>1. Count(a, entry) /\ Pass(a, entry) /\ (a \in Known => Lapsed(a))
    BY <1>1 DEF FirstToken
  <2>2. \A p \in passes : p.addr = a => p.window + HistoryHours < hours
    BY <2>1 DEF SanitizerInv, PassType, CountedBy, EntryType, Lapsed
  <2>3. hours \in Nat
    BY DEF SanitizerInv
  <2>4. entry.count = 1 /\ entry.firstSeen = hours
    OBVIOUS
  <2> HIDE DEF entry
  <2> QED
    BY <1>1, <2>1, <2>2, <2>3, <2>4, PassKept
<1>2. ASSUME NEW a, NextToken(a), UNCHANGED hours PROVE SanitizerInv'
  <2> DEFINE entry == [deployerHist[a] EXCEPT !.count = @ + 1]
  <2>1. /\ a \in Known /\ ~Lapsed(a) /\ Count(a, entry)
        /\ IF entry.count > MaxDeployerTokens24h THEN UNCHANGED passes ELSE Pass(a, entry)
    BY <1>2 DEF NextToken
  <2>2. entry.count = deployerHist[a].count + 1 /\ entry.firstSeen = deployerHist[a].firstSeen
    BY DEF EntryType, SanitizerInv
  <2>3. EntryType(a) /\ hours \in Nat
    BY <2>1 DEF SanitizerInv
  <2>4. hours <= entry.firstSeen + HistoryHours
    BY <2>1, <2>2, <2>3 DEF Lapsed, EntryType
  <2> HIDE DEF entry
  <2>5. CASE entry.count > MaxDeployerTokens24h
    <3>1. /\ Known' = Known /\ deployerHist'[a] = entry /\ UNCHANGED passes
          /\ \A b \in Known : b # a => deployerHist'[b] = deployerHist[b]
      BY <2>1, <2>5 DEF Count, Known
    <3>2. \A b \in Known : EntryType(b)'
      BY <1>2, <2>2, <2>3, <3>1 DEF EntryType, SanitizerInv
    <3>3. ASSUME NEW p \in passes PROVE PassType(p)' /\ CountedBy(p)' /\ NoLaterThan(p)'
      BY <1>2, <2>2, <2>3, <3>1 DEF PassType, CountedBy, NoLaterThan, SanitizerInv, EntryType
    <3> QED
      BY <1>2, <3>1, <3>2, <3>3 DEF SanitizerInv, Apart
  <2>6. CASE ~(entry.count > MaxDeployerTokens24h)
    <3>1. \A p \in passes : p.addr = a =>
              \/ p.window + HistoryHours < entry.firstSeen
              \/ p.window = entry.firstSeen /\ p.nth < entry.count
      BY <2>1, <2>2, <2>3, <2>4 DEF SanitizerInv, PassType, CountedBy, NoLaterThan, EntryType
    <3> QED
      BY <1>2, <2>1, <2>2, <2>3, <2>4, <2>6, <3>1, PassKept DEF EntryType
  <2> QED
    BY <2>5, <2>6
<1>3. ASSUME NEW d \in Discoveries, NEW r \in Reports, L0Check(d, r) PROVE SanitizerInv'
  BY <1>1, <1>2, <1>3 DEF L0Check
<1>4. CASE CleanupDeployerHistory
  <2>1. /\ UNCHANGED <<hours, passes>> /\ Known' = {b \in Known : ~Forgettable(b)}
        /\ \A b \in Known' : deployerHist'[b] = deployerHist[b]
    BY <1>4 DEF CleanupDeployerHistory, Known
  <2>2. \A b \in Known' : EntryType(b)'
    BY <2>1 DEF SanitizerInv, EntryType
  <2>3. ASSUME NEW p \in passes PROVE PassType(p)' /\ CountedBy(p)' /\ NoLaterThan(p)'
    BY <2>1 DEF SanitizerInv, PassType, CountedBy, NoLaterThan, EntryType, Forgettable
  <2> QED
    BY <2>1, <2>2, <2>3 DEF SanitizerInv, Apart
<1>5. CASE TimePasses
  <2>1. hours' = hours + 1 /\ UNCHANGED <<deployerHist, passes>> /\ hours \in Nat
    BY <1>5 DEF TimePasses, SanitizerInv
  <2> QED
    BY <2>1 DEF SanitizerInv, PassType, CountedBy, NoLaterThan, EntryType, Apart, Known
<1>6. ASSUME UNCHANGED <<hours, deployerHist, passes>> PROVE SanitizerInv'
  BY <1>6 DEF SanitizerInv, PassType, CountedBy, NoLaterThan, EntryType, Apart, Known
<1> QED
  BY <1>3, <1>4, <1>5, <1>6 DEF SanitizerNext, AddBlacklist, svars

(* A window lets MaxDeployerTokens24h tokens pass.                          *)
LEMMA WindowLimited ==
    ASSUME SanitizerInv, NEW a, NEW w
    PROVE  /\ IsFiniteSet(OfWindow(a, w))
           /\ Cardinality(OfWindow(a, w)) \in Nat
           /\ Cardinality(OfWindow(a, w)) <= MaxDeployerTokens24h
<1> DEFINE nth == [p \in OfWindow(a, w) |-> p.nth]
<1>1. nth \in Injection(OfWindow(a, w), 1 .. MaxDeployerTokens24h)
  BY DEF SanitizerInv, PassType, Apart, OfWindow, Injection, IsInjective
<1>2. /\ IsFiniteSet(1 .. MaxDeployerTokens24h)
      /\ Cardinality(1 .. MaxDeployerTokens24h) = MaxDeployerTokens24h
  BY SanitizerAssumption, FS_Interval
<1> HIDE DEF nth
<1> QED
  BY <1>1, <1>2, FS_Injection, FS_CardinalityType

(* Any HistoryHours meet two windows at most.                              *)
LEMMA TwoWindows ==
    ASSUME SanitizerInv, NEW a, NEW t \in Nat
    PROVE  \E v, w \in Nat : PassedAround(a, t) \subseteq OfWindow(a, v) \cup OfWindow(a, w)
<1>1. ASSUME NEW p \in PassedAround(a, t), NEW q \in PassedAround(a, t),
             NEW r \in PassedAround(a, t), p.window < q.window
      PROVE  ~(q.window < r.window)
  BY SanitizerAssumption, <1>1 DEF SanitizerInv, PassType, Apart, PassedAround
<1>2. \A p \in PassedAround(a, t) : p \in OfWindow(a, p.window) /\ p.window \in Nat
  BY DEF SanitizerInv, PassType, PassedAround, OfWindow
<1>3. CASE \E p, q \in PassedAround(a, t) : p.window # q.window
  <2>1. PICK p \in PassedAround(a, t), q \in PassedAround(a, t) : p.window # q.window
    BY <1>3
  <2>2. \A r \in PassedAround(a, t) : r.window = p.window \/ r.window = q.window
    <3> SUFFICES ASSUME NEW r \in PassedAround(a, t), r.window # p.window, r.window # q.window
                 PROVE  FALSE
      OBVIOUS
    <3>1. p.window \in Nat /\ q.window \in Nat /\ r.window \in Nat
      BY <1>2
    <3> QED
      BY <1>1, <2>1, <3>1
  <2> QED
    BY <1>2, <2>2
<1>4. CASE \E p \in PassedAround(a, t) : \A q \in PassedAround(a, t) : p.window = q.window
  BY <1>2, <1>4
<1>5. CASE PassedAround(a, t) = {}
  <2>1. 0 \in Nat
    OBVIOUS
  <2> QED
    BY <1>5, <2>1
<1> QED
  BY <1>3, <1>4, <1>5

(* Of one deployer never more than twice MaxDeployerTokens24h tokens pass the  *)
(* sanitizer in 24 hours, for any limits, pools and answers of the graph       *)
(* (checkDeployerHistory and CleanupDeployerHistory in sanitizer.go).          *)
THEOREM DeployersAreBounded == SanitizerSpec => []DeployerBounded
<1>1. SanitizerInit => SanitizerInv
  BY DEF SanitizerInit, SanitizerInv, Known
<1>2. SanitizerInv => DeployerBounded
  <2> SUFFICES ASSUME SanitizerInv, NEW a, NEW t \in 0 .. hours
               PROVE  Cardinality(PassedAround(a, t)) <= 2 * MaxDeployerTokens24h
    BY DEF DeployerBounded
  <2>1. t \in Nat
    BY DEF SanitizerInv
  <2>2. PICK v \in Nat, w \in Nat :
            PassedAround(a, t) \subseteq OfWindow(a, v) \cup OfWindow(a, w)
    BY <2>1, TwoWindows
  <2> DEFINE V == OfWindow(a, v)
  <2> DEFINE W == OfWindow(a, w)
  <2>3. /\ IsFiniteSet(V) /\ Cardinality(V) \in Nat /\ Cardinality(V) <= MaxDeployerTokens24h
        /\ IsFiniteSet(W) /\ Cardinality(W) \in Nat /\ Cardinality(W) <= MaxDeployerTokens24h
    BY WindowLimited
  <2> HIDE DEF V, W
  <2>4. /\ IsFiniteSet(V \cup W)
        /\ Cardinality(V \cup W) = Cardinality(V) + Cardinality(W) - Cardinality(V \cap W)
    BY <2>3, FS_Union
  <2>5. Cardinality(V \cap W) \in Nat
    <3>1. IsFiniteSet(V \cap W)
      BY <2>3, FS_Subset
    <3> QED
      BY <3>1, FS_CardinalityType
  <2>6. PassedAround(a, t) \in SUBSET (V \cup W)
    BY <2>2 DEF V, W
  <2>7. /\ Cardinality(PassedAround(a, t)) <= Cardinality(V \cup W)
        /\ Cardinality(PassedAround(a, t)) \in Nat /\ Cardinality(V \cup W) \in Nat
    BY <2>4, <2>6, FS_Subset, FS_CardinalityType
  <2> QED
    BY <2>3, <2>4, <2>5, <2>7, SanitizerAssumption
<1> QED
  BY <1>1, <1>2, SanitizerStep, PTL DEF SanitizerSpec

-----------------------------------------------------------------------------
(* The entity graph: the breadth-first search                              *)

\* What the levels of a breadth-first search satisfy, up to the n-th.
Levels(next, w, n, g) ==
    g = [k \in 0 .. n |->
            IF k = 0 THEN {w} ELSE g[k - 1] \cup UNION {next[v] : v \in g[k - 1]}]

(* Two searches agree as far as both go.                                   *)
LEMMA LevelsUnique ==
    ASSUME NEW next, NEW w, NEW m \in Nat, NEW n \in Nat, m <= n, NEW g, NEW h,
           Levels(next, w, m, g), Levels(next, w, n, h)
    PROVE  \A k \in 0 .. m : g[k] = h[k]
<1> DEFINE T == {k \in 0 .. m : g[k] # h[k]}
<1>1. SUFFICES ASSUME T # {} PROVE FALSE
  OBVIOUS
<1>2. PICK k \in T : \A j \in T : k <= j
  <2>1. T \in SUBSET Nat
    OBVIOUS
  <2> QED
    BY <1>1, <2>1, LeastNumber
<1>3. /\ g[k] = IF k = 0 THEN {w} ELSE g[k - 1] \cup UNION {next[v] : v \in g[k - 1]}
      /\ h[k] = IF k = 0 THEN {w} ELSE h[k - 1] \cup UNION {next[v] : v \in h[k - 1]}
  <2>1. k \in 0 .. m /\ k \in 0 .. n
    OBVIOUS
  <2>2. g[k] = IF k = 0 THEN {w} ELSE g[k - 1] \cup UNION {next[v] : v \in g[k - 1]}
    BY <2>1 DEF Levels
  <2>3. h[k] = IF k = 0 THEN {w} ELSE h[k - 1] \cup UNION {next[v] : v \in h[k - 1]}
    BY <2>1 DEF Levels
  <2> QED
    BY <2>2, <2>3
<1>4. k # 0
  BY <1>3
<1>5. k - 1 \in 0 .. m /\ k - 1 \notin T
  BY <1>2, <1>4
<1> QED
  BY <1>3, <1>4, <1>5

(* A search can go on for any number of hops.                               *)
LEMMA LevelsExist ==
    ASSUME NEW next, NEW w, NEW n \in Nat
    PROVE  \E g : Levels(next, w, n, g)
<1> DEFINE T == {m \in Nat : ~\E g : Levels(next, w, m, g)}
<1>1. SUFFICES ASSUME T # {} PROVE FALSE
  OBVIOUS
<1>2. PICK m \in T : \A j \in T : m <= j
  BY <1>1, LeastNumber
<1>3. CASE m = 0
  <2>1. Levels(next, w, 0, [k \in 0 .. 0 |-> {w}])
    <3>1. \A k \in 0 .. 0 : k = 0
      OBVIOUS
    <3> QED
      BY <3>1 DEF Levels
  <2> QED
    BY <1>3, <2>1
<1>4. CASE m # 0
  <2>1. m - 1 \in Nat /\ m - 1 \notin T
    BY <1>2, <1>4
  <2>2. PICK g : Levels(next, w, m - 1, g)
    BY <2>1
  <2> DEFINE S == g[m - 1]
  <2> DEFINE h == [k \in 0 .. m |-> IF k = m THEN S \cup UNION {next[v] : v \in S} ELSE g[k]]
  <2>3. \A k \in 0 .. m - 1 : g[k] = IF k = 0 THEN {w}
                                     ELSE g[k - 1] \cup UNION {next[v] : v \in g[k - 1]}
    BY <2>2 DEF Levels
  <2>4. \A k \in 0 .. m : h[k] = IF k = 0 THEN {w}
                                 ELSE h[k - 1] \cup UNION {next[v] : v \in h[k - 1]}
    <3> SUFFICES ASSUME NEW k \in 0 .. m
                 PROVE h[k] = IF k = 0 THEN {w}
                              ELSE h[k - 1] \cup UNION {next[v] : v \in h[k - 1]}
      OBVIOUS
    <3>1. CASE k = m
      <4>1. k # 0 /\ k - 1 \in 0 .. m /\ k - 1 # m
        BY <1>4, <3>1
      <4>2. h[k - 1] = S
        BY <3>1, <4>1
      <4> QED
        BY <3>1, <4>1, <4>2
    <3>2. CASE k # m
      <4>1. k \in 0 .. m - 1 /\ (k # 0 => k - 1 \in 0 .. m /\ k - 1 # m)
        BY <3>2
      <4> QED
        BY <2>3, <3>2, <4>1
    <3> QED
      BY <3>1, <3>2
  <2>5. Levels(next, w, m, h)
    <3> HIDE DEF S
    <3> DEFINE H == [k \in 0 .. m |-> IF k = 0 THEN {w}
                                      ELSE h[k - 1] \cup UNION {next[v] : v \in h[k - 1]}]
    <3>1. h = H
      BY <2>4
    <3> QED
      BY <3>1 DEF Levels
  <2> QED
    BY <1>2, <2>5
<1> QED
  BY <1>3, <1>4

(* One hop more: what was reached, and where it leads.                      *)
LEMMA OneHopMore ==
    ASSUME NEW next, NEW w
    PROVE  /\ Within(next, w, 0) = {w}
           /\ \A n \in Nat \ {0} : Within(next, w, n)
                  = Within(next, w, n - 1) \cup UNION {next[v] : v \in Within(next, w, n - 1)}
<1> DEFINE G(n) == CHOOSE g : Levels(next, w, n, g)
<1>1. \A n \in Nat : Levels(next, w, n, G(n))
  BY LevelsExist
<1>2. \A n \in Nat : Within(next, w, n) = G(n)[n]
  BY DEF Within, Levels
<1> HIDE DEF G
<1>3. \A n \in Nat \ {0} : G(n)[n - 1] = G(n - 1)[n - 1]
  <2> TAKE n \in Nat \ {0}
  <2>1. \A k \in 0 .. n - 1 : G(n - 1)[k] = G(n)[k]
    <3>1. n - 1 <= n /\ n - 1 \in Nat
      OBVIOUS
    <3>2. Levels(next, w, n - 1, G(n - 1)) /\ Levels(next, w, n, G(n))
      BY <1>1, <3>1
    <3> QED
      BY <3>1, <3>2, LevelsUnique
  <2> QED
    BY <2>1
<1>4. \A n \in Nat : \A k \in 0 .. n :
          G(n)[k] = IF k = 0 THEN {w} ELSE G(n)[k - 1] \cup UNION {next[v] : v \in G(n)[k - 1]}
  BY <1>1 DEF Levels
<1>5. Within(next, w, 0) = {w}
  <2>1. 0 \in Nat /\ 0 \in 0 .. 0
    OBVIOUS
  <2>2. G(0)[0] = {w}
    BY <1>4, <2>1
  <2> QED
    BY <1>2, <2>1, <2>2
<1>6. ASSUME NEW n \in Nat \ {0}
      PROVE  Within(next, w, n)
                 = Within(next, w, n - 1) \cup UNION {next[v] : v \in Within(next, w, n - 1)}
  <2>1. n \in 0 .. n /\ n - 1 \in Nat
    OBVIOUS
  <2>2. G(n)[n] = G(n)[n - 1] \cup UNION {next[v] : v \in G(n)[n - 1]}
    BY <1>4, <2>1
  <2> QED
    BY <1>2, <1>3, <2>1, <2>2
<1> QED
  BY <1>5, <1>6

(* A search finds where it starts.                                         *)
LEMMA Itself ==
    ASSUME NEW next, NEW w
    PROVE  \A n \in Nat : w \in Within(next, w, n)
<1> DEFINE T == {n \in Nat : w \notin Within(next, w, n)}
<1>1. SUFFICES ASSUME T # {} PROVE FALSE
  OBVIOUS
<1>2. PICK n \in T : \A m \in T : n <= m
  BY <1>1, LeastNumber
<1>3. n # 0
  BY OneHopMore
<1>4. n - 1 \in Nat /\ n - 1 \notin T
  BY <1>2, <1>3
<1>5. \A k \in Nat \ {0} : Within(next, w, k)
          = Within(next, w, k - 1) \cup UNION {next[v] : v \in Within(next, w, k - 1)}
  BY OneHopMore
<1> QED
  BY <1>3, <1>4, <1>5

(* What is closed under the next hop holds all that a search from inside     *)
(* finds.                                                                   *)
LEMMA StaysInside ==
    ASSUME NEW next, NEW X, NEW w \in X, \A v \in X : next[v] \subseteq X
    PROVE  \A n \in Nat : Within(next, w, n) \subseteq X
<1> DEFINE T == {n \in Nat : ~(Within(next, w, n) \subseteq X)}
<1>1. SUFFICES ASSUME T # {} PROVE FALSE
  OBVIOUS
<1>2. PICK n \in T : \A m \in T : n <= m
  BY <1>1, LeastNumber
<1>3. n # 0
  BY OneHopMore
<1>4. n - 1 \in Nat /\ n - 1 \notin T
  BY <1>2, <1>3
<1>5. Within(next, w, n)
          = Within(next, w, n - 1) \cup UNION {next[v] : v \in Within(next, w, n - 1)}
  <2>1. n \in Nat \ {0}
    BY <1>3
  <2>2. \A k \in Nat \ {0} : Within(next, w, k)
            = Within(next, w, k - 1) \cup UNION {next[v] : v \in Within(next, w, k - 1)}
    BY OneHopMore
  <2> QED
    BY <2>1, <2>2
<1> QED
  BY <1>4, <1>5

(* More edges lead no less far.                                             *)
LEMMA MoreEdges ==
    ASSUME NEW next, NEW more, NEW W, NEW w \in W,
           \A v \in W : next[v] \subseteq more[v] /\ more[v] \subseteq W
    PROVE  \A n \in Nat : Within(next, w, n) \subseteq Within(more, w, n)
<1> DEFINE T == {n \in Nat : ~(Within(next, w, n) \subseteq Within(more, w, n))}
<1>1. SUFFICES ASSUME T # {} PROVE FALSE
  OBVIOUS
<1>2. PICK n \in T : \A m \in T : n <= m
  BY <1>1, LeastNumber
<1>3. n # 0
  BY OneHopMore
<1>4. n - 1 \in Nat /\ n - 1 \notin T
  BY <1>2, <1>3
<1>5. /\ Within(next, w, n)
             = Within(next, w, n - 1) \cup UNION {next[v] : v \in Within(next, w, n - 1)}
      /\ Within(more, w, n)
             = Within(more, w, n - 1) \cup UNION {more[v] : v \in Within(more, w, n - 1)}
  <2>1. n \in Nat \ {0}
    BY <1>3
  <2> DEFINE Hop(f) == \A k \in Nat \ {0} : Within(f, w, k)
                           = Within(f, w, k - 1) \cup UNION {f[v] : v \in Within(f, w, k - 1)}
  <2>2. Hop(next) /\ Hop(more)
    BY OneHopMore
  <2> QED
    BY <2>1, <2>2
<1>6. Within(more, w, n - 1) \subseteq W
  BY <1>4, StaysInside
<1> QED
  BY <1>4, <1>5, <1>6

(* A search that goes on for as many hops as there are wallets has found all  *)
(* there is to find: each hop before the last finds another wallet.           *)
LEMMA SearchEnds ==
    ASSUME NEW W, IsFiniteSet(W), NEW next, NEW w \in W, \A v \in W : next[v] \subseteq W
    PROVE  /\ Cardinality(W) \in Nat
           /\ Within(next, w, Cardinality(W)) \subseteq W
           /\ \A v \in Within(next, w, Cardinality(W)) :
                  next[v] \subseteq Within(next, w, Cardinality(W))
<1> DEFINE R(n) == Within(next, w, n)
<1> DEFINE Closed(n) == \A v \in R(n) : next[v] \subseteq R(n)
<1> DEFINE T == {n \in Nat : ~(Closed(n) \/ Cardinality(R(n)) > n)}
<1>1. /\ R(0) = {w} /\ \A n \in Nat : R(n) \subseteq W
      /\ \A n \in Nat \ {0} : R(n) = R(n - 1) \cup UNION {next[v] : v \in R(n - 1)}
  BY OneHopMore, StaysInside
<1> HIDE DEF R
<1>2. \A n \in Nat : IsFiniteSet(R(n)) /\ Cardinality(R(n)) \in Nat
                     /\ Cardinality(R(n)) <= Cardinality(W) /\ Cardinality(W) \in Nat
  BY <1>1, FS_Subset, FS_CardinalityType
<1>3. T = {}
  <2>1. SUFFICES ASSUME T # {} PROVE FALSE
    OBVIOUS
  <2>2. PICK n \in T : \A m \in T : n <= m
    BY <2>1, LeastNumber
  <2>3. n # 0
    <3>1. Cardinality(R(0)) = 1
      BY <1>1, FS_Singleton
    <3> QED
      BY <3>1
  <2>4. n - 1 \in Nat /\ n - 1 \notin T
    BY <2>2, <2>3
  <2>5. R(n) = R(n - 1) \cup UNION {next[v] : v \in R(n - 1)}
    BY <1>1, <2>4
  <2>6. ~Closed(n - 1)
    BY <2>5
  <2>7. Cardinality(R(n - 1)) > n - 1
    BY <2>4, <2>6
  <2>8. R(n - 1) \subseteq R(n) /\ R(n - 1) # R(n)
    BY <2>5, <2>6
  <2>9. Cardinality(R(n - 1)) < Cardinality(R(n))
    <3>1. IsFiniteSet(R(n)) /\ Cardinality(R(n)) \in Nat /\ Cardinality(R(n - 1)) \in Nat
      BY <1>2, <2>4
    <3>2. Cardinality(R(n - 1)) <= Cardinality(R(n))
      BY <2>8, <3>1, FS_Subset
    <3>3. Cardinality(R(n - 1)) # Cardinality(R(n))
      BY <2>8, <3>1, FS_Subset
    <3> QED
      BY <3>1, <3>2, <3>3
  <2> QED
    <3>1. Cardinality(R(n)) \in Nat /\ Cardinality(R(n - 1)) \in Nat
      BY <1>2, <2>4
    <3>2. ~(Cardinality(R(n)) > n)
      OBVIOUS
    <3> QED
      BY <2>4, <2>7, <2>9, <3>1, <3>2
<1>4. Cardinality(W) \in Nat
  BY FS_CardinalityType
<1>5. Closed(Cardinality(W))
  <2>1. ~(Cardinality(R(Cardinality(W))) > Cardinality(W))
    BY <1>2, <1>4
  <2>2. Cardinality(W) \notin T
    BY <1>3
  <2> QED
    BY <1>4, <2>1, <2>2
<1> QED
  BY <1>1, <1>4, <1>5 DEF R

-----------------------------------------------------------------------------
(* Labels and where they come from                                         *)

Labels == {"rugger", "insider", "sybil"}
Pairs == Wallets \X Wallets

\* Per wallet: those on the other end of its edges, of pairs and of lists.
Ends(pairs) == [w \in Wallets |-> {v \in Wallets : <<w, v>> \in pairs}]
EndsOf(lists) == [w \in Wallets |-> {v \in Wallets : lists[w][v] > 0}]

\* Who was reported twice, and whom money led to from there.
LedBy(rep, pairs) ==
    {w \in Wallets : \E c \in Wallets :
        rep[c] >= 2 /\ w \in Within(Ends(pairs), c, Cardinality(Wallets))}

\* Of a graph in memory, in the file or half read: every label, every rug and
\* every edge is in the history.
GraphSound(l, r, lists, rep, pairs) ==
    /\ l \in [Wallets -> SUBSET Labels]
    /\ r \in [Wallets -> Nat] /\ lists \in [Wallets -> [Wallets -> Nat]]
    /\ \A w \in Wallets : "rugger" \in l[w] => w \in LedBy(rep, pairs)
    /\ \A w \in Wallets : r[w] <= rep[w]
    /\ \A v, w \in Wallets : lists[v][w] > 0 => <<v, w>> \in pairs

FieldNames == {"nodes", "old", "nextCluster", "labels", "rugs", "txCount", "deploys",
               "cluster", "adjOut", "adjIn"}
SnapshotSound(g, rep, pairs) ==
    /\ DOMAIN g = FieldNames /\ g = [x \in FieldNames |-> g[x]]
    /\ g.nodes \subseteq Wallets
    /\ GraphSound(g.labels, g.rugs, g.adjOut, rep, pairs)

GraphInv ==
    /\ nodes \subseteq Wallets /\ reports \in [Wallets -> Nat] /\ paid \subseteq Pairs
    /\ GraphSound(labels, rugs, adjOut, reports, paid)
    /\ SnapshotSound(draft, reports, paid)
    /\ \A g \in file : SnapshotSound(g, reports, paid)

(* The more is reported and paid, the more wallets are led to.               *)
LEMMA LedGrows ==
    ASSUME NEW q \in [Wallets -> Nat], NEW r \in [Wallets -> Nat],
           \A w \in Wallets : r[w] >= q[w],
           NEW s \in SUBSET Pairs, NEW t \in SUBSET Pairs, s \subseteq t
    PROVE  LedBy(q, s) \subseteq LedBy(r, t)
<1> DEFINE N == Cardinality(Wallets)
<1>1. N \in Nat
  BY GraphAssumption, FS_CardinalityType
<1>2. \A v \in Wallets : Ends(s)[v] \subseteq Ends(t)[v] /\ Ends(t)[v] \subseteq Wallets
  BY DEF Ends
<1>3. \A c \in Wallets : Within(Ends(s), c, N) \subseteq Within(Ends(t), c, N)
  BY <1>1, <1>2, MoreEdges
<1> HIDE DEF N
<1>4. ASSUME NEW w \in Wallets, NEW c \in Wallets, q[c] >= 2, w \in Within(Ends(s), c, N)
      PROVE  r[c] >= 2 /\ w \in Within(Ends(t), c, N)
  BY <1>3, <1>4
<1> QED
  BY <1>4 DEF LedBy, N

(* Who was reported twice leads to itself, and on to all that money reaches.   *)
LEMMA LeadsOn ==
    ASSUME NEW rep, NEW pairs
    PROVE  /\ \A w \in Wallets : rep[w] >= 2 => w \in LedBy(rep, pairs)
           /\ \A v \in LedBy(rep, pairs) : Ends(pairs)[v] \subseteq LedBy(rep, pairs)
<1> DEFINE R(c) == Within(Ends(pairs), c, Cardinality(Wallets))
<1>1. \A v \in Wallets : Ends(pairs)[v] \subseteq Wallets
  BY DEF Ends
<1>2. \A c \in Wallets : /\ c \in R(c) /\ R(c) \subseteq Wallets
                         /\ \A v \in R(c) : Ends(pairs)[v] \subseteq R(c)
  <2> TAKE c \in Wallets
  <2>1. /\ Cardinality(Wallets) \in Nat
        /\ R(c) \subseteq Wallets
        /\ \A v \in R(c) : Ends(pairs)[v] \subseteq R(c)
    BY <1>1, GraphAssumption, SearchEnds
  <2>2. c \in R(c)
    BY <2>1, Itself
  <2> QED
    BY <2>1, <2>2
<1>3. LedBy(rep, pairs) = {w \in Wallets : \E c \in Wallets : rep[c] >= 2 /\ w \in R(c)}
  BY DEF LedBy
<1> HIDE DEF R
<1> QED
  BY <1>2, <1>3

(* A propagation along the edges there are reaches nobody else.              *)
LEMMA LabelsLead ==
    ASSUME NEW lists, NEW rep, NEW pairs, NEW w \in LedBy(rep, pairs), NEW i \in Nat,
           \A u, v \in Wallets : lists[u][v] > 0 => <<u, v>> \in pairs
    PROVE  Within(EndsOf(lists), w, i) \subseteq LedBy(rep, pairs)
<1> DEFINE L == LedBy(rep, pairs)
<1>1. \A v \in L : Ends(pairs)[v] \subseteq L
  BY LeadsOn
<1>2. \A v \in L : v \in Wallets
  BY DEF LedBy
<1>3. \A v \in L : EndsOf(lists)[v] \subseteq Ends(pairs)[v]
  BY <1>2 DEF EndsOf, Ends
<1> HIDE DEF L
<1>4. w \in L
  BY DEF L
<1>5. \A v \in L : EndsOf(lists)[v] \subseteq L
  BY <1>1, <1>3
<1> QED
  BY <1>4, <1>5, StaysInside DEF L

(* What was sound stays so when the history grows.                           *)
LEMMA HistoryGrows ==
    ASSUME NEW q \in [Wallets -> Nat], NEW r \in [Wallets -> Nat],
           \A w \in Wallets : r[w] >= q[w],
           NEW s \in SUBSET Pairs, NEW t \in SUBSET Pairs, s \subseteq t
    PROVE  /\ \A l, k, a : GraphSound(l, k, a, q, s) => GraphSound(l, k, a, r, t)
           /\ \A g : SnapshotSound(g, q, s) => SnapshotSound(g, r, t)
<1>1. LedBy(q, s) \subseteq LedBy(r, t)
  BY LedGrows
<1>2. ASSUME NEW l, NEW k, NEW a, GraphSound(l, k, a, q, s) PROVE GraphSound(l, k, a, r, t)
  <2>1. \A w \in Wallets : k[w] <= r[w]
    <3> TAKE w \in Wallets
    <3>1. k[w] \in Nat /\ q[w] \in Nat /\ r[w] \in Nat /\ k[w] <= q[w] /\ q[w] <= r[w]
      BY <1>2 DEF GraphSound
    <3> QED
      BY <3>1
  <2> QED
    BY <1>1, <1>2, <2>1 DEF GraphSound
<1>3. ASSUME NEW g, SnapshotSound(g, q, s) PROVE SnapshotSound(g, r, t)
  BY <1>2, <1>3 DEF SnapshotSound
<1> QED
  BY <1>2, <1>3

(* An empty graph is sound.                                                *)
LEMMA EmptySound ==
    ASSUME NEW rep \in [Wallets -> Nat], NEW pairs
    PROVE  SnapshotSound(EmptyGraph, rep, pairs)
<1>1. /\ EmptyGraph.nodes = {}
      /\ EmptyGraph.labels = [w \in Wallets |-> {}] /\ EmptyGraph.rugs = Zero
      /\ EmptyGraph.adjOut = NoEdges
  BY DEF EmptyGraph
<1>2. DOMAIN EmptyGraph = FieldNames /\ EmptyGraph = [x \in FieldNames |-> EmptyGraph[x]]
  BY DEF EmptyGraph, FieldNames
<1>3. GraphSound([w \in Wallets |-> {}], Zero, NoEdges, rep, pairs)
  BY DEF GraphSound, Zero, NoEdges
<1> QED
  BY <1>1, <1>2, <1>3 DEF SnapshotSound

(* The graph starts empty, without a file and without a history.             *)
LEMMA GraphStart == GInit => GraphInv
<1> SUFFICES ASSUME GInit PROVE GraphInv
  OBVIOUS
<1>1. /\ nodes = {} /\ labels = [w \in Wallets |-> {}] /\ rugs = Zero /\ adjOut = NoEdges
      /\ draft = EmptyGraph /\ file = {} /\ reports = Zero /\ paid = {}
  BY DEF GInit
<1>2. Zero \in [Wallets -> Nat]
  BY DEF Zero
<1>3. SnapshotSound(EmptyGraph, Zero, {})
  BY <1>2, EmptySound
<1>4. GraphSound([w \in Wallets |-> {}], Zero, NoEdges, Zero, {})
  BY DEF GraphSound, Zero, NoEdges
<1> QED
  BY <1>1, <1>2, <1>3, <1>4 DEF GraphInv

(* A change of the graph in memory.                                         *)
LEMMA GraphChanges ==
    ASSUME GraphInv, nodes' \subseteq Wallets, UNCHANGED <<draft, file>>,
           reports' \in [Wallets -> Nat], \A w \in Wallets : reports'[w] >= reports[w],
           paid' \subseteq Pairs, paid \subseteq paid',
           GraphSound(labels, rugs, adjOut, reports', paid')
             => GraphSound(labels', rugs', adjOut', reports', paid')
    PROVE  GraphInv'
<1>1. /\ \A l, k, a : GraphSound(l, k, a, reports, paid) => GraphSound(l, k, a, reports', paid')
      /\ \A g : SnapshotSound(g, reports, paid) => SnapshotSound(g, reports', paid')
  BY HistoryGrows DEF GraphInv
<1>2. GraphSound(labels', rugs', adjOut', reports', paid')
  BY <1>1 DEF GraphInv
<1>3. SnapshotSound(draft', reports', paid') /\ \A g \in file' : SnapshotSound(g, reports', paid')
  BY <1>1 DEF GraphInv
<1> QED
  BY <1>2, <1>3 DEF GraphInv

(* Transfers, deploys, rugs and insiders.                                    *)
LEMMA IngestStep ==
    ASSUME GraphInv, NEW v \in Wallets, NEW w \in Wallets,
           AddTransfer(v, w) \/ AddDeploy(w) \/ MarkRug(w) \/ MarkInsider(w)
    PROVE  GraphInv'
<1> USE DEF GraphInv
<1>1. CASE AddTransfer(v, w)
  <2>1. UNCHANGED <<labels, rugs, draft, file, reports>> /\ nodes' = nodes \cup {v, w}
    BY <1>1 DEF AddTransfer, Changes, encoder
  <2>2. \/ UNCHANGED <<adjOut, paid>>
        \/ adjOut' = [adjOut EXCEPT ![v][w] = @ + 1] /\ paid' = paid \cup {<<v, w>>}
    BY <1>1 DEF AddTransfer
  <2>3. paid' \subseteq Pairs /\ paid \subseteq paid'
    BY <2>2 DEF Pairs
  <2>4. ASSUME GraphSound(labels, rugs, adjOut, reports', paid')
        PROVE  GraphSound(labels', rugs', adjOut', reports', paid')
    <3>1. CASE UNCHANGED <<adjOut, paid>>
      BY <2>1, <2>4, <3>1
    <3>2. CASE adjOut' = [adjOut EXCEPT ![v][w] = @ + 1] /\ paid' = paid \cup {<<v, w>>}
      <4>1. adjOut \in [Wallets -> [Wallets -> Nat]]
        BY DEF GraphSound
      <4>2. adjOut' \in [Wallets -> [Wallets -> Nat]]
        BY <3>2, <4>1
      <4>3. \A x, y \in Wallets : adjOut'[x][y] > 0 => <<x, y>> \in paid'
        <5> SUFFICES ASSUME NEW x \in Wallets, NEW y \in Wallets, adjOut'[x][y] > 0
                     PROVE  <<x, y>> \in paid'
          OBVIOUS
        <5>1. CASE x = v /\ y = w
          BY <3>2, <5>1
        <5>2. CASE ~(x = v /\ y = w)
          <6>1. adjOut'[x][y] = adjOut[x][y]
            BY <3>2, <4>1, <5>2
          <6> QED
            BY <2>4, <6>1 DEF GraphSound
        <5> QED
          BY <5>1, <5>2
      <4> QED
        BY <2>1, <2>4, <4>2, <4>3 DEF GraphSound
    <3> QED
      BY <2>2, <3>1, <3>2
  <2>5. reports' \in [Wallets -> Nat] /\ \A u \in Wallets : reports'[u] >= reports[u]
    BY <2>1
  <2> QED
    BY <2>1, <2>3, <2>4, <2>5, GraphChanges
<1>2. CASE AddDeploy(w)
  <2>1. /\ UNCHANGED <<labels, rugs, adjOut, draft, file, reports, paid>>
        /\ nodes' = nodes \cup {w}
    BY <1>2 DEF AddDeploy, Changes, encoder, history
  <2>2. reports' \in [Wallets -> Nat] /\ \A u \in Wallets : reports'[u] >= reports[u]
    BY <2>1
  <2> QED
    BY <2>1, <2>2, GraphChanges
<1>3. CASE MarkRug(w)
  <2>1. /\ UNCHANGED <<adjOut, draft, file, paid>> /\ nodes' = nodes \cup {w}
        /\ rugs' = [rugs EXCEPT ![w] = @ + 1] /\ reports' = [reports EXCEPT ![w] = @ + 1]
        /\ labels' = IF rugs'[w] >= 2 THEN [labels EXCEPT ![w] = @ \cup {"rugger"}] ELSE labels
    BY <1>3 DEF MarkRug, Changes, encoder, Serial
  <2>2. reports' \in [Wallets -> Nat] /\ \A u \in Wallets : reports'[u] >= reports[u]
    BY <2>1
  <2>3. ASSUME GraphSound(labels, rugs, adjOut, reports', paid')
        PROVE  GraphSound(labels', rugs', adjOut', reports', paid')
    <3>1. /\ labels \in [Wallets -> SUBSET Labels] /\ rugs \in [Wallets -> Nat]
          /\ \A u \in Wallets : rugs[u] <= reports[u]
      BY DEF GraphSound
    <3>2. rugs' \in [Wallets -> Nat] /\ \A u \in Wallets : rugs'[u] <= reports'[u]
      BY <2>1, <3>1
    <3>3. labels' \in [Wallets -> SUBSET Labels]
      BY <2>1, <3>1 DEF Labels
    <3>4. ASSUME NEW u \in Wallets, "rugger" \in labels'[u]
          PROVE  u \in LedBy(reports', paid')
      <4>1. CASE rugs'[w] >= 2 /\ u = w
        <5>1. rugs'[w] \in Nat /\ reports'[w] \in Nat /\ rugs'[w] <= reports'[w]
          BY <2>2, <3>2
        <5>2. reports'[w] >= 2
          BY <4>1, <5>1
        <5> QED
          BY <4>1, <5>2, LeadsOn
      <4>2. CASE ~(rugs'[w] >= 2 /\ u = w)
        <5>1. labels'[u] = labels[u]
          BY <2>1, <3>1, <4>2
        <5> QED
          BY <2>3, <3>4, <5>1 DEF GraphSound
      <4> QED
        BY <4>1, <4>2
    <3>5. /\ adjOut' \in [Wallets -> [Wallets -> Nat]]
          /\ \A x, y \in Wallets : adjOut'[x][y] > 0 => <<x, y>> \in paid'
      BY <2>1, <2>3 DEF GraphSound
    <3> QED
      BY <3>2, <3>3, <3>4, <3>5 DEF GraphSound
  <2> QED
    BY <2>1, <2>2, <2>3, GraphChanges
<1>4. CASE MarkInsider(w)
  <2>1. /\ UNCHANGED <<rugs, adjOut, draft, file, reports, paid>> /\ nodes' = nodes \cup {w}
        /\ labels' = [labels EXCEPT ![w] = @ \cup {"insider"}]
    BY <1>4 DEF MarkInsider, Changes, encoder, history
  <2>2. reports' \in [Wallets -> Nat] /\ \A u \in Wallets : reports'[u] >= reports[u]
    BY <2>1
  <2>3. labels \in [Wallets -> SUBSET Labels]
    BY DEF GraphSound
  <2>4. labels' \in [Wallets -> SUBSET Labels]
    BY <2>1, <2>3 DEF Labels
  <2>5. \A u \in Wallets : "rugger" \in labels'[u] => "rugger" \in labels[u]
    BY <2>1, <2>3
  <2>6. GraphSound(labels, rugs, adjOut, reports', paid')
             => GraphSound(labels', rugs', adjOut', reports', paid')
    BY <2>1, <2>4, <2>5 DEF GraphSound
  <2> QED
    BY <2>1, <2>2, <2>6, GraphChanges
<1> QED
  BY <1>1, <1>2, <1>3, <1>4

(* Propagation, clusters, age and eviction.                                  *)
LEMMA LabelStep ==
    ASSUME GraphInv,
           \/ \E w \in Wallets : PropagateLabels(w) \/ Ages(w)
           \/ \E W \in SUBSET Wallets : DetectSybilCluster(W)
           \/ Evict
    PROVE  GraphInv'
<1> USE DEF GraphInv
<1>0. UNCHANGED <<draft, file, reports, paid>> /\ nodes' \subseteq Wallets
  BY DEF PropagateLabels, Ages, DetectSybilCluster, Evict, Changes, encoder, history
<1>h. reports' \in [Wallets -> Nat] /\ \A u \in Wallets : reports'[u] >= reports[u]
  BY <1>0
<1>l. labels \in [Wallets -> SUBSET Labels]
  BY DEF GraphSound
<1>1. ASSUME NEW w \in Wallets, PropagateLabels(w) PROVE GraphInv'
  <2> DEFINE Led == IF w \in nodes /\ "rugger" \in labels[w]
                    THEN nodes \cap Within(To, w, LabelPropDepth) ELSE {}
  <2>1. /\ UNCHANGED <<rugs, adjOut>>
        /\ labels' = [v \in Wallets |-> IF v \in Led THEN labels[v] \cup {"rugger"} ELSE labels[v]]
    BY <1>1 DEF PropagateLabels
  <2>2. To = EndsOf(adjOut)
    BY DEF To, EndsOf
  <2>3. Led \subseteq LedBy(reports, paid)
    <3>1. CASE w \in nodes /\ "rugger" \in labels[w]
      <4>1. w \in LedBy(reports, paid)
        BY <3>1 DEF GraphSound
      <4>2. \A u, v \in Wallets : adjOut[u][v] > 0 => <<u, v>> \in paid
        BY DEF GraphSound
      <4>3. LabelPropDepth \in Nat
        BY GraphAssumption
      <4> QED
        BY <2>2, <4>1, <4>2, <4>3, LabelsLead
    <3>2. CASE ~(w \in nodes /\ "rugger" \in labels[w])
      BY <3>2
    <3> QED
      BY <3>1, <3>2
  <2> HIDE DEF Led
  <2>4. labels' \in [Wallets -> SUBSET Labels]
    BY <1>l, <2>1 DEF Labels
  <2>5. \A v \in Wallets : "rugger" \in labels'[v] => "rugger" \in labels[v] \/ v \in LedBy(reports, paid)
    BY <2>1, <2>3
  <2>6. GraphSound(labels, rugs, adjOut, reports', paid')
             => GraphSound(labels', rugs', adjOut', reports', paid')
    BY <1>0, <2>1, <2>4, <2>5 DEF GraphSound
  <2> QED
    BY <1>0, <1>h, <2>6, GraphChanges
<1>2. ASSUME NEW w \in Wallets, Ages(w) PROVE GraphInv'
  <2>1. UNCHANGED <<labels, rugs, adjOut>>
    BY <1>2 DEF Ages
  <2> QED
    BY <1>0, <1>h, <2>1, GraphChanges
<1>3. ASSUME NEW W \in SUBSET Wallets, DetectSybilCluster(W) PROVE GraphInv'
  <2>1. PICK f \in Wallets :
            labels' = [v \in Wallets |-> IF v \in nodes \cap (W \cup {f})
                                         THEN labels[v] \cup {"sybil"} ELSE labels[v]]
    BY <1>3 DEF DetectSybilCluster
  <2>2. UNCHANGED <<rugs, adjOut>>
    BY <1>3 DEF DetectSybilCluster
  <2>3. labels' \in [Wallets -> SUBSET Labels]
    BY <1>l, <2>1 DEF Labels
  <2>4. \A u \in Wallets : "rugger" \in labels'[u] => "rugger" \in labels[u]
    BY <1>l, <2>1
  <2>5. GraphSound(labels, rugs, adjOut, reports', paid')
             => GraphSound(labels', rugs', adjOut', reports', paid')
    BY <2>2, <2>3, <2>4 DEF GraphSound
  <2> QED
    BY <1>0, <1>h, <2>5, GraphChanges
<1>4. CASE Evict
  <2> DEFINE E == Evictable
  <2>1. /\ labels' = [w \in Wallets |-> IF w \in E THEN {} ELSE labels[w]]
        /\ rugs' = [w \in Wallets |-> IF w \in E THEN 0 ELSE rugs[w]]
        /\ adjOut' = [w \in Wallets |-> IF w \in E THEN Zero ELSE adjOut[w]]
    BY <1>4 DEF Evict, Without
  <2> HIDE DEF E
  <2>2. ASSUME GraphSound(labels, rugs, adjOut, reports', paid')
        PROVE  GraphSound(labels', rugs', adjOut', reports', paid')
    <3>1. labels' \in [Wallets -> SUBSET Labels]
      BY <1>l, <2>1
    <3>2. rugs' \in [Wallets -> Nat] /\ \A w \in Wallets : rugs'[w] <= reports'[w]
      BY <1>h, <2>1, <2>2 DEF GraphSound
    <3>3. Zero \in [Wallets -> Nat] /\ \A v \in Wallets : Zero[v] = 0
      BY DEF Zero
    <3>4. adjOut' \in [Wallets -> [Wallets -> Nat]]
      BY <2>1, <2>2, <3>3 DEF GraphSound
    <3>5. \A v, w \in Wallets : adjOut'[v][w] > 0 => <<v, w>> \in paid'
      BY <2>1, <2>2, <3>3 DEF GraphSound
    <3>6. \A w \in Wallets : "rugger" \in labels'[w] => w \in LedBy(reports', paid')
      BY <2>1, <2>2 DEF GraphSound
    <3> QED
      BY <3>1, <3>2, <3>4, <3>5, <3>6 DEF GraphSound
  <2> QED
    BY <1>0, <1>h, <2>2, GraphChanges
<1> QED
  BY <1>1, <1>2, <1>3, <1>4

(* Whatever the encoder reads, and whenever, was in the graph at some time.    *)
LEMMA EncoderStep ==
    ASSUME GraphInv, NEW w \in Wallets, ReadEntry(w)
    PROVE  GraphInv'
<1>1. UNCHANGED <<nodes, labels, rugs, adjOut, file, reports, paid>>
  BY DEF ReadEntry, graph, history
<1>2. /\ DOMAIN draft = FieldNames /\ draft = [x \in FieldNames |-> draft[x]]
      /\ draft.nodes \subseteq Wallets
      /\ GraphSound(draft.labels, draft.rugs, draft.adjOut, reports, paid)
      /\ GraphSound(labels, rugs, adjOut, reports, paid)
  BY DEF GraphInv, SnapshotSound
<1>3. /\ DOMAIN draft' = FieldNames /\ draft' = [x \in FieldNames |-> draft'[x]]
  BY <1>2 DEF ReadEntry, ReadNode, ReadAdjOut, ReadAdjIn
<1>4. CASE ReadNode(w)
  <2>1. /\ draft'.nodes = draft.nodes \cup {w}
        /\ draft'.labels = [draft.labels EXCEPT ![w] = labels[w]]
        /\ draft'.rugs = [draft.rugs EXCEPT ![w] = rugs[w]]
        /\ draft'.adjOut = draft.adjOut
    BY <1>2, <1>4 DEF ReadNode, FieldNames
  <2>2. GraphSound(draft'.labels, draft'.rugs, draft'.adjOut, reports, paid)
    <3> DEFINE dl == draft.labels  dr == draft.rugs  el == draft'.labels  er == draft'.rugs
               da == draft.adjOut
    <3>1. /\ GraphSound(dl, dr, da, reports, paid) /\ el = [dl EXCEPT ![w] = labels[w]]
          /\ er = [dr EXCEPT ![w] = rugs[w]]
      BY <1>2, <2>1
    <3>2. draft'.adjOut = da
      BY <2>1
    <3> HIDE DEF dl, dr, el, er, da
    <3>3. GraphSound(el, er, da, reports, paid)
      BY <1>2, <3>1 DEF GraphSound
    <3> QED
      BY <3>2, <3>3 DEF el, er
  <2> QED
    BY <1>1, <1>2, <1>3, <2>1, <2>2 DEF GraphInv, SnapshotSound
<1>5. CASE ReadAdjOut(w)
  <2>1. /\ draft'.nodes = draft.nodes /\ draft'.labels = draft.labels
        /\ draft'.rugs = draft.rugs
        /\ draft'.adjOut = [draft.adjOut EXCEPT ![w] = adjOut[w]]
    BY <1>2, <1>5 DEF ReadAdjOut, FieldNames
  <2>2. GraphSound(draft'.labels, draft'.rugs, draft'.adjOut, reports, paid)
    <3> DEFINE dl == draft.labels  dr == draft.rugs  da == draft.adjOut  ea == draft'.adjOut
    <3>1. GraphSound(dl, dr, da, reports, paid) /\ ea = [da EXCEPT ![w] = adjOut[w]]
      BY <1>2, <2>1
    <3>2. draft'.labels = dl /\ draft'.rugs = dr
      BY <2>1
    <3> HIDE DEF dl, dr, da, ea
    <3>3. GraphSound(dl, dr, ea, reports, paid)
      BY <1>2, <3>1 DEF GraphSound
    <3> QED
      BY <3>2, <3>3 DEF ea
  <2> QED
    BY <1>1, <1>2, <1>3, <2>1, <2>2 DEF GraphInv, SnapshotSound
<1>6. CASE ReadAdjIn(w)
  <2>1. /\ draft'.nodes = draft.nodes /\ draft'.labels = draft.labels
        /\ draft'.rugs = draft.rugs /\ draft'.adjOut = draft.adjOut
    BY <1>2, <1>6 DEF ReadAdjIn, FieldNames
  <2> QED
    BY <1>1, <1>2, <1>3, <2>1 DEF GraphInv, SnapshotSound
<1> QED
  BY <1>4, <1>5, <1>6 DEF ReadEntry

(* The other steps of a snapshot, the end of the process and its restart.     *)
LEMMA SnapshotStep ==
    ASSUME GraphInv,
           SaveSnapshot \/ NextMap \/ SnapshotSaved \/ Dies \/ LoadSnapshot
             \/ \E w \in Wallets : AtCapacity(w)
    PROVE  GraphInv'
<1>0. UNCHANGED <<reports, paid>> /\ reports \in [Wallets -> Nat]
  BY DEF SaveSnapshot, NextMap, SnapshotSaved, Dies, LoadSnapshot, AtCapacity, Crash, history,
         GraphInv
<1>e. SnapshotSound(EmptyGraph, reports, paid)
  BY <1>0, EmptySound
<1>1. CASE SaveSnapshot
  <2>1. /\ UNCHANGED <<nodes, labels, rugs, adjOut, file>>
        /\ draft' = [EmptyGraph EXCEPT !.nextCluster = nextCluster]
    BY <1>1 DEF SaveSnapshot, graph
  <2>2. /\ draft'.nodes = EmptyGraph.nodes /\ draft'.labels = EmptyGraph.labels
        /\ draft'.rugs = EmptyGraph.rugs /\ draft'.adjOut = EmptyGraph.adjOut
        /\ DOMAIN draft' = FieldNames /\ draft' = [x \in FieldNames |-> draft'[x]]
    BY <2>1 DEF EmptyGraph, FieldNames
  <2>3. SnapshotSound(draft', reports, paid)
    BY <1>e, <2>2 DEF SnapshotSound
  <2> QED
    BY <1>0, <2>1, <2>3 DEF GraphInv
<1>2. CASE SnapshotSaved
  <2>1. UNCHANGED <<nodes, labels, rugs, adjOut>> /\ draft' = EmptyGraph
    BY <1>2 DEF SnapshotSaved, graph
  <2>2. file' = file \/ file' = {draft}
    BY <1>2 DEF SnapshotSaved
  <2> QED
    BY <1>0, <1>e, <2>1, <2>2 DEF GraphInv
<1>3. CASE LoadSnapshot
  <2>1. PICK g \in IF file = {} THEN {EmptyGraph} ELSE file :
            /\ nodes' = g.nodes /\ labels' = g.labels /\ rugs' = g.rugs /\ adjOut' = g.adjOut
    BY <1>3 DEF LoadSnapshot
  <2>2. UNCHANGED <<draft, file>>
    BY <1>3 DEF LoadSnapshot, encoder
  <2>3. SnapshotSound(g, reports, paid)
    BY <1>e, <2>1 DEF GraphInv
  <2> QED
    BY <1>0, <2>1, <2>2, <2>3 DEF GraphInv, SnapshotSound
<1>4. CASE Dies \/ \E w \in Wallets : AtCapacity(w)
  <2>1. UNCHANGED <<nodes, labels, rugs, adjOut, file>> /\ draft' = EmptyGraph
    BY <1>4 DEF Dies, AtCapacity, Crash, graph
  <2> QED
    BY <1>0, <1>e, <2>1 DEF GraphInv
<1>5. CASE NextMap
  <2>1. UNCHANGED <<nodes, labels, rugs, adjOut, draft, file>>
    BY <1>5 DEF NextMap, graph
  <2> QED
    BY <1>0, <2>1 DEF GraphInv
<1> QED
  BY <1>1, <1>2, <1>3, <1>4, <1>5

(* Every operation on the graph, and the process that dies and restarts.     *)
LEMMA GraphStep == GraphInv /\ [GNext]_gvars => GraphInv'
<1> SUFFICES ASSUME GraphInv, [GNext]_gvars PROVE GraphInv'
  OBVIOUS
<1>1. CASE UNCHANGED gvars
  BY <1>1 DEF gvars, graph, encoder, history, GraphInv
<1> QED
  BY <1>1, IngestStep, LabelStep, EncoderStep, SnapshotStep DEF GNext

(* Every label of a serial rugger is traced, through evictions, crashes and   *)
(* restarts from snapshots that hold parts of the graph at different moments  *)
(* (LabelsTraced), for any wallets and any depth of propagation.             *)
THEOREM LabelsAreTraced == GSpec => []LabelsTraced
<1>1. GraphInv => LabelsTraced
  <2>1. PaidBy = Ends(paid)
    BY DEF PaidBy, Ends
  <2> QED
    BY <2>1 DEF GraphInv, GraphSound, LabelsTraced, Culprits, LedBy
<1> QED
  BY <1>1, GraphStart, GraphStep, PTL DEF GSpec

-----------------------------------------------------------------------------
(* The risk of those around a rugger                                       *)

(* One hop leads to the wallets next to the first.                          *)
LEMMA FirstHop ==
    ASSUME NEW next, NEW w
    PROVE  Within(next, w, 1) = {w} \cup next[w]
<1>1. 1 \in Nat \ {0} /\ 1 - 1 = 0
  OBVIOUS
<1>2. /\ Within(next, w, 0) = {w}
      /\ Within(next, w, 1) = Within(next, w, 0) \cup UNION {next[v] : v \in Within(next, w, 0)}
  BY <1>1, OneHopMore
<1> QED
  BY <1>2

(* Forty points for the rugger outweigh what an insider takes off.          *)
LEMMA NextDoorIsRisky == GraphInv => NeighboursAreRisky
<1> SUFFICES ASSUME GraphInv, NEW w \in nodes, NEW v \in nodes,
                    v \in Both[w], "rugger" \in labels[v],
                    NEW funder \in {{}} \cup {{f} : f \in From[w]}
             PROVE  RiskScore(w, funder) > 50
  BY DEF NeighboursAreRisky
<1>1. CASE "rugger" \in labels[w]
  BY <1>1 DEF RiskScore
<1>2. CASE "rugger" \notin labels[w]
  <2>1. v \in nodes \cap Around(w, 1)
    BY <1>2, FirstHop DEF Around
  <2> DEFINE near == {n \in 1 .. LabelPropDepth :
                          \E u \in nodes \cap Around(w, n) : "rugger" \in labels[u]}
  <2>2. 1 \in near /\ near \subseteq Nat /\ \A n \in near : 1 <= n
    BY <2>1, GraphAssumption
  <2>3. Min(near) = 1
    <3> HIDE DEF near
    <3>1. Min(near) \in near /\ \A n \in near : Min(near) <= n
      BY <2>2 DEF Min
    <3>2. Min(near) \in Nat /\ 1 <= Min(near) /\ Min(near) <= 1
      BY <2>2, <3>1
    <3> QED
      BY <3>2
  <2>4. HopsTo("rugger", w) = 1
    BY <2>2, <2>3 DEF HopsTo
  <2> DEFINE known == HopsTo("insider", w)
  <2> DEFINE big == ClusterSize(w) > SybilClusterMin
  <2> DEFINE paidFor == \E f \in funder : "rugger" \in labels[f]
  <2> DEFINE often == deploys[w] > FrequentDeploys
  <2> DEFINE score == 50
            + Weight("sybil" \in labels[w], 20) - Weight("insider" \in labels[w], 20)
            + Weight(1 = 1, 40) + Weight(1 = 2, 20)
            - Weight(known = 1, 15) - Weight(known = 2, 8)
            + Weight(big, 15) + Weight(paidFor, 30) + Weight(often, 15)
  <2>5. RiskScore(w, funder) = Min({Max({score, 0}), 100})
    BY <1>2, <2>4, ZenonT(60) DEF RiskScore
  <2> HIDE DEF known, big, paidFor, often
  <2>6. score \in Int /\ score > 50
    BY DEF Weight
  <2> HIDE DEF score
  <2>7. Max({score, 0}) = score
    BY <2>6 DEF Max
  <2>8. Min({score, 100}) > 50
    BY <2>6 DEF Min
  <2> QED
    BY <2>5, <2>7, <2>8
<1> QED
  BY <1>1, <1>2

(* Whoever dealt with a serial rugger scores above neutral in every state     *)
(* the graph can reach (engine.go QueryDeployer, calculateRiskScore).        *)
THEOREM RuggersNextDoorCount == GSpec => []NeighboursAreRisky
  BY NextDoorIsRisky, GraphStart, GraphStep, PTL DEF GSpec

-----------------------------------------------------------------------------
(* Scoring: what is known against a token                                    *)

\* More is known against a token by z than by s.  A rotation that launches
\* serially is the exception.
Worse(s, z) ==
    s \subseteq z /\ ~("rotation" \in s /\ "serial_launches" \in z /\ "serial_launches" \notin s)

(* What is cut off at both ends keeps its order.                            *)
LEMMA Clamped ==
    ASSUME NEW top \in Int, top >= 0
    PROVE  /\ \A x \in Int : ClampTo(top, x) \in 0 .. top
           /\ \A x, y \in Int : x <= y => ClampTo(top, x) <= ClampTo(top, y)
  BY DEF ClampTo

(* The points of a limit are a number.                                      *)
LEMMA PointsAbove ==
    ASSUME NEW limits \in Seq(Int \X Int), NEW x
    PROVE  Above(limits, x) \in Int
<1> DEFINE hit == {i \in DOMAIN limits : x > limits[i][1]}
<1>1. CASE hit = {}
  BY <1>1 DEF Above
<1>2. CASE hit # {}
  <2>1. hit \in SUBSET Nat
    OBVIOUS
  <2>2. \E i \in hit : \A j \in hit : i <= j
    <3> HIDE DEF hit
    <3> QED
      BY <1>2, <2>1, LeastNumber
  <2>3. Min(hit) \in hit
    <3> HIDE DEF hit
    <3> QED
      BY <2>2 DEF Min
  <2>4. limits[Min(hit)] \in Int \X Int
    BY <2>3
  <2>5. limits[Min(hit)][2] \in Int
    BY <2>4
  <2> QED
    BY <2>5 DEF Above
<1> QED
  BY <1>1, <1>2

(* A percentage.                                                           *)
LEMMA Percent ==
    /\ \A i \in Int : ClampTo(100, i) \in 0 .. 100
    /\ \A i, j \in Int : i <= j => ClampTo(100, i) <= ClampTo(100, j)
<1>1. 100 \in Int /\ 100 >= 0
  OBVIOUS
<1> QED
  BY <1>1, Clamped

(* The points for liquidity, for social counts and for their sources.       *)
LEMMA Limits ==
    \A x : /\ Above(<< <<50000, 15>>, <<10000, 10>> >>, x) \in Int
           /\ Above(<< <<10, 25>>, <<5, 18>>, <<1, 10>> >>, x) \in Int
           /\ Above(<< <<50, 20>>, <<20, 15>>, <<5, 8>> >>, x) \in Int
           /\ Above(<< <<10, 15>>, <<3, 8>> >>, x) \in Int
           /\ Above(<< <<2, 15>>, <<1, 10>>, <<0, 5>> >>, x) \in Int
<1> DEFINE a == << <<50000, 15>>, <<10000, 10>> >>
           b == << <<10, 25>>, <<5, 18>>, <<1, 10>> >>
           c == << <<50, 20>>, <<20, 15>>, <<5, 8>> >>
           d == << <<10, 15>>, <<3, 8>> >>
           e == << <<2, 15>>, <<1, 10>>, <<0, 5>> >>
           L == Seq(Int \X Int)
<1>1. a \in L /\ b \in L /\ c \in L /\ d \in L /\ e \in L
  OBVIOUS
<1>2. \A limits \in L : \A x : Above(limits, x) \in Int
  BY PointsAbove
<1> HIDE DEF a, b, c, d, e, L
<1>3. \A x : /\ Above(a, x) \in Int /\ Above(b, x) \in Int /\ Above(c, x) \in Int
             /\ Above(d, x) \in Int /\ Above(e, x) \in Int
  BY <1>1, <1>2
<1> USE <1>3
<1>4. \A x : Above(<< <<50000, 15>>, <<10000, 10>> >>, x) \in Int
  BY DEF a
<1>5. \A x : Above(<< <<10, 25>>, <<5, 18>>, <<1, 10>> >>, x) \in Int
  BY DEF b
<1>6. \A x : Above(<< <<50, 20>>, <<20, 15>>, <<5, 8>> >>, x) \in Int
  BY DEF c
<1>7. \A x : Above(<< <<10, 15>>, <<3, 8>> >>, x) \in Int
  BY DEF d
<1>8. \A x : Above(<< <<2, 15>>, <<1, 10>>, <<0, 5>> >>, x) \in Int
  BY DEF e
<1> QED
  BY <1>4, <1>5, <1>6, <1>7, <1>8

(* The safety analysis only falls.                                          *)
LEMMA AnalysisFalls ==
    ASSUME NEW t, NEW s, NEW z, s \subseteq z
    PROVE  /\ AnalysisScore(t, s) \in Int /\ AnalysisScore(t, z) \in Int
           /\ AnalysisScore(t, z) <= AnalysisScore(t, s)
<1>1. /\ AuthorityPoints(t, s) \in Int /\ AuthorityPoints(t, z) \in Int
      /\ AuthorityPoints(t, z) <= AuthorityPoints(t, s)
  BY DEF AuthorityPoints
<1>2. /\ LPPoints(t, s) \in Int /\ LPPoints(t, z) \in Int /\ LPPoints(t, z) <= LPPoints(t, s)
  BY DEF LPPoints
<1>3. /\ HolderPoints(t, s) \in Int /\ HolderPoints(t, z) \in Int
      /\ HolderPoints(t, z) <= HolderPoints(t, s)
  BY DEF HolderPoints
<1>4. LiquidityPoints(t) \in Int
  <2>1. Above(<< <<50000, 15>>, <<10000, 10>> >>, t.liquidityUSD) \in Int
    BY Limits
  <2> QED
    BY <2>1 DEF LiquidityPoints
<1>5. AgePoints(t) \in Int
  BY DEF AgePoints
<1> DEFINE a == AuthorityPoints(t, s)
           b == AuthorityPoints(t, z)
           c == LPPoints(t, s)
           d == LPPoints(t, z)
           e == HolderPoints(t, s)
           f == HolderPoints(t, z)
           p == LiquidityPoints(t)
           q == AgePoints(t)
           x == 50 + a + p + c + e + q
           y == 50 + b + p + d + f + q
<1>6. x \in Int /\ y \in Int /\ y <= x
  <2> HIDE DEF a, b, c, d, e, f, p, q
  <2>1. a \in Int /\ b \in Int /\ c \in Int /\ d \in Int /\ e \in Int /\ f \in Int
        /\ p \in Int /\ q \in Int /\ b <= a /\ d <= c /\ f <= e
    BY <1>1, <1>2, <1>3, <1>4, <1>5 DEF a, b, c, d, e, f, p, q
  <2> QED
    BY <2>1
<1>7. AnalysisScore(t, s) = ClampTo(100, x) /\ AnalysisScore(t, z) = ClampTo(100, y)
  BY DEF AnalysisScore
<1> HIDE DEF x, y
<1>8. /\ \A i \in Int : ClampTo(100, i) \in 0 .. 100
      /\ \A i, j \in Int : i <= j => ClampTo(100, i) <= ClampTo(100, j)
  BY Percent
<1> QED
  BY <1>6, <1>7, <1>8

(* A sale that was impossible or taxed stays so, and so does the verdict.     *)
LEMMA SaleGetsHarder ==
    ASSUME NEW t \in Tokens, NEW s, NEW z, s \subseteq z
    PROVE  /\ QuoteReserve(t, s) \in Nat /\ QuoteReserve(t, z) \in Nat
           /\ QuoteReserve(t, z) <= QuoteReserve(t, s)
           /\ CanSell(t, z) => CanSell(t, s)
           /\ TaxTooHigh(t, s) => TaxTooHigh(t, z)
           /\ BuyMovesPrice(t, s) => BuyMovesPrice(t, z) \/ QuoteReserve(t, z) = 0
<1>1. /\ QuoteReserve(t, s) \in Nat /\ QuoteReserve(t, z) \in Nat
      /\ QuoteReserve(t, z) <= QuoteReserve(t, s)
  BY ScoringAssumption DEF QuoteReserve
<1> DEFINE q == QuoteReserve(t, s)
           p == QuoteReserve(t, z)
<1> HIDE DEF q, p
<1>2. q \in Nat /\ p \in Nat /\ p <= q /\ BuySOL \in Nat
  BY <1>1, ScoringAssumption DEF q, p
<1>3. /\ QuoteAfter(t, s) = 400 * q + 399 * BuySOL
      /\ QuoteAfter(t, z) = 400 * p + 399 * BuySOL
  BY DEF QuoteAfter, EffectiveBuy, q, p
<1>4. CanSell(t, z) => CanSell(t, s)
  BY <1>2, <1>3 DEF CanSell, EffectiveBuy, q, p
<1>5. TaxTooHigh(t, s) => TaxTooHigh(t, z)
  BY <1>2, <1>3 DEF TaxTooHigh, EffectiveBuy
<1>6. BuyMovesPrice(t, s) => BuyMovesPrice(t, z) \/ p = 0
  BY <1>2 DEF BuyMovesPrice, q, p
<1> QED
  BY <1>1, <1>4, <1>5, <1>6 DEF p

(* Neither a warning nor a missed threshold is taken back.                   *)
LEMMA VerdictStays ==
    ASSUME NEW t \in Tokens, NEW s, NEW z, s \subseteq z
    PROVE  /\ Verdict(t, s) = "HONEYPOT" => Verdict(t, z) = "HONEYPOT"
           /\ Verdict(t, z) = "BUY" => Verdict(t, s) = "BUY"
           /\ Verdict(t, z) = "BUY" => AnalysisScore(t, s) >= MinSafetyScore
<1> DEFINE x == AnalysisScore(t, s)
           y == AnalysisScore(t, z)
<1>1. x \in Int /\ y \in Int /\ y <= x /\ MinSafetyScore \in Int
  BY AnalysisFalls, ScoringAssumption
<1> HIDE DEF x, y
<1> QED
  BY <1>1 DEF Verdict, x, y

(* An instant kill is not lifted.                                           *)
LEMMA KillStays ==
    ASSUME NEW t \in Tokens, NEW s, NEW z, s \subseteq z
    PROVE  InstantKill(t, s) => InstantKill(t, z)
  BY SaleGetsHarder, VerdictStays DEF InstantKill

\* Both are numbers, and the second is at most the first.
AtMost(x, y) == x \in Int /\ y \in Int /\ y <= x

(* A dimension keeps the order of its points, and is never below zero.       *)
LEMMA DimensionFalls ==
    ASSUME NEW x, NEW y, AtMost(x, y)
    PROVE  /\ AtMost(Dimension(x), Dimension(y))
           /\ Dimension(x) \in Nat /\ Dimension(y) \in Nat
<1>1. 100 * Milli \in Int /\ 100 * Milli >= 0
  BY DEF Milli
<1>2. /\ \A i \in Int : ClampTo(100 * Milli, i) \in 0 .. 100 * Milli
      /\ \A i, j \in Int : i <= j => ClampTo(100 * Milli, i) <= ClampTo(100 * Milli, j)
  BY <1>1, Clamped
<1>3. \A i \in 0 .. 100 * Milli : i \in Nat
  BY <1>1
<1> QED
  BY <1>2, <1>3 DEF AtMost, Dimension

(* The safety dimension only falls.                                         *)
LEMMA SafetyFalls ==
    ASSUME NEW t \in Tokens, NEW s, NEW z, s \subseteq z
    PROVE  /\ AtMost(SafetyScore(t, s), SafetyScore(t, z))
           /\ SafetyScore(t, s) \in Nat /\ SafetyScore(t, z) \in Nat
<1> DEFINE a == AnalysisScore(t, s)
           b == AnalysisScore(t, z)
           c == ClampTo(100, a + 15)
           d == ClampTo(100, b + 15)
           e == FlowImpact(t, s)
           f == FlowImpact(t, z)
           g == HoneypotImpact(s)
           h == HoneypotImpact(z)
<1>1. c \in Int /\ d \in Int /\ d <= c
  <2>1. a + 15 \in Int /\ b + 15 \in Int /\ b + 15 <= a + 15
    <3>1. a \in Int /\ b \in Int /\ b <= a
      BY AnalysisFalls
    <3> HIDE DEF a, b
    <3> QED
      BY <3>1
  <2>2. /\ \A i \in Int : ClampTo(100, i) \in 0 .. 100
        /\ \A i, j \in Int : i <= j => ClampTo(100, i) <= ClampTo(100, j)
    BY Percent
  <2> HIDE DEF a, b
  <2> QED
    BY <2>1, <2>2
<1>2. e \in Int /\ f \in Int /\ f <= e
  BY DEF FlowImpact, Milli
<1>3. g \in Int /\ h \in Int /\ h <= g
  BY DEF HoneypotImpact, Milli
<1>4. /\ SafetyScore(t, s) = Dimension(Milli * c + e + g)
      /\ SafetyScore(t, z) = Dimension(Milli * d + f + h)
  BY DEF SafetyScore
<1> HIDE DEF c, d, e, f, g, h
<1>5. AtMost(Milli * c + e + g, Milli * d + f + h)
  BY <1>1, <1>2, <1>3 DEF AtMost, Milli
<1> QED
  BY <1>4, <1>5, DimensionFalls

(* The entity dimension only falls.                                         *)
LEMMA EntityFalls ==
    ASSUME NEW t \in Tokens, NEW s, NEW z, Worse(s, z)
    PROVE  /\ AtMost(EntityScore(t, s), EntityScore(t, z))
           /\ EntityScore(t, s) \in Nat /\ EntityScore(t, z) \in Nat
<1> DEFINE x(r) == 50 + HopPoints(t, r) + LabelPoints(t, r)
           y(r) == IF ~t.entity THEN 50 ELSE IF RuggerNextDoor(r) THEN 0 ELSE ClampTo(100, x(r))
<1>1. AtMost(CrossTokenImpact(s), CrossTokenImpact(z))
  BY DEF CrossTokenImpact, Milli, AtMost, Worse
<1>2. AtMost(y(s), y(z))
  <2>1. \A r : HopPoints(t, r) \in Int /\ LabelPoints(t, r) \in Int
    BY DEF HopPoints, LabelPoints
  <2>2. x(s) \in Int /\ x(z) \in Int
    BY <2>1
  <2>3. /\ \A i \in Int : ClampTo(100, i) \in 0 .. 100
        /\ \A i, j \in Int : i <= j => ClampTo(100, i) <= ClampTo(100, j)
    BY Percent
  <2>4. CASE RuggerNextDoor(z) \/ ~t.entity
    <3>1. ClampTo(100, x(s)) \in 0 .. 100
      BY <2>2, <2>3
    <3> HIDE DEF x
    <3> QED
      BY <2>4, <3>1 DEF AtMost
  <2>5. CASE ~RuggerNextDoor(z) /\ t.entity
    <3>1. ~RuggerNextDoor(s) /\ "hops1" \notin s /\ "hops1" \notin z
      BY <2>5 DEF RuggerNextDoor, Worse
    <3>2. HopPoints(t, z) <= HopPoints(t, s)
      BY <3>1 DEF HopPoints, Worse
    <3>3. LabelPoints(t, z) <= LabelPoints(t, s)
      BY DEF LabelPoints, Worse
    <3>4. x(z) <= x(s)
      BY <2>1, <3>2, <3>3
    <3> HIDE DEF x
    <3>5. ClampTo(100, x(z)) <= ClampTo(100, x(s))
      BY <2>2, <2>3, <3>4
    <3> QED
      BY <2>2, <2>3, <2>5, <3>1, <3>5 DEF AtMost
  <2> QED
    BY <2>4, <2>5
<1>3. /\ EntityScore(t, s) = Dimension(CrossTokenImpact(s) + Milli * y(s))
      /\ EntityScore(t, z) = Dimension(CrossTokenImpact(z) + Milli * y(z))
  BY DEF EntityScore
<1> HIDE DEF y
<1>4. AtMost(CrossTokenImpact(s) + Milli * y(s), CrossTokenImpact(z) + Milli * y(z))
  BY <1>1, <1>2 DEF AtMost, Milli
<1> QED
  BY <1>3, <1>4, DimensionFalls

(* What the copied wallets and the whales do is a number.                   *)
LEMMA OthersAct ==
    ASSUME NEW t \in Tokens
    PROVE  CopyImpact(t) \in Int /\ WhalePoints(t) \in Int
<1>1. CopyImpact(t) \in Int
  <2> DEFINE base == CASE t.copy.signal = "FIRST_MOVE" -> 20
                       [] t.copy.signal = "ACCUMULATE" -> 15
                       [] t.copy.signal = "BUY"        -> 10
                       [] t.copy.signal = "SELL"       -> -15
                       [] t.copy.signal = "DUMP"       -> -30
                       [] OTHER                        -> 0
  <2>1. base \in Int
    OBVIOUS
  <2>2. CopyImpact(t) = base * t.copy.tier * t.copy.confidence
    BY DEF CopyImpact
  <2> HIDE DEF base
  <2> QED
    BY <2>1, <2>2, ScoringAssumption
<1>2. WhalePoints(t) \in Int
  <2> DEFINE points == [w \in t.whales |->
                           CASE w = "WHALE_BUY"            -> 30
                             [] w = "SMART_MONEY_BUY"      -> 25
                             [] w = "KOL_BUY"              -> 20
                             [] w = "FRESH_WALLET_BIG_BUY" -> 10
                             [] w = "WHALE_SELL"           -> -40
                             [] OTHER                      -> 0]
  <2>1. \A w \in t.whales : points[w] \in Int
    OBVIOUS
  <2>2. WhalePoints(t) = SumFunctionOnSet(points, t.whales)
    BY DEF WhalePoints
  <2> HIDE DEF points
  <2> QED
    BY <2>1, <2>2, SumInt, ScoringAssumption
<1> QED
  BY <1>1, <1>2

(* The on-chain dimension only falls.                                       *)
LEMMA OnChainFalls ==
    ASSUME NEW t \in Tokens, NEW s, NEW z, s \subseteq z
    PROVE  /\ AtMost(OnChainScore(t, s), OnChainScore(t, z))
           /\ OnChainScore(t, s) \in Nat /\ OnChainScore(t, z) \in Nat
<1> DEFINE a == Above(<< <<50000, 15>>, <<10000, 10>> >>, t.liquidityUSD)
           b == WhalePoints(t)
           c == CopyImpact(t)
           held(r) == IF t.holders /\ r \cap {"over40", "over50"} = {} THEN 15 ELSE 0
           x(r) == ClampTo(100, 30 + b + held(r) + a)
<1>1. a \in Int /\ b \in Int /\ c \in Int
  BY Limits, OthersAct
<1>2. OnChainScore(t, s) = Dimension(c + Milli * x(s)) /\ OnChainScore(t, z) = Dimension(c + Milli * x(z))
  BY DEF OnChainScore
<1>3. held(s) \in Int /\ held(z) \in Int /\ held(z) <= held(s)
  OBVIOUS
<1> HIDE DEF a, b, c, held
<1>4. AtMost(x(s), x(z))
  <2>1. /\ \A i \in Int : ClampTo(100, i) \in 0 .. 100
        /\ \A i, j \in Int : i <= j => ClampTo(100, i) <= ClampTo(100, j)
    BY Percent
  <2>2. 30 + b + held(s) + a \in Int /\ 30 + b + held(z) + a \in Int
        /\ 30 + b + held(z) + a <= 30 + b + held(s) + a
    BY <1>1, <1>3
  <2> QED
    BY <2>1, <2>2 DEF AtMost
<1> HIDE DEF x
<1>5. AtMost(c + Milli * x(s), c + Milli * x(z))
  BY <1>1, <1>4 DEF AtMost, Milli
<1> QED
  BY <1>2, <1>5, DimensionFalls

(* The bonus of agreeing dimensions only falls.                             *)
LEMMA BonusFalls ==
    ASSUME NEW t \in Tokens, NEW s, NEW z, Worse(s, z)
    PROVE  AtMost(CorrelationBonus(t, s), CorrelationBonus(t, z))
<1>1. OnChainScore(t, z) > 50 * Milli => OnChainScore(t, s) > 50 * Milli
  BY OnChainFalls DEF AtMost, Milli, Worse
<1>2. EntityScore(t, z) > 60 * Milli => EntityScore(t, s) > 60 * Milli
  BY EntityFalls DEF AtMost, Milli
<1> DEFINE a(r) == OnChainScore(t, r) > 50 * Milli
           b(r) == EntityScore(t, r) > 60 * Milli
<1>3. \A r : CorrelationBonus(t, r) =
                 IF a(r) /\ t.whales # {} /\ HasSocial(t) /\ b(r) THEN 20
                 ELSE IF t.entity /\ t.insiderHops > 0 /\ HasSocial(t) THEN 15
                 ELSE IF HasSocial(t) THEN (IF a(r) THEN 10 ELSE -10) ELSE 0
  BY DEF CorrelationBonus
<1>4. (a(z) => a(s)) /\ (b(z) => b(s))
  BY <1>1, <1>2
<1> HIDE DEF a, b
<1> QED
  BY <1>3, <1>4 DEF AtMost

(* Social and timing do not depend on what is known against the token.       *)
LEMMA OtherDimensions ==
    ASSUME NEW t \in Tokens
    PROVE  SocialScore(t) \in Nat /\ TimingScore(t) \in Nat
<1>1. \A x \in Int : Dimension(x) \in Nat
  BY DimensionFalls DEF AtMost
<1>2. SocialScore(t) \in Nat
  <2>1. CASE t.social = {}
    BY <2>1 DEF SocialScore, Milli
  <2>2. CASE t.social # {}
    <3> DEFINE d == CHOOSE d \in t.social : TRUE
               a == Above(<< <<10, 25>>, <<5, 18>>, <<1, 10>> >>, d.telegram)
               b == Above(<< <<50, 20>>, <<20, 15>>, <<5, 8>> >>, d.twitter)
               c == Above(<< <<10, 15>>, <<3, 8>> >>, d.discord)
               e == Above(<< <<2, 15>>, <<1, 10>>, <<0, 5>> >>, d.sources)
               k == IF d.kol THEN 15 ELSE 0
               loud == Cardinality({h \in {<<"t", d.telegram, 1>>, <<"x", d.twitter, 5>>,
                                           <<"d", d.discord, 3>>} : h[2] > h[3]})
               l == IF loud >= 2 THEN 13 ELSE 10
               n == IF d.negative THEN 1 ELSE 2
    <3>1. a \in Int /\ b \in Int /\ c \in Int /\ e \in Int
      BY Limits
    <3>2. k \in Int /\ l \in Int /\ n \in Int
      OBVIOUS
    <3>3. SocialScore(t) = Dimension(50 * (a + b + c + e + k) * l * n)
      BY <2>2 DEF SocialScore
    <3> HIDE DEF a, b, c, e, k, l, n
    <3>4. 50 * (a + b + c + e + k) * l * n \in Int
      BY <3>1, <3>2
    <3> QED
      BY <1>1, <3>3, <3>4
  <2> QED
    BY <2>1, <2>2
<1>3. TimingScore(t) \in Nat
  <2> DEFINE fresh == IF t.age < 5 THEN 30 ELSE IF t.age < 30 THEN 20
                    ELSE IF t.age < 120 THEN 10 ELSE 0
             mcap == 2 * t.liquidityUSD
             small == IF mcap < 50000 THEN 25 ELSE IF mcap < 500000 THEN 15
                      ELSE IF mcap < 5000000 THEN 5 ELSE 0
             x == ClampTo(100, 30 + fresh + small)
  <2>1. TimingScore(t) = Dimension(NarrativeImpact(t) + Milli * x)
    BY DEF TimingScore
  <2>2. NarrativeImpact(t) \in Int
    BY DEF NarrativeImpact, Milli
  <2>3. fresh \in Int /\ small \in Int
    OBVIOUS
  <2> HIDE DEF fresh, small
  <2>4. x \in Int
    BY <2>3, Percent
  <2> HIDE DEF x
  <2>5. NarrativeImpact(t) + Milli * x \in Int
    BY <2>2, <2>4 DEF Milli
  <2> QED
    BY <1>1, <2>1, <2>5
<1> QED
  BY <1>2, <1>3

(* A weight keeps the order of the dimension it multiplies.                 *)
LEMMA Weighted ==
    ASSUME NEW x \in Nat, NEW y \in Nat, y <= x, NEW w \in Nat
    PROVE  AtMost(x * w, y * w)
  BY DEF AtMost

(* A total, in thousandths of a percent.                                    *)
LEMMA WholeTotal ==
    /\ \A i \in Int : ClampTo(10000 * Milli, i) \in 0 .. 10000 * Milli
    /\ \A i, j \in Int : i <= j => ClampTo(10000 * Milli, i) <= ClampTo(10000 * Milli, j)
<1> DEFINE top == 10000 * Milli
<1>1. top \in Int /\ top >= 0
  BY DEF Milli
<1> HIDE DEF top
<1>2. /\ \A i \in Int : ClampTo(top, i) \in 0 .. top
      /\ \A i, j \in Int : i <= j => ClampTo(top, i) <= ClampTo(top, j)
  BY <1>1, Clamped
<1> QED
  BY <1>2 DEF top

(* The total only falls, whatever the weights.                              *)
LEMMA TotalFalls ==
    ASSUME NEW t \in Tokens, NEW s, NEW z, Worse(s, z), NEW w \in Weights
    PROVE  AtMost(Total(t, s, w), Total(t, z, w))
<1> DEFINE x(r) == SafetyScore(t, r) * w.safety + EntityScore(t, r) * w.entity
                   + SocialScore(t) * w.social + OnChainScore(t, r) * w.onchain
                   + TimingScore(t) * w.timing + 100 * Milli * CorrelationBonus(t, r)
<1>1. w.safety \in Nat /\ w.entity \in Nat /\ w.social \in Nat /\ w.onchain \in Nat /\ w.timing \in Nat
  BY ScoringAssumption
<1>2. AtMost(SafetyScore(t, s) * w.safety, SafetyScore(t, z) * w.safety)
  BY <1>1, SafetyFalls, Weighted DEF Worse, AtMost
<1>3. AtMost(EntityScore(t, s) * w.entity, EntityScore(t, z) * w.entity)
  BY <1>1, EntityFalls, Weighted DEF AtMost
<1>4. AtMost(OnChainScore(t, s) * w.onchain, OnChainScore(t, z) * w.onchain)
  BY <1>1, OnChainFalls, Weighted DEF Worse, AtMost
<1>5. SocialScore(t) * w.social \in Int /\ TimingScore(t) * w.timing \in Int
  BY <1>1, OtherDimensions
<1>6. AtMost(CorrelationBonus(t, s), CorrelationBonus(t, z))
  BY BonusFalls
<1>7. AtMost(x(s), x(z))
  <2> DEFINE a == SafetyScore(t, s) * w.safety
             b == SafetyScore(t, z) * w.safety
             c == EntityScore(t, s) * w.entity
             d == EntityScore(t, z) * w.entity
             e == OnChainScore(t, s) * w.onchain
             f == OnChainScore(t, z) * w.onchain
             g == SocialScore(t) * w.social
             h == TimingScore(t) * w.timing
             i == CorrelationBonus(t, s)
             j == CorrelationBonus(t, z)
  <2>1. x(s) = a + c + g + e + h + 100 * Milli * i /\ x(z) = b + d + g + f + h + 100 * Milli * j
    OBVIOUS
  <2>2. AtMost(a, b) /\ AtMost(c, d) /\ AtMost(e, f) /\ AtMost(i, j) /\ g \in Int /\ h \in Int
    BY <1>2, <1>3, <1>4, <1>5, <1>6
  <2> HIDE DEF a, b, c, d, e, f, g, h, i, j, x
  <2> QED
    BY <2>1, <2>2 DEF AtMost, Milli
<1>8. \A r : Total(t, r, w) = IF InstantKill(t, r) THEN 0 ELSE ClampTo(10000 * Milli, x(r))
  BY DEF Total
<1> HIDE DEF x
<1>9. /\ \A i \in Int : ClampTo(10000 * Milli, i) \in 0 .. 10000 * Milli
      /\ \A i, j \in Int : i <= j => ClampTo(10000 * Milli, i) <= ClampTo(10000 * Milli, j)
  BY WholeTotal
<1>10. InstantKill(t, s) => InstantKill(t, z)
  BY KillStays DEF Worse
<1>11. 10000 * Milli \in Int
  BY DEF Milli
<1> QED
  BY <1>7, <1>8, <1>9, <1>10, <1>11 DEF AtMost

(* What is not bought is not bought when more is known against it.           *)
LEMMA NotBought ==
    ASSUME NEW t \in Tokens, NEW s, NEW z, Worse(s, z), NEW w \in Weights, IsBought(t, z, w)
    PROVE  IsBought(t, s, w)
<1>1. ~InstantKill(t, z) /\ ~InstantKill(t, s)
  <2>1. ~InstantKill(t, z)
    BY DEF IsBought, Recommendation
  <2> QED
    BY <2>1, KillStays DEF Worse
<1> DEFINE x == Total(t, s, w)
           y == Total(t, z, w)
<1>2. AtMost(x, y)
  BY TotalFalls
<1>3. /\ Recommendation(t, z, w) = IF y >= 100 * Milli * StrongBuyScore THEN "STRONG_BUY"
                                   ELSE IF y >= 100 * Milli * MinTotalScore THEN "BUY"
                                   ELSE IF y >= 100 * Milli * 45 THEN "WAIT" ELSE "SKIP"
      /\ Recommendation(t, s, w) = IF x >= 100 * Milli * StrongBuyScore THEN "STRONG_BUY"
                                   ELSE IF x >= 100 * Milli * MinTotalScore THEN "BUY"
                                   ELSE IF x >= 100 * Milli * 45 THEN "WAIT" ELSE "SKIP"
  BY <1>1 DEF Recommendation
<1> HIDE DEF x, y
<1>4. StrongBuyScore \in Int /\ MinTotalScore \in Int
  BY ScoringAssumption
<1>5. Recommendation(t, s, w) \in {"BUY", "STRONG_BUY"}
  <2>1. Recommendation(t, z, w) \in {"BUY", "STRONG_BUY"}
    BY DEF IsBought
  <2> QED
    BY <1>2, <1>3, <1>4, <2>1 DEF AtMost, Milli
<1>6. ~BuyMovesPrice(t, s)
  <2>1. QuoteReserve(t, z) # 0
    BY <1>1 DEF InstantKill, CanSell
  <2>2. ~BuyMovesPrice(t, z)
    BY DEF IsBought
  <2> QED
    BY <2>1, <2>2, SaleGetsHarder DEF Worse
<1>7. AnalysisScore(t, s) >= MinSafetyScore /\ Verdict(t, s) = "BUY"
  BY VerdictStays DEF IsBought, Worse
<1>8. IsClean(t, s)
  <2>1. QuoteReserve(t, z) >= MinPoolSOL => QuoteReserve(t, s) >= MinPoolSOL
    BY SaleGetsHarder, ScoringAssumption DEF Worse
  <2>2. \A bad : z \cap bad = {} => s \cap bad = {}
    BY DEF Worse
  <2> QED
    BY <2>1, <2>2 DEF IsBought, IsClean
<1> QED
  BY <1>5, <1>6, <1>7, <1>8 DEF IsBought

\* What the evidence and the weights are drawn from.
ScoringInv == token \in Tokens /\ weights \in Weights

(* No sign against a token, whichever and after whatever others, makes the    *)
(* hunter think better of it, for any tokens, thresholds and weights         *)
(* (analyzer.go, sellsim.go, scoring.go and stage 5 of the pipeline).        *)
THEOREM NoSignHelps == ScoringSpec => RugSignsNeverHelp
<1>1. ScoringInit => ScoringInv
  BY ScoringAssumption DEF ScoringInit, ScoringInv
<1>2. ScoringInv /\ [ScoringNext]_scoringVars => ScoringInv'
  BY DEF ScoringInv, ScoringNext, RugSignAppears, SetWeights, scoringVars
<1> DEFINE Step ==
        \A r \in signs' \ signs :
            \/ r = "serial_launches" /\ "rotation" \in signs
            \/ /\ Total(token, signs', weights) <= Total(token, signs, weights)
               /\ InstantKill(token, signs) => InstantKill(token, signs')
               /\ IsBought(token, signs', weights) => IsBought(token, signs, weights)
<1>3. ScoringInv /\ [ScoringNext]_scoringVars => [Step]_scoringVars
  <2> SUFFICES ASSUME ScoringInv, ScoringNext, NEW r \in signs' \ signs,
                      ~(r = "serial_launches" /\ "rotation" \in signs)
               PROVE  /\ Total(token, signs', weights) <= Total(token, signs, weights)
                      /\ InstantKill(token, signs) => InstantKill(token, signs')
                      /\ IsBought(token, signs', weights) => IsBought(token, signs, weights)
    OBVIOUS
  <2>1. signs' = signs \cup {r}
    BY DEF ScoringNext, RugSignAppears, SetWeights
  <2>2. Worse(signs, signs')
    BY <2>1 DEF Worse
  <2>3. token \in Tokens /\ weights \in Weights /\ signs \subseteq signs'
    BY <2>1 DEF ScoringInv
  <2> QED
    BY <2>2, <2>3, TotalFalls, KillStays, NotBought DEF AtMost
<1> QED
  BY <1>1, <1>2, <1>3, PTL DEF ScoringSpec, RugSignsNeverHelp
=============================================================================
