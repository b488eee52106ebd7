-------------------------------- MODULE Graph --------------------------------
(***************************************************************************)
(* The entity graph of wallets: internal/graph/engine.go, and its snapshots, *)
(* persistence.go.                                                          *)
(*                                                                         *)
(* An operation holds the engine's lock, but the propagation that MarkRug    *)
(* starts is a goroutine of its own, and SaveSnapshot gives the maps to its  *)
(* encoder and lets go of the lock before they are read: the file is put     *)
(* together from nodes and edges read at different moments, one entry of a   *)
(* map at a time (the fields of one node count as read together).  When the  *)
(* graph is full, ensureNode adds nothing and the operation that called it   *)
(* dereferences nil, which ends the process.                                *)
(*                                                                         *)
(* Exchanges are left out: no edge touches them and no label reaches them.   *)
(* So are amounts, weights, wash traders, and CLEAN, which nothing assigns.  *)
(* Transfers of dust and to popular wallets are no step.  Edges of all types  *)
(* count as funding; where the code finds less, it marks no cluster.         *)
(***************************************************************************)
EXTENDS Integers, FiniteSets, FiniteSetsExt

CONSTANTS
    Wallets,
    MaxNodes, MaxEdgesPerNode, LabelPropDepth,
    SybilClusterMin,
    FrequentDeploys, \* more than that many raise the risk: 5
    MaxCalls,       \* bound: operations that change the graph
    MaxSnapshots    \* bound: calls of SaveSnapshot

ASSUME GraphAssumption ==
    /\ IsFiniteSet(Wallets)
    /\ {MaxNodes, MaxEdgesPerNode, LabelPropDepth, SybilClusterMin, FrequentDeploys,
        MaxCalls, MaxSnapshots} \subseteq Nat
    /\ LabelPropDepth >= 1     \* DefaultConfig, which nothing overrides, has 2

VARIABLES
    nodes,      \* the wallets in the graph
    labels, rugs, txCount, deploys, cluster,   \* of each node; ClusterID, 0 for none
    old,        \* the nodes whose FirstSeen is before the eviction cutoff
    adjOut,     \* per sender and receiver, the edges
    adjIn,      \* per receiver and sender
    nextCluster,
    pending,    \* per wallet: the goroutines of propagateLabels that have not run
    saving,     \* what the encoder of SaveSnapshot reads: "nothing", "nodes", "adjOut"
                \* or "adjIn"
    unread,     \* the entries of it that were there all along and are not read yet
    draft,      \* what it has written so far
    file,       \* {} or the graph in the snapshot file
    up,         \* the process runs
    calls, snapshots,
    reports,    \* per wallet: the calls of MarkRug, and
    paid        \* the pairs between which a transfer was recorded, in all the
                \* lives of the process (history: no guard reads them)
graph == <<nodes, labels, rugs, txCount, deploys, cluster, old, adjOut, adjIn, nextCluster>>
encoder == <<saving, unread, draft, snapshots>>
history == <<reports, paid>>
gvars == <<graph, pending, encoder, file, up, calls, history>>

Zero == [w \in Wallets |-> 0]
NoEdges == [w \in Wallets |-> Zero]

EmptyGraph ==
    [nodes |-> {}, old |-> {}, nextCluster |-> 0, labels |-> [w \in Wallets |-> {}],
     rugs |-> Zero, txCount |-> Zero, deploys |-> Zero, cluster |-> Zero,
     adjOut |-> NoEdges, adjIn |-> NoEdges]

GInit ==
    /\ nodes = {} /\ old = {} /\ nextCluster = 0
    /\ labels = [w \in Wallets |-> {}]
    /\ rugs = Zero /\ txCount = Zero /\ deploys = Zero /\ cluster = Zero
    /\ adjOut = NoEdges /\ adjIn = NoEdges
    /\ pending = Zero /\ saving = "nothing" /\ unread = {} /\ draft = EmptyGraph
    /\ file = {} /\ up = TRUE /\ calls = 0 /\ snapshots = 0
    /\ reports = Zero /\ paid = {}

OutDegree(w) == SumFunctionOnSet(adjOut[w], Wallets)

-----------------------------------------------------------------------------
(* Ingestion                                                               *)

\* ensureNode for each wallet of W; whoever is missing then is dereferenced.
HasRoomFor(W) == W \subseteq nodes \/ Cardinality(nodes \cup W) <= MaxNodes

Changes ==
    /\ calls < MaxCalls /\ calls' = calls + 1
    /\ UNCHANGED <<file, up>>

Crash ==
    /\ up' = FALSE /\ UNCHANGED snapshots
    /\ saving' = "nothing" /\ unread' = {} /\ draft' = EmptyGraph
    /\ pending' = Zero
    /\ UNCHANGED <<graph, file, calls, history>>
AtCapacity(w) == up /\ ~HasRoomFor({w}) /\ Crash

\* Every transfer counts; the edge is kept up to the limit of the sender.
AddTransfer(from, to) ==
    /\ up /\ HasRoomFor({from, to})
    /\ nodes' = nodes \cup {from, to}
    /\ txCount' = [txCount EXCEPT ![from] = @ + 1, ![to] = @ + 1]
    /\ \/ /\ OutDegree(from) < MaxEdgesPerNode
          /\ adjOut' = [adjOut EXCEPT ![from][to] = @ + 1]
          /\ adjIn' = [adjIn EXCEPT ![to][from] = @ + 1]
          /\ paid' = paid \cup {<<from, to>>}
       \/ OutDegree(from) >= MaxEdgesPerNode /\ UNCHANGED <<adjOut, adjIn, paid>>
    /\ Changes
    /\ UNCHANGED <<labels, rugs, deploys, cluster, old, nextCluster, pending, encoder, reports>>

AddDeploy(w) ==
    /\ up /\ HasRoomFor({w})
    /\ nodes' = nodes \cup {w}
    /\ deploys' = [deploys EXCEPT ![w] = @ + 1]
    /\ Changes
    /\ UNCHANGED <<labels, rugs, txCount, cluster, old, adjOut, adjIn, nextCluster, pending,
                   encoder, history>>

\* Mutant: the first rug is enough.
SerialFromFirst(n) == n >= 1
Serial(n) == n >= 2

MarkRug(w) ==
    /\ up /\ HasRoomFor({w})
    /\ nodes' = nodes \cup {w}
    /\ rugs' = [rugs EXCEPT ![w] = @ + 1]
    /\ reports' = [reports EXCEPT ![w] = @ + 1]
    /\ labels' = IF Serial(rugs'[w]) THEN [labels EXCEPT ![w] = @ \cup {"rugger"}] ELSE labels
    /\ pending' = [pending EXCEPT ![w] = @ + 1]
    /\ Changes
    /\ UNCHANGED <<txCount, deploys, cluster, old, adjOut, adjIn, nextCluster, encoder, paid>>

MarkInsider(w) ==
    /\ up /\ HasRoomFor({w})
    /\ nodes' = nodes \cup {w}
    /\ labels' = [labels EXCEPT ![w] = @ \cup {"insider"}]
    /\ Changes
    /\ UNCHANGED <<rugs, txCount, deploys, cluster, old, adjOut, adjIn, nextCluster, pending,
                   encoder, history>>

-----------------------------------------------------------------------------
(* Labels                                                                  *)

To == [w \in Wallets |-> {v \in Wallets : adjOut[w][v] > 0}]
From == [w \in Wallets |-> {v \in Wallets : adjIn[w][v] > 0}]
Both == [w \in Wallets |-> To[w] \cup From[w]]

\* The wallets at most n hops from w: a breadth-first search.
Within(next, w, n) ==
    LET reached[k \in 0 .. n] ==
            IF k = 0 THEN {w} ELSE LET S == reached[k - 1] IN S \cup UNION {next[v] : v \in S}
    IN  reached[n]

\* propagateLabels: along outgoing edges, whatever the label came from.
PropagateLabels(w) ==
    /\ up /\ pending[w] > 0
    /\ pending' = [pending EXCEPT ![w] = @ - 1]
    /\ labels' = [v \in Wallets |->
                    IF v \in nodes \cap Within(To, w, LabelPropDepth)
                       /\ w \in nodes /\ "rugger" \in labels[w]
                    THEN labels[v] \cup {"rugger"} ELSE labels[v]]
    /\ UNCHANGED <<nodes, rugs, txCount, deploys, cluster, old, adjOut, adjIn, nextCluster>>
    /\ UNCHANGED <<encoder, file, up, calls, history>>

\* A funder is counted once for every edge, and half of the wallets, rounded
\* down, is enough.
FundedBy(f, W) == FoldSet(LAMBDA v, n : n + adjIn[v][f], 0, W)
DetectSybilCluster(W) ==
    /\ up /\ Cardinality(W) >= SybilClusterMin
    /\ \E f \in Wallets :
          /\ FundedBy(f, W) > 0 /\ FundedBy(f, W) >= Cardinality(W) \div 2
          /\ labels' = [v \in Wallets |-> IF v \in nodes \cap (W \cup {f})
                                          THEN labels[v] \cup {"sybil"} ELSE labels[v]]
          /\ nextCluster' = nextCluster + 1
          /\ cluster' = [v \in Wallets |-> IF v \in nodes \cap (W \cup {f})
                                           THEN nextCluster' ELSE cluster[v]]
    /\ Changes
    /\ UNCHANGED <<nodes, rugs, txCount, deploys, old, adjOut, adjIn, pending, encoder, history>>

-----------------------------------------------------------------------------
(* Eviction                                                                *)

Ages(w) ==
    /\ up /\ w \in nodes \ old
    /\ old' = old \cup {w}
    /\ UNCHANGED <<nodes, labels, rugs, txCount, deploys, cluster, adjOut, adjIn, nextCluster>>
    /\ UNCHANGED <<pending, encoder, file, up, calls, history>>

Evictable == {w \in old : txCount[w] = 0}

\* What f says of a node, or the list of its edges, once it is deleted.
Without(f, none) == [w \in Wallets |-> IF w \in Evictable THEN none ELSE f[w]]

\* The edges that others have to the node stay.
Evict ==
    /\ up /\ Evictable # {}
    /\ nodes' = nodes \ Evictable /\ old' = old \ Evictable
    /\ labels' = Without(labels, {})
    /\ rugs' = Without(rugs, 0) /\ txCount' = Without(txCount, 0)
    /\ deploys' = Without(deploys, 0) /\ cluster' = Without(cluster, 0)
    /\ adjOut' = Without(adjOut, Zero) /\ adjIn' = Without(adjIn, Zero)
    /\ unread' = unread \ Evictable
    /\ UNCHANGED <<nextCluster, pending, saving, draft, snapshots, file, up, calls, history>>

-----------------------------------------------------------------------------
(* Snapshots                                                               *)

\* Under the read lock only the references and the counter are copied.
SaveSnapshot ==
    /\ up /\ saving = "nothing"
    /\ snapshots < MaxSnapshots /\ snapshots' = snapshots + 1
    /\ saving' = "nodes" /\ unread' = nodes
    /\ draft' = [EmptyGraph EXCEPT !.nextCluster = nextCluster]
    /\ UNCHANGED <<graph, pending, file, up, calls, history>>

\* The encoder iterates over a map that others write: an entry that is added
\* meanwhile may be met or not, one that is deleted before its turn is not.
ReadNode(w) ==
    /\ saving = "nodes" /\ w \in nodes \ draft.nodes
    /\ draft' = [draft EXCEPT
            !.nodes = @ \cup {w}, !.old = @ \cup (old \cap {w}),
            !.labels[w] = labels[w], !.rugs[w] = rugs[w], !.txCount[w] = txCount[w],
            !.deploys[w] = deploys[w], !.cluster[w] = cluster[w]]
ReadAdjOut(w) ==
    /\ saving = "adjOut" /\ adjOut[w] # Zero /\ draft.adjOut[w] = Zero
    /\ draft' = [draft EXCEPT !.adjOut[w] = adjOut[w]]
ReadAdjIn(w) ==
    /\ saving = "adjIn" /\ adjIn[w] # Zero /\ draft.adjIn[w] = Zero
    /\ draft' = [draft EXCEPT !.adjIn[w] = adjIn[w]]
ReadEntry(w) ==
    /\ up /\ (ReadNode(w) \/ ReadAdjOut(w) \/ ReadAdjIn(w))
    /\ unread' = unread \ {w}
    /\ UNCHANGED <<graph, pending, saving, snapshots, file, up, calls, history>>

\* From one map to the next.
NextMap ==
    /\ up /\ unread = {}
    /\ \/ /\ saving = "nodes" /\ saving' = "adjOut"
          /\ unread' = {w \in Wallets : adjOut[w] # Zero}
       \/ /\ saving = "adjOut" /\ saving' = "adjIn"
          /\ unread' = {w \in Wallets : adjIn[w] # Zero}
    /\ UNCHANGED <<graph, pending, draft, snapshots, file, up, calls, history>>

\* The new file is renamed into place, or an error leaves the old one.
SnapshotSaved ==
    /\ up /\ saving = "adjIn" /\ unread = {}
    /\ saving' = "nothing" /\ draft' = EmptyGraph
    /\ file' \in {file, {draft}}
    /\ UNCHANGED <<graph, pending, unread, snapshots, up, calls, history>>

\* The process ends, propagations and the encoder with it, for any reason: also
\* when the Go runtime notices that a map is written while the encoder reads it.
Dies == up /\ Crash
LoadSnapshot ==
    /\ ~up
    /\ up' = TRUE
    /\ \E g \in IF file = {} THEN {EmptyGraph} ELSE file :
          /\ nodes' = g.nodes /\ old' = g.old /\ labels' = g.labels
          /\ rugs' = g.rugs /\ txCount' = g.txCount /\ deploys' = g.deploys
          /\ cluster' = g.cluster /\ nextCluster' = g.nextCluster
          /\ adjOut' = g.adjOut /\ adjIn' = g.adjIn
    /\ UNCHANGED <<pending, encoder, file, calls, history>>

GNext ==
    \/ \E v, w \in Wallets : AddTransfer(v, w)
    \/ \E w \in Wallets : \/ AddDeploy(w) \/ MarkRug(w) \/ MarkInsider(w)
                          \/ PropagateLabels(w) \/ Ages(w) \/ AtCapacity(w) \/ ReadEntry(w)
    \/ \E W \in SUBSET Wallets : DetectSybilCluster(W)
    \/ Evict \/ SaveSnapshot \/ NextMap \/ SnapshotSaved \/ Dies \/ LoadSnapshot

GSpec == GInit /\ [][GNext]_gvars

-----------------------------------------------------------------------------
(* QueryDeployer                                                           *)

\* Mutant: the search follows outgoing edges only.
AroundOutgoing(w, n) == Within(To, w, n) \ {w}
Around(w, n) == Within(Both, w, n) \ {w}

\* HopsToRugger and HopsToInsider, -1 for none.
HopsTo(label, w) ==
    LET near == {n \in 1 .. LabelPropDepth :
                    \E v \in nodes \cap Around(w, n) : label \in labels[v]}
    IN  IF near = {} THEN -1 ELSE Min(near)

ClusterSize(w) ==
    IF cluster[w] = 0 THEN 1 ELSE Cardinality({v \in nodes : cluster[v] = cluster[w]})

Weight(cond, points) == IF cond THEN points ELSE 0

\* calculateRiskScore.  The seed funder is any of those that adjOut to w.
RiskScore(w, funder) ==
    LET score == 50
            + Weight("sybil" \in labels[w], 20) - Weight("insider" \in labels[w], 20)
            + Weight(HopsTo("rugger", w) = 1, 40) + Weight(HopsTo("rugger", w) = 2, 20)
            - Weight(HopsTo("insider", w) = 1, 15) - Weight(HopsTo("insider", w) = 2, 8)
            + Weight(ClusterSize(w) > SybilClusterMin, 15)
            + Weight(\E f \in funder : "rugger" \in labels[f], 30)
            + Weight(deploys[w] > FrequentDeploys, 15)
    IN  IF "rugger" \in labels[w] THEN 100 ELSE Min({Max({score, 0}), 100})

-----------------------------------------------------------------------------
(* Properties                                                              *)

\* Who was ever reported twice, and where money ever went from.
Culprits == {w \in Wallets : reports[w] >= 2}
PaidBy == [w \in Wallets |-> {v \in Wallets : <<w, v>> \in paid}]

(* Who is called a serial rugger was reported twice, or money went to it, over *)
(* any number of hops, from one that was (engine.go MarkRug and              *)
(* propagateLabels), however often nodes were evicted and the process died,    *)
(* and although the snapshot it came back with was put together from different *)
(* moments.  What the graph itself still knows may not show it: in such a file *)
(* a wallet can have the label and its culprit one rug, or no transfer.       *)
LabelsTraced ==
    \A w \in nodes : "rugger" \in labels[w] =>
        \E c \in Culprits : w \in Within(PaidBy, c, Cardinality(Wallets))

(* A wallet that dealt with a serial rugger, in either direction, scores      *)
(* above neutral even before the label is propagated, and whatever insiders   *)
(* it knows (engine.go QueryDeployer, calculateRiskScore).                   *)
NeighboursAreRisky ==
    \A w \in nodes, v \in nodes :
        /\ v \in Both[w] /\ "rugger" \in labels[v]
        => \A funder \in {{}} \cup {{f} : f \in From[w]} : RiskScore(w, funder) > 50
=============================================================================
