----------------------------- MODULE CsrTopology -----------------------------
(***************************************************************************)
(* What a CSR snapshot is made of (gql_csr.cpp): BuildTableSnapshot turns  *)
(* the rows of a graph's vertex and edge tables into arrays indexed by     *)
(* vertex ordinals, ScanCsrDelta turns the rows inserted since into a      *)
(* delta, and the lookups read the two together.                           *)
(*                                                                         *)
(* Arrays count from 0, as in the code, and are functions here.  A graph   *)
(* is a record of table rows in scan order:                                *)
(*   vertices: [id, row, labels]   edges: [id, source, target, label, weight] *)
(* of which the first old.vertices and old.edges were there when the       *)
(* snapshot was built.  A lookup returns {} or the set of its one answer.  *)
(***************************************************************************)
EXTENDS Integers, Sequences, FiniteSets, SequencesExt

CONSTANTS
    FanoutPairs,  \* LABEL_FANOUT_PAIRS
    FanoutLabels  \* LABEL_FANOUT_LABELS_PER_VERTEX

ASSUME TopologyAssumption == FanoutPairs \in Nat /\ FanoutLabels \in Nat

VertexRow == [id : Nat, row : Nat, labels : Seq(STRING)]
EdgeRow == [id : Nat, source : Nat, target : Nat, label : STRING, weight : Int]

(* Tables a build does not refuse: it throws where a key is NULL or repeated, an endpoint is
   no vertex, or an edge has no label. *)
IsTables(vertices, edges) ==
    /\ vertices \in Seq(VertexRow)
    /\ edges \in Seq(EdgeRow)
    /\ \A i, j \in DOMAIN vertices :
           vertices[i].id = vertices[j].id \/ vertices[i].row = vertices[j].row => i = j
    /\ \A i, j \in DOMAIN edges : edges[i].id = edges[j].id => i = j
    /\ \A k \in DOMAIN edges :
           {edges[k].source, edges[k].target} \subseteq {vertices[i].id : i \in DOMAIN vertices}

(* A snapshot was built from the tables as they were. *)
IsGraph(graph) ==
    /\ IsTables(graph.vertices, graph.edges)
    /\ graph.old \in [vertices : 0..Len(graph.vertices), edges : 0..Len(graph.edges)]
    /\ IsTables(SubSeq(graph.vertices, 1, graph.old.vertices), SubSeq(graph.edges, 1, graph.old.edges))

(* The state of a loop after n rounds: a round that finds it over leaves it. *)
Repeat(round(_), start, n) ==
    LET after[k \in 0..n] == IF k = 0 THEN start ELSE round(after[k - 1])
    IN  after[n]

(* Elements from up to but not including to of an array, as a sequence. *)
Slice(array, from, to) == [i \in 1..(to - from) |-> array[from + i - 1]]

(* The dictionary: a label's id is its position, ids start from 1. *)
CsrLabelId(dict, label) == IF Contains(dict, label) THEN dict ELSE Append(dict, label)

FindLabel(dict, label) == {id \in DOMAIN dict : dict[id] = label}

AppendNew(ids, id) == IF Contains(ids, id) THEN ids ELSE Append(ids, id)

AppendFound(dict, ids, label) ==
    IF FindLabel(dict, label) = {} THEN ids
    ELSE AppendNew(ids, CHOOSE id \in FindLabel(dict, label) : TRUE)

(* The labels of a vertex row as ids, each once. *)
LabelIdsOf(dict, labels) ==
    FoldLeft(LAMBDA ids, label : AppendFound(dict, ids, label), <<>>, labels)

-----------------------------------------------------------------------------
(* Compressed rows: count the entries of each key one place up, add the counts
   up, then place each entry at its key's cursor. *)

(* Mutant of CountedAt: the count stays at the key's own place. *)
CountedAtKey(key) == key

CountedAt(key) == key + 1

FinalizeOffsets(counts) ==
    LET sum[i \in DOMAIN counts] == IF i = 0 THEN counts[0] ELSE sum[i - 1] + counts[i]
    IN  sum

Offsets(size, keys) ==
    FinalizeOffsets([i \in 0..size |-> Cardinality({k \in DOMAIN keys : CountedAt(keys[k]) = i})])

Scatter(offsets, keys, values) ==
    FoldLeftDomain(
        LAMBDA acc, k : [cursor |-> [acc.cursor EXCEPT ![keys[k]] = @ + 1],
                         array |-> [acc.array EXCEPT ![acc.cursor[keys[k]]] = values[k]]],
        [cursor |-> offsets, array |-> [i \in 0..(Len(keys) - 1) |-> 0]],
        keys).array

(* GqlCsrEdgeLabels: while all edges have one label it alone is kept.  The edge
   with the second label materializes the array, and it and those after it are
   placed in it. *)
ScatterLabels(offsets, keys, labels) ==
    LET uniform(k) == \A j \in 1..k : labels[j] = labels[1]
    IN  FoldLeftDomain(
            LAMBDA acc, k :
                [cursor |-> [acc.cursor EXCEPT ![keys[k]] = @ + 1],
                 array |-> IF uniform(k) THEN acc.array
                           ELSE [acc.array EXCEPT ![acc.cursor[keys[k]]] = labels[k]]],
            [cursor |-> offsets, array |-> [i \in 0..(Len(keys) - 1) |-> labels[1]]],
            keys).array

(* One direction: the edges of the rows by the ordinal of the vertex they leave. *)
Adjacency(size, froms, tos, edges, labels) ==
    LET offsets == Offsets(size, froms)
    IN  [offsets |-> offsets,
         edges |-> Scatter(offsets, froms,
                           [k \in DOMAIN edges |-> [neighbor |-> tos[k], id |-> edges[k].id,
                                                    weight |-> edges[k].weight]]),
         labels |-> ScatterLabels(offsets, froms, labels)]

-----------------------------------------------------------------------------
(* Vertex identity. *)

IsDense(ids) == \A ordinal \in DOMAIN ids : ids[ordinal] = ordinal + 1

(* GqlTryGetCsrOrdinal on explicit ids: every other step interpolates. *)
Middle(ids, id, low, high, interpolate) ==
    IF interpolate /\ high - low > 2
    THEN IF id <= ids[low] THEN low
         ELSE IF id >= ids[high - 1] THEN high - 1
         ELSE low + ((id - ids[low]) * (high - low - 1)) \div (ids[high - 1] - ids[low])
    ELSE low + (high - low) \div 2

(* Mutant of Above: the search skips the id after a smaller one. *)
AboveTwo(middle) == middle + 2

Above(middle) == middle + 1

Narrowed(ids, id, range) ==
    LET middle == Middle(ids, id, range.low, range.high, range.interpolate)
    IN  IF range.low >= range.high THEN range
        ELSE IF ids[middle] < id
        THEN [low |-> Above(middle), high |-> range.high, interpolate |-> ~range.interpolate]
        ELSE [low |-> range.low, high |-> middle, interpolate |-> ~range.interpolate]

(* A round narrows the range by one id or more. *)
LowerBound(ids, id, size) ==
    Repeat(LAMBDA range : Narrowed(ids, id, range),
           [low |-> 0, high |-> size, interpolate |-> TRUE], size).low

BaseOrdinal(snapshot, id) ==
    IF snapshot.dense
    THEN IF id = 0 \/ id > snapshot.size THEN {} ELSE {id - 1}
    ELSE LET low == LowerBound(snapshot.ids, id, snapshot.size)
         IN  IF low \in DOMAIN snapshot.ids /\ snapshot.ids[low] = id THEN {low} ELSE {}

(* GqlTryGetCsrOrdinalByRowId: a row id with no vertex has ordinal 0 in the array. *)
OrdinalByRow(rows) ==
    [row \in 0..Max({rows[o] : o \in DOMAIN rows} \cup {-1}) |->
        IF \E o \in DOMAIN rows : rows[o] = row THEN CHOOSE o \in DOMAIN rows : rows[o] = row ELSE 0]

OrdinalOfRow(snapshot, row) ==
    IF snapshot.idsMatchRows THEN BaseOrdinal(snapshot, row + 1)
    ELSE {snapshot.ordinalByRow[r] : r \in {row} \cap DOMAIN snapshot.ordinalByRow}
             \cap {o \in DOMAIN snapshot.rows : snapshot.rows[o] = row}

-----------------------------------------------------------------------------
(* Statistics: how many edges of a label the vertices of a label have, for at
   most FanoutPairs pairs and vertices of at most FanoutLabels labels. *)

NoPairs == [pair \in {} |-> 0]
NoCounts == [edges |-> [out |-> 0, in |-> 0], vertices |-> [out |-> 0, in |-> 0]]

(* Mutant of DiscardFanout: the pairs counted so far are kept. *)
KeepFanout(stats) == stats

DiscardFanout(stats) == [has |-> FALSE, pairs |-> NoPairs]

CountPair(stats, pair, degree, way) ==
    IF ~stats.has THEN stats
    ELSE IF pair \notin DOMAIN stats.pairs /\ Cardinality(DOMAIN stats.pairs) >= FanoutPairs
    THEN DiscardFanout(stats)
    ELSE LET counts == IF pair \in DOMAIN stats.pairs THEN stats.pairs[pair] ELSE NoCounts
             more == [counts EXCEPT !.edges[way] = @ + degree, !.vertices[way] = @ + 1]
         IN  [stats EXCEPT !.pairs = [p \in DOMAIN @ \cup {pair} |-> IF p = pair THEN more ELSE @[p]]]

(* collect_degree_stats for one vertex and the labels of its edges, in the order
   it meets them. *)
CountVertex(stats, vertexLabels, edgeLabels, way) ==
    LET touched == FoldLeft(AppendNew, <<>>, edgeLabels)
        degree(label) == Cardinality({k \in DOMAIN edgeLabels : edgeLabels[k] = label})
    IN  FoldLeft(
            LAMBDA acc, label :
                IF acc.has /\ Len(vertexLabels) > FanoutLabels THEN DiscardFanout(acc)
                ELSE FoldLeft(LAMBDA inner, vertexLabel :
                                  CountPair(inner, <<vertexLabel, label>>, degree(label), way),
                              acc, vertexLabels),
            stats, touched)

CollectFanout(stats, adjacency, vertexLabels, way) ==
    FoldLeft(LAMBDA acc, ordinal :
                 CountVertex(acc, vertexLabels[ordinal],
                             Slice(adjacency.labels, adjacency.offsets[ordinal],
                                   adjacency.offsets[ordinal + 1]), way),
             stats, [i \in 1..Cardinality(DOMAIN vertexLabels) |-> i - 1])

-----------------------------------------------------------------------------
(* ORDER BY vertex_id: before each vertex come those of smaller ids. *)
OrderedById(vertices) ==
    [k \in DOMAIN vertices |->
        CHOOSE v \in ToSet(vertices) : Cardinality({w \in ToSet(vertices) : w.id < v.id}) = k - 1]

(* The dictionary holds the labels of the vertices first, then those of the edges. *)
AddLabels(dict, labels) == FoldLeft(CsrLabelId, dict, labels)

VertexDict(vertices) == FoldLeft(LAMBDA dict, v : AddLabels(dict, v.labels), <<>>, vertices)

EdgeDict(dict, edges) == FoldLeft(LAMBDA d, e : CsrLabelId(d, e.label), dict, edges)

(* An entry of the postings for each label of each vertex. *)
PostingEntries(vertexLabels, size) ==
    FlattenSeq([o \in 1..size |-> [k \in DOMAIN vertexLabels[o - 1] |->
                                      [label |-> vertexLabels[o - 1][k], vertex |-> o - 1]]])

(* BuildTableSnapshot, with every capability of a full CSR. *)
BuildTableSnapshot(vertices, edges) ==
    LET sorted == OrderedById(vertices)
        size == Len(sorted)
        ids == [o \in 0..(size - 1) |-> sorted[o + 1].id]
        rows == [o \in 0..(size - 1) |-> sorted[o + 1].row]
        vertexDict == VertexDict(sorted)
        dict == EdgeDict(vertexDict, edges)
        vertexLabels == [o \in 0..(size - 1) |-> LabelIdsOf(vertexDict, sorted[o + 1].labels)]
        entries == PostingEntries(vertexLabels, size)
        postingKeys == [k \in DOMAIN entries |-> entries[k].label]
        postingOffsets == Offsets(Len(vertexDict) + 1, postingKeys)
        ordinal(id) == CHOOSE o \in DOMAIN ids : ids[o] = id
        sources == [k \in DOMAIN edges |-> ordinal(edges[k].source)]
        targets == [k \in DOMAIN edges |-> ordinal(edges[k].target)]
        labels == [k \in DOMAIN edges |-> CHOOSE id \in FindLabel(dict, edges[k].label) : TRUE]
        out == Adjacency(size, sources, targets, edges, labels)
        in == Adjacency(size, targets, sources, edges, labels)
    IN  [size |-> size, ids |-> ids, rows |-> rows, dense |-> IsDense(ids),
         idsMatchRows |-> \A o \in DOMAIN ids : ids[o] > 0 /\ rows[o] = ids[o] - 1,
         edgeIdsMatchRows |-> \A k \in DOMAIN edges : edges[k].id = k,
         ordinalByRow |-> OrdinalByRow(rows),
         dict |-> dict, vertexLabels |-> vertexLabels,
         postingOffsets |-> postingOffsets,
         postings |-> Scatter(postingOffsets, postingKeys,
                              [k \in DOMAIN entries |-> entries[k].vertex]),
         out |-> out, in |-> in,
         fanout |-> CollectFanout(CollectFanout([has |-> TRUE, pairs |-> NoPairs],
                                                out, vertexLabels, "out"),
                                  in, vertexLabels, "in")]

(* The range of a label in the postings; an edge's label may have none. *)
PostingRange(snapshot, label) ==
    IF label + 1 \in DOMAIN snapshot.postingOffsets
    THEN Slice(snapshot.postings, snapshot.postingOffsets[label], snapshot.postingOffsets[label + 1])
    ELSE <<>>

(* BuildVertexMask by the postings, and by the labels of each vertex. *)
MaskByPostings(snapshot, label) ==
    UNION {ToSet(PostingRange(snapshot, id)) : id \in FindLabel(snapshot.dict, label)}

MaskByScan(snapshot, label) ==
    {o \in DOMAIN snapshot.ids :
        \E id \in FindLabel(snapshot.dict, label) : Contains(snapshot.vertexLabels[o], id)}

-----------------------------------------------------------------------------
(* The delta of the rows inserted since, or {} where ScanCsrDelta gives up. *)

NoDelta == [ids |-> <<>>, rows |-> <<>>, labels |-> <<>>, byLabel |-> [l \in {} |-> <<>>],
            out |-> [o \in {} |-> <<>>], in |-> [o \in {} |-> <<>>]]

(* operator[] of an unordered_map of vectors, then push_back. *)
PushBack(map, key, element) ==
    [k \in DOMAIN map \cup {key} |-> IF k # key THEN map[k]
                                     ELSE Append(IF key \in DOMAIN map THEN map[key] ELSE <<>>, element)]

At(map, key) == IF key \in DOMAIN map THEN map[key] ELSE <<>>

(* CsrTryGetOrdinal *)
Ordinal(snapshot, delta, id) ==
    IF BaseOrdinal(snapshot, id) # {} THEN BaseOrdinal(snapshot, id)
    ELSE {snapshot.size + k - 1 : k \in {k \in DOMAIN delta.ids : delta.ids[k] = id}}

(* CsrVertexId *)
VertexId(snapshot, delta, ordinal) ==
    IF ordinal < snapshot.size THEN snapshot.ids[ordinal]
    ELSE delta.ids[ordinal - snapshot.size + 1]

(* CsrVertexRowId *)
RowId(snapshot, delta, ordinal) ==
    IF ordinal >= snapshot.size THEN delta.rows[ordinal - snapshot.size + 1]
    ELSE IF snapshot.idsMatchRows THEN snapshot.ids[ordinal] - 1
    ELSE snapshot.rows[ordinal]

(* Under each of its labels, the vertex. *)
PostUnder(byLabel, ids, vertex) ==
    FoldLeft(LAMBDA map, id : PushBack(map, id, vertex), byLabel, ids)

AddDeltaVertex(snapshot, delta, vertex) ==
    LET known == \A label \in ToSet(vertex.labels) :
                     \E id \in FindLabel(snapshot.dict, label) : PostingRange(snapshot, id) # <<>>
        ids == LabelIdsOf(snapshot.dict, vertex.labels)
    IN  IF known /\ Ordinal(snapshot, delta, vertex.id) = {}
        THEN {[delta EXCEPT
                   !.ids = Append(@, vertex.id), !.rows = Append(@, vertex.row), !.labels = Append(@, ids),
                   !.byLabel = PostUnder(@, ids, vertex.id)]}
        ELSE {}

(* An edge label in use by the CSR. *)
DeltaEdgeKnown(snapshot, edge) ==
    \E id \in FindLabel(snapshot.dict, edge.label), k \in DOMAIN snapshot.out.labels :
        snapshot.out.labels[k] = id

(* At both ends, the edge: its label and the ordinal of the other end. *)
WithDeltaEdge(delta, id, source, target, label) ==
    [delta EXCEPT !.out = PushBack(@, source, [neighbor |-> target, id |-> id, label |-> label]),
                  !.in = PushBack(@, target, [neighbor |-> source, id |-> id, label |-> label])]

AddDeltaEdge(snapshot, delta, edge, row) ==
    IF \/ snapshot.edgeIdsMatchRows /\ edge.id # row + 1
       \/ ~DeltaEdgeKnown(snapshot, edge)
    THEN {}
    ELSE {WithDeltaEdge(delta, edge.id, source, target, label) :
              source \in Ordinal(snapshot, delta, edge.source),
              target \in Ordinal(snapshot, delta, edge.target),
              label \in FindLabel(snapshot.dict, edge.label)}

DeltaOfVertices(snapshot, vertices) ==
    FoldLeft(LAMBDA acc, v : UNION {AddDeltaVertex(snapshot, d, v) : d \in acc}, {NoDelta}, vertices)

(* from edges were there already. *)
AddDeltaEdges(snapshot, deltas, edges, from) ==
    FoldLeft(LAMBDA acc, k : UNION {AddDeltaEdge(snapshot, d, edges[k], k - 1) : d \in acc},
             deltas, [i \in 1..(Len(edges) - from) |-> from + i])

ScanCsrDelta(snapshot, graph) ==
    AddDeltaEdges(snapshot,
                  DeltaOfVertices(snapshot, SubSeq(graph.vertices, graph.old.vertices + 1, Len(graph.vertices))),
                  graph.edges, graph.old.edges)

(* What a statement is leased: the snapshot caught up, or one built anew. *)
LeaseOf(graph) ==
    LET old == BuildTableSnapshot(SubSeq(graph.vertices, 1, graph.old.vertices),
                                  SubSeq(graph.edges, 1, graph.old.edges))
        caughtUp == ScanCsrDelta(old, graph)
    IN  IF caughtUp # {} THEN [snapshot |-> old, delta |-> CHOOSE d \in caughtUp : TRUE]
        ELSE [snapshot |-> BuildTableSnapshot(graph.vertices, graph.edges), delta |-> NoDelta]

-----------------------------------------------------------------------------
(* Reading a lease. *)

OrdinalIn(lease, id) == Ordinal(lease.snapshot, lease.delta, id)
VertexIdIn(lease, ordinal) == VertexId(lease.snapshot, lease.delta, ordinal)
RowIdIn(lease, ordinal) == RowId(lease.snapshot, lease.delta, ordinal)

Side(lease, outgoing) == IF outgoing THEN lease.snapshot.out ELSE lease.snapshot.in

DeltaEdges(lease, ordinal, outgoing) ==
    At(IF outgoing THEN lease.delta.out ELSE lease.delta.in, ordinal)

(* The range of a vertex, with the label of each edge; none for one of the delta. *)
BaseEdges(lease, ordinal, outgoing) ==
    IF ordinal >= lease.snapshot.size THEN <<>>
    ELSE LET side == Side(lease, outgoing)
             edge(at) == [neighbor |-> side.edges[at].neighbor, id |-> side.edges[at].id,
                          label |-> side.labels[at], weight |-> side.edges[at].weight]
         IN  [i \in 1..(side.offsets[ordinal + 1] - side.offsets[ordinal]) |->
                 edge(side.offsets[ordinal] + i - 1)]

(* CsrForEachEdge: first the snapshot's edges, then the delta's. *)
EdgesOf(lease, ordinal, outgoing) ==
    BaseEdges(lease, ordinal, outgoing) \o DeltaEdges(lease, ordinal, outgoing)

EdgesOfLabel(lease, ordinal, outgoing, label) ==
    SelectSeq(EdgesOf(lease, ordinal, outgoing), LAMBDA e : e.label = label)

VertexLabelIds(lease, ordinal) ==
    IF ordinal < lease.snapshot.size THEN lease.snapshot.vertexLabels[ordinal]
    ELSE lease.delta.labels[ordinal - lease.snapshot.size + 1]

(* CsrVertexHasLabels *)
CsrVertexHasLabels(lease, ordinal, required) ==
    \A label \in required : Contains(VertexLabelIds(lease, ordinal), label)
=============================================================================
