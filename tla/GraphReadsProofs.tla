-------------------------- MODULE GraphReadsProofs --------------------------
(***************************************************************************)
(* What the readers of a lease return, for every graph and request: the    *)
(* lease describes the graph (CsrTopologyProofs), its lookups, lists and   *)
(* postings are exact, and expansions, scans of a label and fetches return *)
(* the edges, vertices and rows they are asked for, each once.             *)
(***************************************************************************)
EXTENDS GraphReads, CsrTopologyProofs

-----------------------------------------------------------------------------
(* Each action belongs to one kind of reader, and a reader keeps its kind or fails. *)
Kinded(l) == "op" \in DOMAIN l

KeepsKind(l, new) == Kinded(new) /\ (new.op = l.op \/ new.op = "failed")

(* An error ends the call of every operator. *)
LEMMA ErrorKind ==
  ASSUME NEW l, NEW name
  PROVE  KeepsKind(l, Error(name))
BY DEF KeepsKind, Kinded, Error

(* The steps of gql_csr_neighbors go on with the same call, or with its error. *)
LEMMA NeighborsKind ==
  ASSUME Kinded(local), NeighborsNext
  PROVE  local.op = "neighbors" /\ KeepsKind(local, local')
BY DEF NeighborsNext, KeepsKind, Kinded

(* So do the steps of the fetches and of gql_csr_vertices. *)
LEMMA ElementsKind ==
  ASSUME Kinded(local), ElementsNext
  PROVE  local.op \in {"labelled", "fetch"} /\ KeepsKind(local, local')
<1>1. ASSUME LabelledBegin PROVE local.op = "labelled" /\ KeepsKind(local, local')
  BY <1>1 DEF LabelledBegin, Lists, KeepsKind, Kinded
<1>2. ASSUME LabelledChunk PROVE local.op = "labelled" /\ KeepsKind(local, local')
  BY <1>2 DEF LabelledChunk, Lists, KeepsKind, Kinded
<1>3. ASSUME Fetch PROVE local.op = "fetch" /\ KeepsKind(local, local')
  BY <1>3 DEF Fetch, Fetches, KeepsKind, Kinded
<1> QED
  BY <1>1, <1>2, <1>3 DEF ElementsNext

(* So do the steps of gql_csr_path_expand. *)
LEMMA TrailsKind ==
  ASSUME Kinded(local), TrailsNext
  PROVE  local.op = "trails" /\ KeepsKind(local, local')
<1>1. ASSUME TrailsInput PROVE local.op = "trails" /\ KeepsKind(local, local')
  BY <1>1 DEF TrailsInput, Walking, KeepsKind, Kinded
<1>2. ASSUME TrailsZero PROVE local.op = "trails" /\ KeepsKind(local, local')
  BY <1>2 DEF TrailsZero, Walking, KeepsKind, Kinded
<1>3. ASSUME TrailsPop PROVE local.op = "trails" /\ KeepsKind(local, local')
  BY <1>3 DEF TrailsPop, ForgetEdge, Searching, Walking, KeepsKind, Kinded
<1>4. ASSUME TrailsEdge PROVE local.op = "trails" /\ KeepsKind(local, local')
  <2> DEFINE edge == EdgesOf(lease, Top.vertex, local.out)[Top.cursor + 1]
             moved == [local EXCEPT !.frames[Len(local.frames)].cursor = @ + 1]
             looked == Indexed(moved)
             longer == [looked EXCEPT
                          !.members = IF looked.indexed THEN @ \cup {edge.id} ELSE @,
                          !.trail = Append(@, edge.id),
                          !.end = VertexIdIn(lease, edge.neighbor)]
             deeper == [longer EXCEPT
                          !.frames = Append(@, IF Descends(longer) THEN Frame(longer, edge.neighbor)
                                               ELSE LeafFrame(edge.neighbor))]
             returned == [deeper EXCEPT !.chunk = Append(@, PathRow(deeper))]
  <2>1. local.op = "trails" /\ local' \in {moved, looked, deeper, returned}
    BY <1>4 DEF TrailsEdge, Searching, Walking
  <2>2. KeepsKind(local, moved)
    BY DEF KeepsKind, Kinded
  <2>3. KeepsKind(local, looked)
    <3> HIDE DEF moved
    <3> QED
      BY <2>2 DEF Indexed, KeepsKind, Kinded
  <2>4. KeepsKind(local, deeper)
    <3>1. KeepsKind(local, longer)
      <4> HIDE DEF looked
      <4> QED
        BY <2>3 DEF KeepsKind, Kinded
    <3> HIDE DEF longer
    <3> QED
      BY <3>1 DEF KeepsKind, Kinded
  <2>5. KeepsKind(local, returned)
    <3> HIDE DEF deeper
    <3> QED
      BY <2>4 DEF KeepsKind, Kinded
  <2> HIDE DEF moved, looked, deeper, returned
  <2> QED
    BY <2>1, <2>2, <2>3, <2>4, <2>5
<1>5. ASSUME TrailsReturn PROVE local.op = "trails" /\ KeepsKind(local, local')
  BY <1>5 DEF TrailsReturn, Walking, ResetInput, FreshInput, KeepsKind, Kinded
<1> QED
  BY <1>1, <1>2, <1>3, <1>4, <1>5 DEF TrailsNext

(* So do the steps of the shortest path operators. *)
LEMMA ShortestKind ==
  ASSUME Kinded(local), ShortestNext
  PROVE  local.op = "shortest" /\ KeepsKind(local, local')
<1>1. ASSUME ShortestBegin PROVE local.op = "shortest" /\ KeepsKind(local, local')
  BY <1>1 DEF ShortestBegin, Answers, Seeking, KeepsKind, Kinded
<1>2. ASSUME ShortestLevel PROVE local.op = "shortest" /\ KeepsKind(local, local')
  BY <1>2 DEF ShortestLevel, Seeking, KeepsKind, Kinded
<1>3. ASSUME ShortestEnd PROVE local.op = "shortest" /\ KeepsKind(local, local')
  BY <1>3 DEF ShortestEnd, Seeking, KeepsKind, Kinded
<1>4. ASSUME AllShortest PROVE local.op = "shortest" /\ KeepsKind(local, local')
  BY <1>4 DEF AllShortest, Seeking, KeepsKind, Kinded
<1> QED
  BY <1>1, <1>2, <1>3, <1>4 DEF ShortestNext

(* So do the steps of the traversals. *)
LEMMA SearchesKind ==
  ASSUME Kinded(local), TraversalsNext
  PROVE  local.op \in {"bfs", "dfs", "sssp"} /\ KeepsKind(local, local')
<1>1. ASSUME BfsBegin PROVE local.op = "bfs" /\ KeepsKind(local, local')
  BY <1>1, ErrorKind DEF BfsBegin, Searches, KeepsKind, Kinded
<1>2. ASSUME BfsVisit PROVE local.op = "bfs" /\ KeepsKind(local, local')
  BY <1>2 DEF BfsVisit, Searches, KeepsKind, Kinded
<1>3. ASSUME BfsEnd PROVE local.op = "bfs" /\ KeepsKind(local, local')
  BY <1>3 DEF BfsEnd, Searches, KeepsKind, Kinded
<1>4. ASSUME DfsBegin PROVE local.op = "dfs" /\ KeepsKind(local, local')
  BY <1>4, ErrorKind DEF DfsBegin, Descending, KeepsKind, Kinded
<1>5. ASSUME DfsStart PROVE local.op = "dfs" /\ KeepsKind(local, local')
  BY <1>5 DEF DfsStart, Enter, Descending, KeepsKind, Kinded
<1>6. ASSUME DfsMove PROVE local.op = "dfs" /\ KeepsKind(local, local')
  BY <1>6 DEF DfsMove, Enter, Descending, KeepsKind, Kinded
<1>7. ASSUME DfsEnd PROVE local.op = "dfs" /\ KeepsKind(local, local')
  BY <1>7 DEF DfsEnd, Descending, KeepsKind, Kinded
<1>8. ASSUME SsspBegin PROVE local.op = "sssp" /\ KeepsKind(local, local')
  BY <1>8, ErrorKind DEF SsspBegin, Relaxes, KeepsKind, Kinded
<1>9. ASSUME SsspSettle PROVE local.op = "sssp" /\ KeepsKind(local, local')
  BY <1>9, ErrorKind DEF SsspSettle, Relaxes, KeepsKind, Kinded
<1>10. ASSUME SsspEnd PROVE local.op = "sssp" /\ KeepsKind(local, local')
  BY <1>10 DEF SsspEnd, Relaxes, KeepsKind, Kinded
<1> QED
  BY <1>1, <1>2, <1>3, <1>4, <1>5, <1>6, <1>7, <1>8, <1>9, <1>10 DEF TraversalsNext

(* So do the steps of shortest_path_length. *)
LEMMA LengthKind ==
  ASSUME Kinded(local), LengthNext
  PROVE  local.op = "length" /\ KeepsKind(local, local')
<1>1. ASSUME LengthBegin PROVE local.op = "length" /\ KeepsKind(local, local')
  BY <1>1, ErrorKind DEF LengthBegin, Finds, Measures, KeepsKind, Kinded
<1>2. ASSUME LengthLayer PROVE local.op = "length" /\ KeepsKind(local, local')
  BY <1>2 DEF LengthLayer, Finds, Measures, KeepsKind, Kinded
<1>3. ASSUME LengthEnd PROVE local.op = "length" /\ KeepsKind(local, local')
  BY <1>3 DEF LengthEnd, Finds, Measures, KeepsKind, Kinded
<1> QED
  BY <1>1, <1>2, <1>3 DEF LengthNext

(* So do the steps of the components and of the counts. *)
LEMMA ComponentsKind ==
  ASSUME Kinded(local), ComponentsNext
  PROVE  local.op = "components" /\ KeepsKind(local, local')
BY DEF ComponentsNext, KeepsKind, Kinded

(* What holds of every reader: its graph, its kind, and a lease that describes the graph. *)
Described(g, held) == held = NoLease \/ LeaseDescribes(held, g.vertices, g.edges)

Base == IsGraph(graph) /\ Kinded(local) /\ Described(graph, lease)

(* A call begins without a lease. *)
LEMMA BaseInit ==
  ASSUME Init
  PROVE  Base
<1>1. \E kind \in DOMAIN Cases : \E case \in Cases[kind] : graph = case.graph /\ local = case.local
  BY DEF Init
<1>2. IsGraph(graph) /\ Kinded(local)
  BY <1>1, CasesAssumption DEF Kinded
<1> QED
  BY <1>2 DEF Init, Base, Described

(* A step is an acquisition or one of the operator that is called. *)
LEMMA StepKind ==
  ASSUME Kinded(local), Next
  PROVE  /\ KeepsKind(local, local')
         /\ Acquire \/ Step
         /\ local.op = "neighbors" => Acquire \/ NeighborsNext
         /\ local.op \in {"labelled", "fetch"} => Acquire \/ ElementsNext
         /\ local.op = "expand" => Acquire \/ ExpandNext
<1>1. CASE Acquire
  BY <1>1 DEF Acquire, KeepsKind, Kinded
<1>2. CASE NeighborsNext
  BY <1>2, NeighborsKind DEF NeighborsNext
<1>3. CASE ElementsNext
  BY <1>3, ElementsKind DEF ElementsNext, LabelledBegin, LabelledChunk, Fetch
<1>4. CASE ExpandNext
  <2>1. local.op = "expand" /\ Step
    BY <1>4 DEF ExpandNext, ExpandInput, ExpandBegin, ExpandEdge, ExpandReturn, Expanding
  <2>2. KeepsKind(local, local')
    <3>1. ASSUME ExpandInput PROVE KeepsKind(local, local')
      BY <3>1 DEF ExpandInput, KeepsKind, Kinded
    <3>2. ASSUME ExpandBegin PROVE KeepsKind(local, local')
      BY ZenonT(40), <3>2 DEF ExpandBegin, WithRange, WithNeighborLabels, WithLastNeighborLabels, WithEdgeLabel, KeepsKind, Kinded
    <3>3. ASSUME ExpandEdge PROVE KeepsKind(local, local')
      BY <3>3 DEF ExpandEdge, KeepsKind, Kinded
    <3>4. ASSUME ExpandReturn PROVE KeepsKind(local, local')
      BY <3>4 DEF ExpandReturn, KeepsKind, Kinded
    <3> QED
      BY <1>4, <3>1, <3>2, <3>3, <3>4 DEF ExpandNext
  <2> QED
    BY <1>4, <2>1, <2>2
<1>5. CASE TrailsNext
  <2>1. local.op = "trails" /\ KeepsKind(local, local')
    BY <1>5, TrailsKind
  <2>2. Step
    BY <1>5 DEF TrailsNext, TrailsInput, TrailsZero, TrailsPop, TrailsEdge, TrailsReturn
  <2> QED
    BY <2>1, <2>2
<1>6. CASE ShortestNext
  <2>1. local.op = "shortest" /\ KeepsKind(local, local')
    BY <1>6, ShortestKind
  <2>2. Step
    <3>1. ShortestBegin => Step
      BY DEF ShortestBegin
    <3>2. ShortestLevel => Step
      BY DEF ShortestLevel
    <3>3. ShortestEnd => Step
      BY DEF ShortestEnd
    <3>4. AllShortest => Step
      BY DEF AllShortest
    <3> QED
      BY <1>6, <3>1, <3>2, <3>3, <3>4 DEF ShortestNext
  <2> QED
    BY <2>1, <2>2
<1>7. CASE TraversalsNext
  <2>1. local.op \in {"bfs", "dfs", "sssp"} /\ KeepsKind(local, local')
    BY <1>7, SearchesKind
  <2>2. Step
    BY <1>7 DEF TraversalsNext, BfsBegin, BfsVisit, BfsEnd, DfsBegin, DfsStart, DfsMove, DfsEnd,
                SsspBegin, SsspSettle, SsspEnd
  <2> QED
    BY <2>1, <2>2
<1>8. CASE LengthNext
  BY <1>8, LengthKind DEF LengthNext, LengthBegin, LengthLayer, LengthEnd
<1>9. CASE ComponentsNext
  BY <1>9, ComponentsKind DEF ComponentsNext
<1> QED
  BY <1>1, <1>2, <1>3, <1>4, <1>5, <1>6, <1>7, <1>8, <1>9 DEF Next

(* No operator writes the graph or the lease; the lease acquired describes the graph. *)
LEMMA BaseStep ==
  ASSUME Base, [Next]_vars
  PROVE  Base'
<1>0. IsGraph(graph) /\ Kinded(local) /\ Described(graph, lease)
  BY DEF Base
<1>1. CASE UNCHANGED vars
  BY <1>0, <1>1 DEF vars, Base, Described, Kinded, NoLease
<1>2. CASE Next
  <2>1. KeepsKind(local, local') /\ (Acquire \/ Step)
    BY <1>0, <1>2, StepKind
  <2>2. graph' = graph
    BY <2>1 DEF Acquire, Step
  <2>3. CASE Acquire
    <3>1. \/ lease' = LeaseOf(graph)
          \/ lease' = [snapshot |-> BuildTableSnapshot(graph.vertices, graph.edges), delta |-> NoDelta]
      BY <2>3 DEF Acquire
    <3>2. IsTables(graph.vertices, graph.edges)
      BY <1>0 DEF IsGraph
    <3>3. LeaseDescribes(LeaseOf(graph), graph.vertices, graph.edges)
      BY <1>0, LeaseExact
    <3>4. LeaseDescribes([snapshot |-> BuildTableSnapshot(graph.vertices, graph.edges), delta |-> NoDelta],
                         graph.vertices, graph.edges)
      BY <3>2, BuiltExact
    <3>5. Described(graph, lease')
      BY <3>1, <3>3, <3>4 DEF Described
    <3> QED
      BY <1>0, <2>1, <2>2, <3>5 DEF Base, KeepsKind
  <2>4. CASE Step
    BY <1>0, <2>1, <2>2, <2>4 DEF Base, KeepsKind, Step
  <2> QED
    BY <2>1, <2>3, <2>4
<1> QED
  BY <1>1, <1>2

(* Whatever a reader acquired, a snapshot caught up by a delta or one built for it,
   describes the graph for as long as the reader keeps it. *)
THEOREM LeasesDescribe ==
  Spec => [](Acquired => LeaseDescribes(lease, graph.vertices, graph.edges))
<1>1. Init => Base
  BY BaseInit
<1>2. Base /\ [Next]_vars => Base'
  BY BaseStep
<1>3. Base => (Acquired => LeaseDescribes(lease, graph.vertices, graph.edges))
  BY DEF Base, Described, Acquired
<1> QED
  BY <1>1, <1>2, <1>3, PTL DEF Spec

-----------------------------------------------------------------------------
(* gql_csr_expand, of any graph, request, lease, local state and output. *)
LabelsAt(g, id) == UNION {ToSet(v.labels) : v \in {v \in ToSet(g.vertices) : v.id = id}}

Wanted(g, row) ==
  {e \in ToSet(g.edges) : /\ Near(e, row.out) = row.vertex
                          /\ e.label = row.label
                          /\ ToSet(row.neighbor) \subseteq LabelsAt(g, Far(e, row.out))}

RowOf(c, r, e) == [chunk |-> c, row |-> r, edge |-> e.id, source |-> e.source, target |-> e.target]

Asked(g, q, c, r) == IF ~q[c][r].given THEN {} ELSE {RowOf(c, r, e) : e \in Wanted(g, q[c][r])}

(* What a local state has got to: the rows of an input chunk before the next one, and of
   the current one the edges before the cursor. *)
Behind(held, l, id) == \E i \in 1..l.cursor : EdgesOf(held, l.vertex, l.out)[i].id = id

Done(held, l, c, r, id) ==
  \/ c < l.at
  \/ /\ c = l.at /\ l.ready /\ r < l.next
     /\ l.active /\ r = l.current => Behind(held, l, id)

Due(g, q, held, l, x) ==
  \E c \in 1..Len(q) : \E r \in 1..Len(q[c]) : x \in Asked(g, q, c, r) /\ Done(held, l, c, r, x.edge)

(* The rows returned and those of the chunk being filled are the rows due, once each. *)
Exact(g, q, held, l, rows) ==
  /\ \A i, j \in 1..Len(rows) : rows[i] = rows[j] => i = j
  /\ \A x : (\E i \in 1..Len(rows) : rows[i] = x) <=> Due(g, q, held, l, x)

ExpandedRow == [chunk : Nat, row : Nat, edge : Nat, source : Nat, target : Nat]

Positions(q, l) ==
  /\ l.op = "expand" /\ l.label \in STRING \cup {Null}
  /\ l.at \in 1..(Len(q) + 1) /\ l.next \in Nat \ {0}
  /\ {l.ready, l.active, l.out, l.filter, l.neighborExists, l.labelChanged} \subseteq BOOLEAN
  /\ l.ready => l.at <= Len(q) /\ l.next <= Len(q[l.at]) + 1
  /\ ~l.ready => l.chunk = <<>> /\ ~l.active

(* The labels looked up last. *)
CachedLabel(dict, l) ==
  IF FindLabel(dict, l.label) = {} THEN l.labelId = 0 ELSE l.labelId \in FindLabel(dict, l.label)

CachedNeighbor(dict, l) ==
  /\ l.filter <=> l.neighbor # <<>>
  /\ l.filter => /\ l.neighborExists <=> \A label \in ToSet(l.neighbor) : FindLabel(dict, label) # {}
                 /\ l.neighborIds = UNION {FindLabel(dict, label) : label \in ToSet(l.neighbor)}

(* The current row, whose labels are those looked up. *)
Midway(q, held, l) ==
  LET row == q[l.at][l.current]
  IN  /\ l.ready /\ l.current \in 1..Len(q[l.at]) /\ l.next = l.current + 1
      /\ row.given /\ row.vertex = l.id /\ row.out = l.out /\ row.label = l.label /\ row.neighbor = l.neighbor
      /\ l.id \in Nat /\ l.vertex \in OrdinalIn(held, l.id)
      /\ l.labelId # 0 /\ (l.filter => l.neighborExists)
      /\ l.cursor \in 0..(Len(EdgesOf(held, l.vertex, l.out)) - 1)

AllLabelled(q, rows, label) == \A i \in 1..Len(rows) : q[rows[i].chunk][rows[i].row].label = label

RowsOut(out) == FlattenSeq([k \in 1..Len(out) |-> out[k].rows])

Returned == [label : STRING \cup {Null}, rows : Seq(ExpandedRow)]

Streamed(g, q, held, l, out) ==
  /\ DOMAIN l = DOMAIN ExpandLocal
  /\ Positions(q, l)
  /\ CachedLabel(held.snapshot.dict, l) /\ CachedNeighbor(held.snapshot.dict, l)
  /\ l.active => Midway(q, held, l)
  /\ l.chunk \in Seq(ExpandedRow) /\ AllLabelled(q, l.chunk, l.label)
  /\ out \in Seq(Returned)
  /\ \A k \in 1..Len(out) : AllLabelled(q, out[k].rows, out[k].label)
  /\ Exact(g, q, held, l, RowsOut(out) \o l.chunk)

(* What an expansion is about: a graph, requests, and a lease that describes the graph. *)
Expands(g, q, held) ==
  IsGraph(g) /\ q \in Seq(Seq(ExpandRow)) /\ LeaseDescribes(held, g.vertices, g.edges)

IdsIn(held) == AllIds(held.snapshot, held.delta)

(* A label is in a dictionary once, and FindLabel finds it there. *)
LEMMA FoundOnce ==
  ASSUME NEW dict, IsDict(dict), NEW label
  PROVE  /\ \A i, j \in FindLabel(dict, label) : i = j
         /\ \A i : i \in FindLabel(dict, label) <=> i \in 1..Len(dict) /\ dict[i] = label
BY DEF IsDict, FindLabel

(* The ends of an edge are vertices of the tables, and its id is no other edge's. *)
LEMMA EdgeRows ==
  ASSUME NEW g, IsGraph(g), NEW e \in ToSet(g.edges), NEW outgoing \in BOOLEAN
  PROVE  /\ e \in EdgeRow /\ Near(e, outgoing) \in Nat /\ Far(e, outgoing) \in Nat
         /\ \E v \in ToSet(g.vertices) : v.id = Near(e, outgoing)
         /\ \E v \in ToSet(g.vertices) : v.id = Far(e, outgoing)
         /\ \A f \in ToSet(g.edges) : f.id = e.id => f = e
<1>1. IsTables(g.vertices, g.edges)
  BY DEF IsGraph
<1>2. PICK k \in DOMAIN g.edges : e = g.edges[k]
  BY DEF ToSet
<1>3. g.edges \in Seq(EdgeRow)
  BY <1>1, TablesTyped
<1>4. e \in EdgeRow
  BY <1>2, <1>3
<1>5. {e.source, e.target} \subseteq {g.vertices[i].id : i \in DOMAIN g.vertices}
  BY <1>1, <1>2 DEF IsTables
<1>6. \A id \in {e.source, e.target} : \E v \in ToSet(g.vertices) : v.id = id
  BY <1>5 DEF ToSet
<1>7. \A i, j \in DOMAIN g.edges : g.edges[i].id = g.edges[j].id => i = j
  BY <1>1 DEF IsTables
<1>8. \A f \in ToSet(g.edges) : f.id = e.id => f = e
  BY <1>2, <1>7 DEF ToSet
<1> QED
  BY <1>4, <1>6, <1>8 DEF Near, Far, EdgeRow

(* The labels at an id are those of its one row. *)
LEMMA VertexLabels ==
  ASSUME NEW g, IsGraph(g), NEW v \in ToSet(g.vertices)
  PROVE  v \in VertexRow /\ \A label : label \in LabelsAt(g, v.id) <=> Known(v.labels, label)
<1>1. IsTables(g.vertices, g.edges)
  BY DEF IsGraph
<1>2. PICK k \in DOMAIN g.vertices : v = g.vertices[k]
  BY DEF ToSet
<1>3. v \in VertexRow
  <2>1. g.vertices \in Seq(VertexRow)
    BY <1>1, TablesTyped
  <2> QED
    BY <1>2, <2>1
<1>4. \A i, j \in DOMAIN g.vertices : g.vertices[i].id = g.vertices[j].id => i = j
  BY <1>1 DEF IsTables
<1>5. \A w \in ToSet(g.vertices) : w.id = v.id => w = v
  BY <1>2, <1>4 DEF ToSet
<1>6. \A label : label \in LabelsAt(g, v.id) <=> label \in ToSet(v.labels)
  BY <1>5 DEF LabelsAt
<1>7. v.labels \in Seq(STRING)
  BY <1>3 DEF VertexRow
<1>8. \A label : label \in ToSet(v.labels) <=> Known(v.labels, label)
  BY <1>7 DEF ToSet, Known
<1> QED
  BY <1>3, <1>6, <1>8

(* The labels read at an ordinal are those of its vertex. *)
LEMMA LabelsRead ==
  ASSUME NEW g, NEW held, IsGraph(g), LeaseDescribes(held, g.vertices, g.edges), NEW o \in DOMAIN IdsIn(held), NEW label
  PROVE  label \in LabelsAt(g, IdsIn(held)[o]) <=>
             \E id \in FindLabel(held.snapshot.dict, label) : Known(VertexLabelIds(held, o), id)
<1> DEFINE dict == held.snapshot.dict
<1>1. PICK v \in ToSet(g.vertices) : v.id = IdsIn(held)[o] /\ LabelledAs(VertexLabelIds(held, o), v.labels, dict)
  BY DEF LeaseDescribes, IdsIn
<1>2. label \in LabelsAt(g, v.id) <=> Known(v.labels, label)
  BY VertexLabels
<1>3. Known(v.labels, label) <=> \E id \in 1..Len(dict) : dict[id] = label /\ Known(VertexLabelIds(held, o), id)
  BY <1>1 DEF LabelledAs
<1>4. IsDict(dict)
  BY DEF LeaseDescribes
<1>5. \A i : i \in FindLabel(dict, label) <=> i \in 1..Len(dict) /\ dict[i] = label
  BY <1>4, FoundOnce
<1> QED
  BY <1>1, <1>2, <1>3, <1>5

(* Labels that are all in the dictionary filter a vertex as its own labels do. *)
LEMMA FilterExact ==
  ASSUME NEW g, NEW held, IsGraph(g), LeaseDescribes(held, g.vertices, g.edges), NEW o \in DOMAIN IdsIn(held),
         NEW labels, \A label \in labels : FindLabel(held.snapshot.dict, label) # {}
  PROVE  CsrVertexHasLabels(held, o, UNION {FindLabel(held.snapshot.dict, label) : label \in labels})
             <=> labels \subseteq LabelsAt(g, IdsIn(held)[o])
<1> DEFINE dict == held.snapshot.dict
           ids == VertexLabelIds(held, o)
<1>1. IsDict(dict)
  BY DEF LeaseDescribes
<1>2. \A label : \A i, j \in FindLabel(dict, label) : i = j
  BY <1>1, FoundOnce
<1>3. \A label : label \in LabelsAt(g, IdsIn(held)[o]) <=> \E id \in FindLabel(dict, label) : Known(ids, id)
  BY LabelsRead
<1>4. \A id : Contains(ids, id) <=> Known(ids, id)
  BY DEF Contains, Known
<1>5. CsrVertexHasLabels(held, o, UNION {FindLabel(dict, label) : label \in labels})
        <=> \A label \in labels : \A id \in FindLabel(dict, label) : Known(ids, id)
  BY <1>4 DEF CsrVertexHasLabels
<1> HIDE DEF dict, ids
<1>6. \A label \in labels : FindLabel(dict, label) # {}
  BY DEF dict
<1>7. \A label \in labels : (\A id \in FindLabel(dict, label) : Known(ids, id))
                              <=> label \in LabelsAt(g, IdsIn(held)[o])
  BY <1>2, <1>3, <1>6
<1>8. (\A label \in labels : \A id \in FindLabel(dict, label) : Known(ids, id))
        <=> labels \subseteq LabelsAt(g, IdsIn(held)[o])
  BY <1>7
<1> QED
  BY <1>5, <1>8 DEF dict, ids

(* The list read at a vertex: its edges, and what each leads to. *)
LEMMA ListRead ==
  ASSUME NEW g, NEW held, IsGraph(g), LeaseDescribes(held, g.vertices, g.edges),
         NEW id \in Nat, NEW o \in OrdinalIn(held, id), NEW outgoing \in BOOLEAN
  PROVE  /\ o \in DOMAIN IdsIn(held) /\ IdsIn(held)[o] = id
         /\ ListsAt(EdgesOf(held, o, outgoing), ToSet(g.edges), id, held.snapshot.dict, IdsIn(held), outgoing)
         /\ \A p \in DOMAIN IdsIn(held) : VertexIdIn(held, p) = IdsIn(held)[p]
<1>1. FindsAll(held.snapshot, held.delta, IdsIn(held))
  BY DEF LeaseDescribes, IdsIn
<1>2. o \in DOMAIN IdsIn(held) /\ IdsIn(held)[o] = id
  BY <1>1 DEF FindsAll, OrdinalIn
<1>3. ListsAt(EdgesOf(held, o, outgoing), ToSet(g.edges), IdsIn(held)[o], held.snapshot.dict, IdsIn(held), outgoing)
  BY <1>2 DEF LeaseDescribes, IdsIn
<1>4. \A p \in DOMAIN IdsIn(held) : VertexIdIn(held, p) = IdsIn(held)[p]
  BY DEF IdsIn, AllIds, VertexIdIn
<1> QED
  BY <1>2, <1>3, <1>4

Found(held, row, e) ==
  /\ row.vertex \in Nat /\ OrdinalIn(held, row.vertex) # {}
  /\ FindLabel(held.snapshot.dict, row.label) # {}
  /\ \A label \in ToSet(row.neighbor) : FindLabel(held.snapshot.dict, label) # {}
  /\ \A o \in OrdinalIn(held, row.vertex) :
        \E i \in 1..Len(EdgesOf(held, o, row.out)) : EdgesOf(held, o, row.out)[i].id = e.id

(* An edge that an input row asks for is found: its vertex has an ordinal, its labels are in
   the dictionary, and it is in the list read at the vertex. *)
LEMMA WantedFound ==
  ASSUME NEW g, NEW held, IsGraph(g), LeaseDescribes(held, g.vertices, g.edges),
         NEW row \in ExpandRow, NEW e \in Wanted(g, row)
  PROVE  Found(held, row, e)
<1> DEFINE dict == held.snapshot.dict
           ids == IdsIn(held)
<1>1. /\ e \in ToSet(g.edges) /\ Near(e, row.out) = row.vertex /\ e.label = row.label
      /\ ToSet(row.neighbor) \subseteq LabelsAt(g, Far(e, row.out))
  BY DEF Wanted
<1>2. row.out \in BOOLEAN
  BY DEF ExpandRow
<1>3. /\ row.vertex \in Nat
      /\ \E v \in ToSet(g.vertices) : v.id = row.vertex
      /\ \E v \in ToSet(g.vertices) : v.id = Far(e, row.out)
  BY <1>1, <1>2, EdgeRows
<1>4. /\ FindsAll(held.snapshot, held.delta, ids)
      /\ \A v \in ToSet(g.vertices) : \E o \in DOMAIN ids : ids[o] = v.id
      /\ IsDict(dict)
  BY DEF LeaseDescribes, IdsIn
<1>5. OrdinalIn(held, row.vertex) # {}
  <2>1. PICK o \in DOMAIN ids : ids[o] = row.vertex
    BY <1>3, <1>4
  <2>2. OrdinalIn(held, row.vertex) = {p \in DOMAIN ids : ids[p] = row.vertex}
    BY <1>3, <1>4 DEF FindsAll, OrdinalIn
  <2> QED
    BY <2>1, <2>2
<1>6. ASSUME NEW o \in OrdinalIn(held, row.vertex)
      PROVE  \E i \in 1..Len(EdgesOf(held, o, row.out)) :
                IsEntry(EdgesOf(held, o, row.out)[i], e, dict, ids, row.out)
  <2>1. ListsAt(EdgesOf(held, o, row.out), ToSet(g.edges), row.vertex, dict, ids, row.out)
    BY <1>2, <1>3, ListRead
  <2> QED
    BY <1>1, <2>1 DEF ListsAt
<1>7. FindLabel(dict, row.label) # {}
  <2>1. PICK o : o \in OrdinalIn(held, row.vertex)
    BY <1>5
  <2>2. PICK i \in 1..Len(EdgesOf(held, o, row.out)) :
             IsEntry(EdgesOf(held, o, row.out)[i], e, dict, ids, row.out)
    BY <1>6, <2>1
  <2>3. \E id \in 1..Len(dict) : dict[id] = row.label
    BY <1>1, <2>2 DEF IsEntry
  <2> QED
    BY <1>4, <2>3, FoundOnce
<1>8. ASSUME NEW label \in ToSet(row.neighbor) PROVE FindLabel(dict, label) # {}
  <2>1. PICK v \in ToSet(g.vertices) : v.id = Far(e, row.out)
    BY <1>3
  <2>2. PICK o \in DOMAIN ids : ids[o] = Far(e, row.out)
    BY <1>4, <2>1
  <2>3. label \in LabelsAt(g, ids[o])
    BY <1>1, <2>2
  <2>4. \E id \in FindLabel(dict, label) : Known(VertexLabelIds(held, o), id)
    BY <2>3, LabelsRead
  <2> QED
    BY <2>4
<1>9. \A o \in OrdinalIn(held, row.vertex) :
         \E i \in 1..Len(EdgesOf(held, o, row.out)) : EdgesOf(held, o, row.out)[i].id = e.id
  BY <1>6 DEF IsEntry
<1> QED
  BY <1>3, <1>5, <1>7, <1>8, <1>9 DEF Found

(* Why an input row has no edges: BeginCsrExpansionRow passes over it. *)
Skipped(held, row) ==
  \/ ~row.given
  \/ row.vertex = Null
  \/ OrdinalIn(held, row.vertex) = {}
  \/ FindLabel(held.snapshot.dict, row.label) = {}
  \/ \E label \in ToSet(row.neighbor) : FindLabel(held.snapshot.dict, label) = {}
  \/ \E o \in OrdinalIn(held, row.vertex) : ~(0 < Len(EdgesOf(held, o, row.out)))

(* An input row the operator passes over asks for no row. *)
LEMMA SkippedAsksNothing ==
  ASSUME NEW g, NEW held, NEW q, NEW c, NEW r, IsGraph(g), LeaseDescribes(held, g.vertices, g.edges),
         q[c][r] \in ExpandRow, Skipped(held, q[c][r])
  PROVE  Asked(g, q, c, r) = {}
<1> DEFINE row == q[c][r]
<1>0. row \in ExpandRow /\ Skipped(held, row)
  OBVIOUS
<1> HIDE DEF row
<1>1. ASSUME NEW e \in Wanted(g, row), row.given PROVE FALSE
  <2>0. Found(held, row, e)
    BY <1>0, <1>1, WantedFound
  <2>1. /\ row.vertex \in Nat /\ OrdinalIn(held, row.vertex) # {}
        /\ FindLabel(held.snapshot.dict, row.label) # {}
        /\ \A label \in ToSet(row.neighbor) : FindLabel(held.snapshot.dict, label) # {}
        /\ \A o \in OrdinalIn(held, row.vertex) :
              \E i \in 1..Len(EdgesOf(held, o, row.out)) : EdgesOf(held, o, row.out)[i].id = e.id
    BY <2>0 DEF Found
  <2>2. row.vertex # Null
    BY <2>1, ReaderAssumption
  <2>3. ASSUME NEW o \in OrdinalIn(held, row.vertex) PROVE 0 < Len(EdgesOf(held, o, row.out))
    <3>1. Len(EdgesOf(held, o, row.out)) \in Nat
      <4>1. row.out \in BOOLEAN
        BY <1>0 DEF ExpandRow
      <4>2. ListsAt(EdgesOf(held, o, row.out), ToSet(g.edges), row.vertex, held.snapshot.dict, IdsIn(held), row.out)
        BY <2>1, <4>1, ListRead
      <4> QED
        BY <4>2 DEF ListsAt
    <3> QED
      BY <2>1, <3>1
  <2> QED
    BY <1>0, <1>1, <2>1, <2>2, <2>3 DEF Skipped
<1>2. ~row.given \/ Wanted(g, row) = {}
  BY <1>1
<1> QED
  BY <1>2 DEF Asked, row

(* The edge at the cursor, given that the row's labels are those looked up. *)
EdgeRead(held, l) == EdgesOf(held, l.vertex, l.out)[l.cursor + 1]

RowRead(held, l) ==
  LET other == VertexIdIn(held, EdgeRead(held, l).neighbor)
  IN  [chunk |-> l.at, row |-> l.current, edge |-> EdgeRead(held, l).id,
       source |-> IF l.out THEN l.id ELSE other, target |-> IF l.out THEN other ELSE l.id]

Emits(held, l) ==
  /\ EdgeRead(held, l).label = l.labelId
  /\ l.filter => CsrVertexHasLabels(held, EdgeRead(held, l).neighbor, l.neighborIds)

(* ExpandEdge emits exactly the edges the current row asks for. *)
LEMMA EdgeReadExact ==
  ASSUME NEW g, NEW q, NEW held, Expands(g, q, held), NEW l, l.at \in 1..Len(q), l.id \in Nat,
         CachedLabel(held.snapshot.dict, l), CachedNeighbor(held.snapshot.dict, l), Midway(q, held, l)
  PROVE  /\ RowRead(held, l) \in ExpandedRow
         /\ \A x : x \in Asked(g, q, l.at, l.current) /\ x.edge = EdgeRead(held, l).id
                     <=> Emits(held, l) /\ x = RowRead(held, l)
<1> DEFINE row == q[l.at][l.current]
           dict == held.snapshot.dict
           ids == IdsIn(held)
           list == EdgesOf(held, l.vertex, l.out)
           edge == EdgeRead(held, l)
<1>1. /\ row \in ExpandRow /\ l.current \in Nat /\ l.at \in Nat
      /\ row.given /\ row.vertex = l.id /\ row.out = l.out /\ row.label = l.label /\ row.neighbor = l.neighbor
      /\ l.vertex \in OrdinalIn(held, l.id) /\ l.labelId # 0 /\ (l.filter => l.neighborExists)
      /\ l.cursor \in 0..(Len(list) - 1)
  <2>1. q \in Seq(Seq(ExpandRow))
    BY DEF Expands
  <2>2. q[l.at] \in Seq(ExpandRow)
    BY <2>1
  <2>3. l.current \in 1..Len(q[l.at])
    BY DEF Midway
  <2>4. row \in ExpandRow
    BY <2>2, <2>3
  <2> QED
    BY <2>3, <2>4 DEF Midway
<1>2. l.out \in BOOLEAN
  BY <1>1 DEF ExpandRow
<1>3. IsGraph(g) /\ LeaseDescribes(held, g.vertices, g.edges)
  BY DEF Expands
<1>4. /\ l.vertex \in DOMAIN ids /\ ids[l.vertex] = l.id
      /\ ListsAt(list, ToSet(g.edges), l.id, dict, ids, l.out)
      /\ \A p \in DOMAIN ids : VertexIdIn(held, p) = ids[p]
  BY <1>1, <1>2, <1>3, ListRead
<1>5. l.cursor + 1 \in 1..Len(list)
  BY <1>1, <1>4 DEF ListsAt
<1>6. PICK e \in ToSet(g.edges) : Near(e, l.out) = l.id /\ IsEntry(edge, e, dict, ids, l.out)
  BY <1>4, <1>5 DEF ListsAt, EdgeRead
<1>7. /\ edge.id = e.id /\ edge.label \in 1..Len(dict) /\ dict[edge.label] = e.label
      /\ edge.neighbor \in DOMAIN ids /\ ids[edge.neighbor] = Far(e, l.out)
  BY <1>6 DEF IsEntry
<1>8. /\ e \in EdgeRow /\ Far(e, l.out) \in Nat
      /\ \A f \in ToSet(g.edges) : f.id = e.id => f = e
  BY <1>2, <1>3, EdgeRows
<1>9. RowRead(held, l) = RowOf(l.at, l.current, e)
  <2>1. VertexIdIn(held, edge.neighbor) = Far(e, l.out)
    BY <1>4, <1>7
  <2>2. /\ e.source = IF l.out THEN l.id ELSE Far(e, l.out)
        /\ e.target = IF l.out THEN Far(e, l.out) ELSE l.id
    BY <1>6 DEF Near, Far
  <2> QED
    BY <1>7, <2>1, <2>2 DEF RowRead, RowOf
<1>10. RowRead(held, l) \in ExpandedRow
  BY <1>1, <1>8, <1>9 DEF RowOf, ExpandedRow, EdgeRow
<1>11. edge.label = l.labelId <=> e.label = l.label
  <2>1. IsDict(dict)
    BY <1>3 DEF LeaseDescribes
  <2>2. FindLabel(dict, l.label) # {} /\ l.labelId \in FindLabel(dict, l.label)
    BY <1>1 DEF CachedLabel
  <2>3. edge.label \in FindLabel(dict, l.label) <=> e.label = l.label
    BY <1>7, <2>1, FoundOnce
  <2>4. \A i, j \in FindLabel(dict, l.label) : i = j
    BY <2>1, FoundOnce
  <2> QED
    BY <2>2, <2>3, <2>4
<1>12. (l.filter => CsrVertexHasLabels(held, edge.neighbor, l.neighborIds))
         <=> ToSet(l.neighbor) \subseteq LabelsAt(g, Far(e, l.out))
  <2>1. CASE l.filter
    <3>1. /\ \A label \in ToSet(l.neighbor) : FindLabel(dict, label) # {}
          /\ l.neighborIds = UNION {FindLabel(dict, label) : label \in ToSet(l.neighbor)}
      BY <1>1, <2>1 DEF CachedNeighbor
    <3>2. CsrVertexHasLabels(held, edge.neighbor, UNION {FindLabel(dict, label) : label \in ToSet(l.neighbor)})
            <=> ToSet(l.neighbor) \subseteq LabelsAt(g, ids[edge.neighbor])
      BY <1>3, <1>7, <3>1, FilterExact
    <3> QED
      BY <1>7, <2>1, <3>1, <3>2
  <2>2. CASE ~l.filter
    <3>1. l.neighbor = <<>>
      BY <2>2 DEF CachedNeighbor
    <3>2. ToSet(l.neighbor) = {}
      BY <3>1 DEF ToSet
    <3> QED
      BY <2>2, <3>2
  <2> QED
    BY <2>1, <2>2
<1>13. Emits(held, l) <=> e \in Wanted(g, row)
  BY <1>1, <1>6, <1>11, <1>12 DEF Emits, Wanted
<1>14. ASSUME NEW x, x \in Asked(g, q, l.at, l.current), x.edge = edge.id
       PROVE  Emits(held, l) /\ x = RowRead(held, l)
  <2>1. PICK f \in Wanted(g, row) : x = RowOf(l.at, l.current, f)
    BY <1>1, <1>14 DEF Asked
  <2>2. f.id = e.id /\ f \in ToSet(g.edges)
    BY <1>7, <1>14, <2>1 DEF RowOf, Wanted
  <2>3. f = e
    BY <1>8, <2>2
  <2> QED
    BY <1>9, <1>13, <2>1, <2>3
<1>15. ASSUME Emits(held, l)
       PROVE  RowRead(held, l) \in Asked(g, q, l.at, l.current) /\ RowRead(held, l).edge = edge.id
  <2>1. Asked(g, q, l.at, l.current) = {RowOf(l.at, l.current, f) : f \in Wanted(g, row)}
    BY <1>1 DEF Asked
  <2>2. RowOf(l.at, l.current, e) \in Asked(g, q, l.at, l.current)
    BY <1>13, <1>15, <2>1
  <2>3. RowOf(l.at, l.current, e).edge = edge.id
    BY <1>7 DEF RowOf
  <2> QED
    BY <1>9, <2>2, <2>3
<1> QED
  BY <1>10, <1>14, <1>15

-----------------------------------------------------------------------------
(* Local states that differ in these fields only. *)
Same(l, n, fields) == DOMAIN n = DOMAIN l /\ \A f \in DOMAIN l \ fields : n[f] = l[f]

(* The fields of the local state of gql_csr_expand. *)
LEMMA ExpandFields ==
  DOMAIN ExpandLocal =
    {"op", "at", "ready", "next", "active", "current", "vertex", "id", "cursor", "out", "label", "labelId",
     "neighbor", "filter", "neighborExists", "neighborIds", "chunk", "labelChanged"}
BY DEF ExpandLocal

(* What the input of gql_csr_expand is made of. *)
LEMMA RequestRows ==
  ASSUME NEW g, NEW q, NEW held, Expands(g, q, held)
  PROVE  /\ Len(q) \in Nat
         /\ \A c \in 1..Len(q) : /\ q[c] \in Seq(ExpandRow) /\ Len(q[c]) \in Nat
                                 /\ \A r \in 1..Len(q[c]) : q[c][r] \in ExpandRow
<1>1. q \in Seq(Seq(ExpandRow))
  BY DEF Expands
<1>2. Len(q) \in Nat /\ \A c \in 1..Len(q) : q[c] \in Seq(ExpandRow)
  BY <1>1
<1> QED
  BY <1>2

(* Nothing is due that was not, and the other way round. *)
SameDue(g, q, held, l, n) ==
  \A c \in 1..Len(q) : \A r \in 1..Len(q[c]) : \A x \in Asked(g, q, c, r) :
      Done(held, l, c, r, x.edge) <=> Done(held, n, c, r, x.edge)

(* What was returned stays right while the same rows are due. *)
LEMMA ExactKept ==
  ASSUME NEW g, NEW q, NEW held, NEW l, NEW n, NEW rows, Exact(g, q, held, l, rows), SameDue(g, q, held, l, n)
  PROVE  Exact(g, q, held, n, rows)
<1>1. \A x : Due(g, q, held, l, x) <=> Due(g, q, held, n, x)
  BY DEF SameDue, Due
<1> QED
  BY <1>1 DEF Exact

(* A new output chunk changes nothing that is due. *)
LEMMA IdleStreams ==
  ASSUME NEW g, NEW q, NEW held, NEW l, NEW out, Expands(g, q, held), Streamed(g, q, held, l, out), ~l.active,
         NEW n, Same(l, n, {"out", "label", "labelId", "neighbor", "filter", "neighborExists", "neighborIds", "labelChanged"}),
         {n.out, n.filter, n.neighborExists, n.labelChanged} \subseteq BOOLEAN, n.label \in STRING \cup {Null},
         CachedLabel(held.snapshot.dict, n), CachedNeighbor(held.snapshot.dict, n),
         l.chunk = <<>> \/ n.label = l.label
  PROVE  Streamed(g, q, held, n, out)
<1>1. /\ DOMAIN l = DOMAIN ExpandLocal /\ Positions(q, l)
      /\ l.chunk \in Seq(ExpandedRow) /\ AllLabelled(q, l.chunk, l.label)
      /\ out \in Seq(Returned)
      /\ \A k \in 1..Len(out) : AllLabelled(q, out[k].rows, out[k].label)
      /\ Exact(g, q, held, l, RowsOut(out) \o l.chunk)
  BY DEF Streamed
<1>2. /\ DOMAIN n = DOMAIN ExpandLocal
      /\ n.op = l.op /\ n.at = l.at /\ n.ready = l.ready /\ n.next = l.next /\ n.active = l.active
      /\ n.current = l.current /\ n.chunk = l.chunk
  BY <1>1, ExpandFields DEF Same
<1>3. Positions(q, n)
  BY <1>1, <1>2 DEF Positions
<1>4. AllLabelled(q, n.chunk, n.label)
  BY SMTT(40), <1>1, <1>2 DEF AllLabelled
<1>5. SameDue(g, q, held, l, n)
  BY <1>2 DEF SameDue, Done
<1>6. Exact(g, q, held, n, RowsOut(out) \o n.chunk)
  BY <1>1, <1>2, <1>5, ExactKept
<1> QED
  BY <1>1, <1>2, <1>3, <1>4, <1>6 DEF Streamed

(* CsrExpandFunction meets a chunk: none of its rows is due yet. *)
LEMMA InputStreams ==
  ASSUME NEW g, NEW q, NEW held, NEW l, NEW out, Expands(g, q, held), Streamed(g, q, held, l, out),
         ~l.ready, l.at <= Len(q), NEW n, Same(l, n, {"ready", "next", "active"}),
         n.ready = TRUE, n.next = 1, n.active = FALSE
  PROVE  Streamed(g, q, held, n, out)
<1>1. /\ DOMAIN l = DOMAIN ExpandLocal /\ Positions(q, l)
      /\ CachedLabel(held.snapshot.dict, l) /\ CachedNeighbor(held.snapshot.dict, l)
      /\ l.chunk \in Seq(ExpandedRow) /\ AllLabelled(q, l.chunk, l.label)
      /\ out \in Seq(Returned)
      /\ \A k \in 1..Len(out) : AllLabelled(q, out[k].rows, out[k].label)
      /\ Exact(g, q, held, l, RowsOut(out) \o l.chunk)
  BY DEF Streamed
<1>2. /\ DOMAIN n = DOMAIN ExpandLocal
      /\ n.op = l.op /\ n.at = l.at /\ n.out = l.out /\ n.label = l.label /\ n.labelId = l.labelId
      /\ n.neighbor = l.neighbor /\ n.filter = l.filter /\ n.neighborExists = l.neighborExists
      /\ n.neighborIds = l.neighborIds /\ n.chunk = l.chunk /\ n.labelChanged = l.labelChanged
  BY <1>1, ExpandFields DEF Same
<1>3. Len(q) \in Nat /\ \A c \in 1..Len(q) : Len(q[c]) \in Nat
  BY RequestRows
<1>4. l.at \in 1..Len(q)
  BY <1>1, <1>3 DEF Positions
<1>5. Positions(q, n)
  <2>1. 1 \in Nat \ {0} /\ 1 <= Len(q[l.at]) + 1 /\ l.at \in 1..(Len(q) + 1)
    BY <1>3, <1>4
  <2>2. /\ l.op = "expand" /\ l.label \in STRING \cup {Null}
        /\ {l.out, l.filter, l.neighborExists, l.labelChanged} \subseteq BOOLEAN
    BY <1>1 DEF Positions
  <2>3. {n.ready, n.active, n.out, n.filter, n.neighborExists, n.labelChanged} \subseteq BOOLEAN
    BY <1>2, <2>2
  <2> QED
    BY <1>2, <2>1, <2>2, <2>3 DEF Positions
<1>6. CachedLabel(held.snapshot.dict, n) /\ CachedNeighbor(held.snapshot.dict, n)
  BY <1>1, <1>2 DEF CachedLabel, CachedNeighbor
<1>7. SameDue(g, q, held, l, n)
  <2>1. ASSUME NEW c \in 1..Len(q), NEW r \in 1..Len(q[c]), NEW id
        PROVE  Done(held, l, c, r, id) <=> Done(held, n, c, r, id)
    <3>1. ~(r < 1)
      BY <1>3
    <3> QED
      BY <1>2, <3>1 DEF Done
  <2> QED
    BY <2>1 DEF SameDue
<1>8. Exact(g, q, held, n, RowsOut(out) \o n.chunk)
  BY <1>1, <1>2, <1>7, ExactKept
<1> QED
  BY <1>1, <1>2, <1>5, <1>6, <1>8 DEF Streamed

(* The next row of the chunk becomes the current one, or is passed over where it has no edges. *)
LEMMA RowStreams ==
  ASSUME NEW g, NEW q, NEW held, NEW l, NEW out, Expands(g, q, held), Streamed(g, q, held, l, out),
         l.ready, ~l.active, l.next <= Len(q[l.at]),
         NEW n, Same(l, n, {"next", "active", "current", "vertex", "id", "cursor"}),
         n.next = l.next + 1, n.active \in BOOLEAN,
         ~n.active => Asked(g, q, l.at, l.next) = {},
         n.active => n.current = l.next /\ n.cursor = 0 /\ Midway(q, held, n)
  PROVE  Streamed(g, q, held, n, out)
<1>1. /\ DOMAIN l = DOMAIN ExpandLocal /\ Positions(q, l)
      /\ CachedLabel(held.snapshot.dict, l) /\ CachedNeighbor(held.snapshot.dict, l)
      /\ l.chunk \in Seq(ExpandedRow) /\ AllLabelled(q, l.chunk, l.label)
      /\ out \in Seq(Returned)
      /\ \A k \in 1..Len(out) : AllLabelled(q, out[k].rows, out[k].label)
      /\ Exact(g, q, held, l, RowsOut(out) \o l.chunk)
  BY DEF Streamed
<1>2. /\ DOMAIN n = DOMAIN ExpandLocal
      /\ n.op = l.op /\ n.at = l.at /\ n.ready = l.ready /\ n.out = l.out /\ n.label = l.label
      /\ n.labelId = l.labelId /\ n.neighbor = l.neighbor /\ n.filter = l.filter
      /\ n.neighborExists = l.neighborExists /\ n.neighborIds = l.neighborIds
      /\ n.chunk = l.chunk /\ n.labelChanged = l.labelChanged
  BY <1>1, ExpandFields DEF Same
<1>3. Len(q) \in Nat /\ \A c \in 1..Len(q) : Len(q[c]) \in Nat
  BY RequestRows
<1>4. l.at \in 1..Len(q) /\ l.next \in Nat \ {0} /\ l.next \in 1..Len(q[l.at])
  BY <1>1, <1>3 DEF Positions
<1>5. Positions(q, n)
  <2>1. n.next \in Nat \ {0} /\ n.next <= Len(q[l.at]) + 1
    BY <1>3, <1>4
  <2>2. /\ l.op = "expand" /\ l.label \in STRING \cup {Null} /\ l.at \in 1..(Len(q) + 1) /\ l.at <= Len(q)
        /\ {l.out, l.filter, l.neighborExists, l.labelChanged} \subseteq BOOLEAN
    BY <1>1 DEF Positions
  <2>3. {n.ready, n.active, n.out, n.filter, n.neighborExists, n.labelChanged} \subseteq BOOLEAN
    BY <1>2, <2>2
  <2> QED
    BY <1>2, <2>1, <2>2, <2>3 DEF Positions
<1>6. CachedLabel(held.snapshot.dict, n) /\ CachedNeighbor(held.snapshot.dict, n)
  BY <1>1, <1>2 DEF CachedLabel, CachedNeighbor
<1>7. SameDue(g, q, held, l, n)
  <2>1. ASSUME NEW c \in 1..Len(q), NEW r \in 1..Len(q[c]), NEW x \in Asked(g, q, c, r)
        PROVE  Done(held, l, c, r, x.edge) <=> Done(held, n, c, r, x.edge)
    <3>1. CASE c # l.at
      BY <1>2, <3>1 DEF Done
    <3>2. CASE c = l.at /\ r # l.next
      <4>1. r < l.next <=> r < n.next
        BY <1>3, <1>4, <3>2
      <4> QED
        BY <1>2, <3>2, <4>1 DEF Done
    <3>3. CASE c = l.at /\ r = l.next
      <4>1. n.active
        BY <3>3
      <4>2. ~(r < l.next) /\ r = n.current /\ 1..n.cursor = {}
        BY <1>4, <3>3, <4>1
      <4>3. ~Behind(held, n, x.edge)
        BY <4>2 DEF Behind
      <4>4. ~(c < l.at) /\ ~(c < n.at)
        BY <1>2, <1>4, <3>3
      <4> QED
        BY <4>1, <4>2, <4>3, <4>4 DEF Done
    <3> QED
      BY <3>1, <3>2, <3>3
  <2> QED
    BY <2>1 DEF SameDue
<1>8. Exact(g, q, held, n, RowsOut(out) \o n.chunk)
  BY <1>1, <1>2, <1>7, ExactKept
<1> QED
  BY <1>1, <1>2, <1>5, <1>6, <1>8 DEF Streamed

(* What is behind the cursor is not the next edge. *)
LEMMA StillBehind ==
  ASSUME NEW c \in Nat, NEW n \in Nat, c + 1 \in 1..n, NEW i \in 1..c
  PROVE  i \in 1..n /\ i # c + 1
OBVIOUS

(* One more edge of the current row is due where the row asks for it. *)
LEMMA DueNext ==
  ASSUME NEW g, NEW q, NEW held, NEW l, Expands(g, q, held), Positions(q, l), l.active, l.id \in Nat,
         CachedLabel(held.snapshot.dict, l), CachedNeighbor(held.snapshot.dict, l), Midway(q, held, l),
         NEW n, n.at = l.at, n.ready = l.ready, n.next = l.next, n.current = l.current, n.vertex = l.vertex,
         n.out = l.out, n.cursor = l.cursor + 1,
         n.active = (l.cursor + 1 < Len(EdgesOf(held, l.vertex, l.out)))
  PROVE  /\ ~Due(g, q, held, l, RowRead(held, l))
         /\ \A x : Due(g, q, held, n, x) <=> Due(g, q, held, l, x) \/ (Emits(held, l) /\ x = RowRead(held, l))
<1> DEFINE list == EdgesOf(held, l.vertex, l.out)
           edge == EdgeRead(held, l)
           row == RowRead(held, l)
<1>1. /\ Len(q) \in Nat /\ \A c \in 1..Len(q) : Len(q[c]) \in Nat
      /\ q[l.at][l.current] \in ExpandRow
      /\ l.at \in 1..Len(q) /\ l.ready /\ l.current \in 1..Len(q[l.at]) /\ l.next = l.current + 1
      /\ q[l.at][l.current].vertex = l.id /\ q[l.at][l.current].out = l.out
      /\ l.vertex \in OrdinalIn(held, l.id) /\ l.cursor \in 0..(Len(list) - 1)
  <2>1. /\ Len(q) \in Nat
        /\ \A c \in 1..Len(q) : Len(q[c]) \in Nat /\ \A r \in 1..Len(q[c]) : q[c][r] \in ExpandRow
    BY RequestRows
  <2>2. /\ l.ready /\ l.current \in 1..Len(q[l.at]) /\ l.next = l.current + 1
        /\ q[l.at][l.current].vertex = l.id /\ q[l.at][l.current].out = l.out
        /\ l.vertex \in OrdinalIn(held, l.id) /\ l.cursor \in 0..(Len(list) - 1)
    BY DEF Midway
  <2>3. l.at \in 1..(Len(q) + 1) /\ l.at <= Len(q)
    BY <2>2 DEF Positions
  <2>4. l.at \in 1..Len(q)
    BY <2>1, <2>3
  <2> QED
    BY <2>1, <2>2, <2>4
<1>2. \A x : x \in Asked(g, q, l.at, l.current) /\ x.edge = edge.id <=> Emits(held, l) /\ x = row
  BY <1>1, EdgeReadExact
<1>3. row.chunk = l.at /\ row.row = l.current /\ row.edge = edge.id
  BY DEF RowRead
<1>4. IsGraph(g) /\ LeaseDescribes(held, g.vertices, g.edges)
  BY DEF Expands
<1>5. l.out \in BOOLEAN
  BY <1>1 DEF ExpandRow
<1>6. ListsAt(list, ToSet(g.edges), l.id, held.snapshot.dict, IdsIn(held), l.out)
  BY <1>1, <1>4, <1>5, ListRead
<1>7. /\ Len(list) \in Nat /\ l.cursor + 1 \in 1..Len(list)
      /\ \A i, j \in 1..Len(list) : list[i].id = list[j].id => i = j
  BY <1>1, <1>6 DEF ListsAt
<1>8. ASSUME NEW x \in Asked(g, q, l.at, l.current)
      PROVE  \E i \in 1..Len(list) : list[i].id = x.edge
  <2>1. PICK e \in Wanted(g, q[l.at][l.current]) : x = RowOf(l.at, l.current, e)
    BY <1>8 DEF Asked
  <2>2. Found(held, q[l.at][l.current], e)
    BY <1>1, <1>4, WantedFound
  <2>3. \E i \in 1..Len(list) : list[i].id = e.id
    BY <1>1, <2>2 DEF Found
  <2> QED
    BY <2>1, <2>3 DEF RowOf
<1>9. \A id : Behind(held, n, id) <=> Behind(held, l, id) \/ id = edge.id
  <2>1. n.vertex = l.vertex /\ n.out = l.out /\ n.cursor = l.cursor + 1 /\ edge = list[l.cursor + 1]
    BY DEF EdgeRead
  <2>2. 1..(l.cursor + 1) = 1..l.cursor \cup {l.cursor + 1}
    BY <1>1, <1>7
  <2> HIDE DEF list
  <2>3. \A id : Behind(held, n, id) <=> \E i \in 1..(l.cursor + 1) : list[i].id = id
    BY <2>1 DEF Behind, list
  <2>4. \A id : Behind(held, l, id) <=> \E i \in 1..l.cursor : list[i].id = id
    BY DEF Behind, list
  <2> QED
    BY <2>1, <2>2, <2>3, <2>4
<1>10. ASSUME NEW x \in Asked(g, q, l.at, l.current)
       PROVE  Done(held, n, l.at, l.current, x.edge) <=> Behind(held, l, x.edge) \/ x.edge = edge.id
  <2>1. ~(l.at < n.at) /\ l.current < n.next /\ n.ready /\ n.at = l.at /\ n.current = l.current
    BY <1>1
  <2>2. Done(held, n, l.at, l.current, x.edge) <=> (n.active => Behind(held, n, x.edge))
    BY <2>1 DEF Done
  <2>3. ~n.active => Behind(held, n, x.edge)
    <3>0. ~n.active => ~(l.cursor + 1 < Len(list))
      OBVIOUS
    <3>1. ~n.active => l.cursor + 1 = Len(list)
      <4> DEFINE next == l.cursor + 1
                 last == Len(list)
      <4>1. next \in 1..last /\ last \in Nat /\ (~n.active => ~(next < last))
        BY <1>7, <3>0
      <4> HIDE DEF next, last
      <4>2. ~n.active => next = last
        BY <4>1
      <4> QED
        BY <4>2 DEF next, last
    <3>2. ~n.active => n.cursor = Len(list) /\ n.vertex = l.vertex /\ n.out = l.out
      BY <3>1
    <3> QED
      BY <1>8, <3>2 DEF Behind
  <2> QED
    BY <1>9, <2>2, <2>3
<1>11. ASSUME NEW x
       PROVE  Done(held, l, l.at, l.current, x.edge) <=> Behind(held, l, x.edge)
  <2>1. ~(l.at < l.at) /\ l.current < l.next
    BY <1>1
  <2> QED
    BY <1>1, <2>1 DEF Done
<1>12. ASSUME NEW c \in 1..Len(q), NEW r \in 1..Len(q[c]), ~(c = l.at /\ r = l.current), NEW id
       PROVE  Done(held, n, c, r, id) <=> Done(held, l, c, r, id)
  BY <1>12 DEF Done
<1>13. ASSUME NEW c \in 1..Len(q), NEW r \in 1..Len(q[c]), NEW x \in Asked(g, q, c, r)
       PROVE  Done(held, n, c, r, x.edge) <=>
                Done(held, l, c, r, x.edge) \/ (Emits(held, l) /\ x = row)
  <2>1. x.chunk = c /\ x.row = r
    BY <1>13 DEF Asked, RowOf
  <2>2. CASE c = l.at /\ r = l.current
    <3>1. x \in Asked(g, q, l.at, l.current)
      BY <2>2
    <3>2. x.edge = edge.id <=> Emits(held, l) /\ x = row
      BY <1>2, <3>1
    <3> QED
      BY <1>10, <1>11, <2>2, <3>1, <3>2
  <2>3. CASE ~(c = l.at /\ r = l.current)
    <3>1. x # row
      BY <1>3, <2>1, <2>3
    <3> QED
      BY <1>12, <2>3, <3>1
  <2> QED
    BY <2>2, <2>3
<1>14. Emits(held, l) => row \in Asked(g, q, l.at, l.current)
  BY <1>2
<1>15. \A x : Due(g, q, held, n, x) <=> Due(g, q, held, l, x) \/ (Emits(held, l) /\ x = row)
  <2>1. ASSUME NEW x, Due(g, q, held, n, x) PROVE Due(g, q, held, l, x) \/ (Emits(held, l) /\ x = row)
    BY <1>13, <2>1 DEF Due
  <2>2. ASSUME NEW x, Due(g, q, held, l, x) PROVE Due(g, q, held, n, x)
    BY <1>13, <2>2 DEF Due
  <2>3. ASSUME NEW x, Emits(held, l), x = row PROVE Due(g, q, held, n, x)
    <3>1. x \in Asked(g, q, l.at, l.current)
      BY <1>14, <2>3
    <3>2. Done(held, n, l.at, l.current, x.edge)
      BY <1>1, <1>13, <2>3, <3>1
    <3> QED
      BY <1>1, <3>1, <3>2 DEF Due
  <2> QED
    BY <2>1, <2>2, <2>3
<1>16. ~Due(g, q, held, l, row)
  <2>1. SUFFICES ASSUME Due(g, q, held, l, row) PROVE FALSE
    OBVIOUS
  <2>2. PICK c \in 1..Len(q) : \E r \in 1..Len(q[c]) : row \in Asked(g, q, c, r) /\ Done(held, l, c, r, row.edge)
    BY <2>1 DEF Due
  <2>3. PICK r \in 1..Len(q[c]) : row \in Asked(g, q, c, r) /\ Done(held, l, c, r, row.edge)
    BY <2>2
  <2>4. c = l.at /\ r = l.current
    <3>1. row.chunk = c /\ row.row = r
      BY <2>3 DEF Asked, RowOf
    <3> QED
      BY <1>3, <3>1
  <2>5. Behind(held, l, edge.id)
    BY <1>3, <1>11, <2>3, <2>4
  <2>6. PICK i \in 1..l.cursor : list[i].id = edge.id
    BY <2>5 DEF Behind
  <2>7. edge = list[l.cursor + 1]
    BY DEF EdgeRead
  <2> HIDE DEF list
  <2>8. l.cursor \in Nat
    BY <1>1, <1>7
  <2>9. i \in 1..Len(list) /\ i # l.cursor + 1
    BY <1>7, <2>8, StillBehind
  <2> QED
    BY <1>7, <2>6, <2>7, <2>9
<1> QED
  BY <1>15, <1>16

(* Small facts of numbers and sequences. *)
LEMMA StillInside ==
  ASSUME NEW n \in Nat, NEW i \in 0..(n - 1), i + 1 < n
  PROVE  i + 1 \in 0..(n - 1)
OBVIOUS

(* Arithmetic of positions. *)
LEMMA OneUp ==
  ASSUME NEW n \in Nat, NEW i \in 1..n
  PROVE  i \in 1..(n + 1) /\ i + 1 \in 1..(n + 1) /\ i <= n
OBVIOUS

(* Appending to the second of two sequences appends to the two. *)
LEMMA AppendToBoth ==
  ASSUME NEW X, NEW a \in Seq(X), NEW b \in Seq(X), NEW x \in X
  PROVE  a \o Append(b, x) = Append(a \o b, x)
<1>1. a \o b \in Seq(X) /\ Append(b, x) \in Seq(X) /\ Len(b) \in Nat /\ Len(a) \in Nat
  OBVIOUS
<1>2. Len(a \o b) = Len(a) + Len(b) /\ Len(a \o Append(b, x)) = Len(a) + Len(b) + 1
  BY <1>1
<1>3. ASSUME NEW i \in 1..(Len(a) + Len(b) + 1)
      PROVE  (a \o Append(b, x))[i] = Append(a \o b, x)[i]
  BY <1>1, <1>2
<1> QED
  BY <1>1, <1>2, <1>3

(* Rows and the rows after them. *)
LEMMA ExactMore ==
  ASSUME NEW g, NEW q, NEW held, NEW l, NEW n, NEW rows \in Seq(ExpandedRow), Exact(g, q, held, l, rows),
         NEW row \in ExpandedRow, ~Due(g, q, held, l, row),
         \A x : Due(g, q, held, n, x) <=> Due(g, q, held, l, x) \/ x = row
  PROVE  Exact(g, q, held, n, Append(rows, row))
<1> DEFINE more == Append(rows, row)
           m == Len(rows)
<1>1. /\ m \in Nat /\ Len(more) = m + 1 /\ more[m + 1] = row
      /\ \A i \in 1..m : more[i] = rows[i]
  BY AppendedTo
<1> HIDE DEF more, m
<1>2. /\ \A i, j \in 1..m : rows[i] = rows[j] => i = j
      /\ \A x : (\E i \in 1..m : rows[i] = x) <=> Due(g, q, held, l, x)
  BY DEF Exact, m
<1>3. \A i \in 1..m : rows[i] # row
  BY <1>2
<1>4. 1..(m + 1) = 1..m \cup {m + 1}
  BY <1>1
<1>5. \A i, j \in 1..(m + 1) : more[i] = more[j] => i = j
  BY <1>1, <1>2, <1>3, <1>4
<1>6. \A x : (\E i \in 1..(m + 1) : more[i] = x) <=> (\E i \in 1..m : rows[i] = x) \/ x = row
  BY <1>1, <1>4
<1>7. \A x : (\E i \in 1..(m + 1) : more[i] = x) <=> Due(g, q, held, n, x)
  BY <1>2, <1>6
<1> QED
  BY <1>1, <1>5, <1>7 DEF Exact, more

(* The rows of all chunks are rows. *)
LEMMA RowsOutTyped ==
  ASSUME NEW out \in Seq(Returned)
  PROVE  RowsOut(out) \in Seq(ExpandedRow)
<1> DEFINE s == [k \in 1..Len(out) |-> out[k].rows]
<1>1. Len(out) \in Nat /\ \A k \in 1..Len(out) : out[k] \in Returned
  OBVIOUS
<1>2. \A k \in 1..Len(out) : out[k].rows \in Seq(ExpandedRow)
  BY <1>1 DEF Returned
<1>3. s \in Seq(Seq(ExpandedRow))
  BY <1>1, <1>2
<1> HIDE DEF s
<1>4. FlattenSeq(s) \in Seq(ExpandedRow)
  BY <1>3, FlattenTyped
<1> QED
  BY <1>4 DEF RowsOut, s

(* One more chunk adds its rows at the end. *)
LEMMA RowsOutAppend ==
  ASSUME NEW out \in Seq(Returned), NEW x \in Returned
  PROVE  RowsOut(Append(out, x)) = RowsOut(out) \o x.rows
<1> DEFINE s == [k \in 1..Len(out) |-> out[k].rows]
           t == [k \in 1..Len(Append(out, x)) |-> Append(out, x)[k].rows]
           m == Len(out)
<1>1. m \in Nat /\ Len(Append(out, x)) = m + 1 /\ Append(out, x)[m + 1] = x
      /\ \A k \in 1..m : Append(out, x)[k] = out[k]
  BY AppendedTo
<1>2. \A k \in 1..Len(out) : out[k].rows \in Seq(ExpandedRow)
  <2>1. \A k \in 1..Len(out) : out[k] \in Returned
    OBVIOUS
  <2> QED
    BY <2>1 DEF Returned
<1>3. x.rows \in Seq(ExpandedRow)
  BY DEF Returned
<1>4. s \in Seq(Seq(ExpandedRow)) /\ Len(s) = m
  BY <1>1, <1>2
<1>5. t = Append(s, x.rows)
  <2>1. /\ Append(s, x.rows) \in Seq(Seq(ExpandedRow)) /\ Len(Append(s, x.rows)) = m + 1
        /\ Append(s, x.rows)[m + 1] = x.rows /\ \A k \in 1..m : Append(s, x.rows)[k] = s[k]
    <3> HIDE DEF s
    <3> QED
      BY <1>3, <1>4, AppendedTo
  <2>2. \A k \in 1..m : s[k] = out[k].rows
    OBVIOUS
  <2>3. \A k \in 1..(m + 1) : t[k] = Append(out, x)[k].rows
    BY <1>1
  <2>4. DOMAIN t = 1..(m + 1) /\ t = [k \in 1..(m + 1) |-> t[k]]
    BY <1>1
  <2>5. Append(s, x.rows) = [k \in 1..(m + 1) |-> Append(s, x.rows)[k]]
    BY <2>1
  <2> HIDE DEF t, s
  <2>6. \A k \in 1..(m + 1) : t[k] = Append(s, x.rows)[k]
    <3>1. 1..(m + 1) = 1..m \cup {m + 1}
      BY <1>1
    <3> HIDE DEF m
    <3> QED
      BY <1>1, <2>1, <2>2, <2>3, <3>1
  <2> QED
    BY <2>4, <2>5, <2>6
<1> HIDE DEF s, t
<1>6. FlattenSeq(t) = FlattenSeq(s) \o x.rows
  BY <1>3, <1>4, <1>5, FlattenAppend
<1> QED
  BY <1>6 DEF RowsOut, s, t

(* An edge is added to the chunk, or kept out of it. *)
LEMMA EdgeStreams ==
  ASSUME NEW g, NEW q, NEW held, NEW l, NEW out, Expands(g, q, held), Streamed(g, q, held, l, out), l.active,
         NEW n, Same(l, n, {"cursor", "chunk", "active"}), n.cursor = l.cursor + 1,
         n.chunk = IF Emits(held, l) THEN Append(l.chunk, RowRead(held, l)) ELSE l.chunk,
         n.active = (n.cursor < Len(EdgesOf(held, l.vertex, l.out)))
  PROVE  Streamed(g, q, held, n, out)
<1>1. /\ DOMAIN l = DOMAIN ExpandLocal /\ Positions(q, l)
      /\ CachedLabel(held.snapshot.dict, l) /\ CachedNeighbor(held.snapshot.dict, l)
      /\ Midway(q, held, l)
      /\ l.chunk \in Seq(ExpandedRow) /\ AllLabelled(q, l.chunk, l.label)
      /\ out \in Seq(Returned)
      /\ \A k \in 1..Len(out) : AllLabelled(q, out[k].rows, out[k].label)
      /\ Exact(g, q, held, l, RowsOut(out) \o l.chunk)
  BY DEF Streamed
<1>2. /\ DOMAIN n = DOMAIN ExpandLocal
      /\ n.op = l.op /\ n.at = l.at /\ n.ready = l.ready /\ n.out = l.out /\ n.label = l.label
      /\ n.labelId = l.labelId /\ n.neighbor = l.neighbor /\ n.filter = l.filter
      /\ n.neighborExists = l.neighborExists /\ n.neighborIds = l.neighborIds /\ n.next = l.next
      /\ n.current = l.current /\ n.vertex = l.vertex /\ n.id = l.id /\ n.labelChanged = l.labelChanged
  BY <1>1, ExpandFields DEF Same
<1> DEFINE list == EdgesOf(held, l.vertex, l.out)
           row == RowRead(held, l)
           asked == q[l.at][l.current]
<1>3. /\ l.ready /\ l.current \in 1..Len(q[l.at]) /\ l.next = l.current + 1
      /\ asked.given /\ asked.vertex = l.id /\ asked.out = l.out /\ asked.label = l.label
      /\ asked.neighbor = l.neighbor
      /\ l.vertex \in OrdinalIn(held, l.id) /\ l.labelId # 0 /\ (l.filter => l.neighborExists)
      /\ l.cursor \in 0..(Len(list) - 1)
  BY <1>1 DEF Midway
<1>4. /\ Len(q) \in Nat /\ \A c \in 1..Len(q) : Len(q[c]) \in Nat
      /\ \A c \in 1..Len(q) : \A r \in 1..Len(q[c]) : q[c][r] \in ExpandRow
  BY RequestRows
<1>5. l.at \in 1..Len(q) /\ asked \in ExpandRow
  <2>1. l.at \in 1..(Len(q) + 1) /\ l.at <= Len(q)
    BY <1>1, <1>3 DEF Positions
  <2>2. l.at \in 1..Len(q)
    BY <1>4, <2>1
  <2> QED
    BY <1>3, <1>4, <2>2
<1>6. IsGraph(g) /\ LeaseDescribes(held, g.vertices, g.edges)
  BY DEF Expands
<1>7. l.id \in Nat /\ Len(list) \in Nat
  <2>1. l.out \in BOOLEAN
    BY <1>3, <1>5 DEF ExpandRow
  <2>2. l.id \in Nat
    BY <1>1 DEF Midway
  <2>3. ListsAt(list, ToSet(g.edges), l.id, held.snapshot.dict, IdsIn(held), l.out)
    BY <1>3, <1>6, <2>1, <2>2, ListRead
  <2> QED
    BY <2>2, <2>3 DEF ListsAt
<1>8. Positions(q, n)
  <2>1. /\ l.op = "expand" /\ l.label \in STRING \cup {Null} /\ l.at \in 1..(Len(q) + 1) /\ l.at <= Len(q)
        /\ {l.ready, l.out, l.filter, l.neighborExists, l.labelChanged} \subseteq BOOLEAN
        /\ l.next \in Nat \ {0} /\ l.next <= Len(q[l.at]) + 1
    BY <1>1, <1>3 DEF Positions
  <2>2. {n.ready, n.active, n.out, n.filter, n.neighborExists, n.labelChanged} \subseteq BOOLEAN
    BY <1>2, <2>1
  <2> QED
    BY <1>2, <1>3, <2>1, <2>2 DEF Positions
<1>9. CachedLabel(held.snapshot.dict, n) /\ CachedNeighbor(held.snapshot.dict, n)
  BY <1>1, <1>2 DEF CachedLabel, CachedNeighbor
<1>10. n.active => Midway(q, held, n)
  <2>1. n.active => n.cursor \in 0..(Len(EdgesOf(held, n.vertex, n.out)) - 1)
    <3>1. n.active = (l.cursor + 1 < Len(list)) /\ n.cursor = l.cursor + 1
          /\ EdgesOf(held, n.vertex, n.out) = list
      BY <1>2
    <3> HIDE DEF list
    <3>2. n.active => l.cursor + 1 \in 0..(Len(list) - 1)
      BY <1>3, <1>7, <3>1, StillInside
    <3> QED
      BY <3>1, <3>2
  <2> QED
    BY <1>2, <1>3, <1>7, <2>1 DEF Midway
<1>11. row \in ExpandedRow
  BY <1>1, <1>5, <1>7, EdgeReadExact
<1>12. n.chunk \in Seq(ExpandedRow)
  BY <1>1, <1>11
<1>13. AllLabelled(q, n.chunk, n.label)
  <2>1. CASE Emits(held, l)
    <3>1. /\ Len(n.chunk) = Len(l.chunk) + 1 /\ n.chunk[Len(l.chunk) + 1] = row /\ Len(l.chunk) \in Nat
          /\ \A i \in 1..Len(l.chunk) : n.chunk[i] = l.chunk[i]
      BY <1>1, <1>11, <2>1, AppendedTo
    <3>2. row.chunk = l.at /\ row.row = l.current
      BY DEF RowRead
    <3>3. q[row.chunk][row.row].label = n.label
      BY <1>2, <1>3, <3>2
    <3>4. \A i \in 1..Len(l.chunk) : q[l.chunk[i].chunk][l.chunk[i].row].label = n.label
      BY <1>1, <1>2 DEF AllLabelled
    <3> HIDE DEF row
    <3>5. 1..Len(n.chunk) = 1..Len(l.chunk) \cup {Len(l.chunk) + 1}
      BY <3>1
    <3> QED
      BY <3>1, <3>3, <3>4, <3>5 DEF AllLabelled
  <2>2. CASE ~Emits(held, l)
    BY ZenonT(40), <1>1, <1>2, <2>2 DEF AllLabelled
  <2> QED
    BY <2>1, <2>2
<1>14. /\ ~Due(g, q, held, l, row)
       /\ \A x : Due(g, q, held, n, x) <=> Due(g, q, held, l, x) \/ (Emits(held, l) /\ x = row)
  <2>1. n.cursor = l.cursor + 1 /\ n.active = (l.cursor + 1 < Len(EdgesOf(held, l.vertex, l.out)))
    OBVIOUS
  <2> QED
    BY <1>1, <1>2, <1>7, <2>1, DueNext
<1>15. Exact(g, q, held, n, RowsOut(out) \o n.chunk)
  <2> DEFINE before == RowsOut(out)
             rows == before \o l.chunk
  <2>1. before \in Seq(ExpandedRow)
    BY <1>1, RowsOutTyped
  <2>2. rows \in Seq(ExpandedRow)
    BY <1>1, <2>1
  <2>3. CASE Emits(held, l)
    <3>1. before \o n.chunk = Append(rows, row)
      <4> HIDE DEF row, before
      <4>1. n.chunk = Append(l.chunk, row)
        BY <2>3 DEF row
      <4>2. l.chunk \in Seq(ExpandedRow)
        BY <1>1
      <4>3. before \o Append(l.chunk, row) = Append(before \o l.chunk, row)
        BY <1>11, <2>1, <4>2, AppendToBoth
      <4> QED
        BY <4>1, <4>3, Zenon
    <3>2. \A x : Due(g, q, held, n, x) <=> Due(g, q, held, l, x) \/ x = row
      BY <1>14, <2>3
    <3>3. Exact(g, q, held, l, rows)
      BY <1>1
    <3>4. Exact(g, q, held, n, Append(rows, row))
      <4> HIDE DEF row, rows
      <4> QED
        BY <1>11, <1>14, <2>2, <3>2, <3>3, ExactMore
    <3> QED
      BY <3>1, <3>4
  <2>4. CASE ~Emits(held, l)
    <3>1. n.chunk = l.chunk
      BY <2>4
    <3>2. \A x : Due(g, q, held, n, x) <=> Due(g, q, held, l, x)
      BY <1>14, <2>4
    <3> QED
      BY <1>1, <3>1, <3>2 DEF Exact
  <2> QED
    BY <2>3, <2>4
<1> QED
  BY <1>1, <1>2, <1>8, <1>9, <1>10, <1>12, <1>13, <1>15 DEF Streamed

(* A call returns its chunk; the next one goes on in the same input chunk, or with the next. *)
LEMMA ReturnStreams ==
  ASSUME NEW g, NEW q, NEW held, NEW l, NEW out, Expands(g, q, held), Streamed(g, q, held, l, out), l.ready,
         NEW n, NEW new, n.chunk = <<>>, n.labelChanged \in BOOLEAN,
         new = IF l.chunk = <<>> THEN out ELSE Append(out, [label |-> l.label, rows |-> l.chunk]),
         \/ Same(l, n, {"chunk", "labelChanged"})
         \/ /\ ~l.active /\ ~(l.next <= Len(q[l.at]))
            /\ Same(l, n, {"chunk", "ready", "at", "labelChanged"}) /\ n.ready = FALSE /\ n.at = l.at + 1
  PROVE  Streamed(g, q, held, n, new)
<1>1. /\ DOMAIN l = DOMAIN ExpandLocal /\ Positions(q, l)
      /\ CachedLabel(held.snapshot.dict, l) /\ CachedNeighbor(held.snapshot.dict, l)
      /\ l.active => Midway(q, held, l)
      /\ l.chunk \in Seq(ExpandedRow) /\ AllLabelled(q, l.chunk, l.label)
      /\ out \in Seq(Returned)
      /\ \A k \in 1..Len(out) : AllLabelled(q, out[k].rows, out[k].label)
      /\ Exact(g, q, held, l, RowsOut(out) \o l.chunk)
  BY DEF Streamed
<1>2. /\ DOMAIN n = DOMAIN ExpandLocal
      /\ n.op = l.op /\ n.out = l.out /\ n.label = l.label /\ n.labelId = l.labelId
      /\ n.neighbor = l.neighbor /\ n.filter = l.filter /\ n.neighborExists = l.neighborExists
      /\ n.neighborIds = l.neighborIds /\ n.next = l.next /\ n.active = l.active /\ n.cursor = l.cursor
      /\ n.current = l.current /\ n.vertex = l.vertex /\ n.id = l.id
  BY <1>1, ExpandFields DEF Same
<1>3. \/ n.at = l.at /\ n.ready = l.ready
      \/ n.at = l.at + 1 /\ n.ready = FALSE /\ ~l.active /\ ~(l.next <= Len(q[l.at]))
  BY <1>1, ExpandFields DEF Same
<1>4. Len(q) \in Nat /\ \A c \in 1..Len(q) : Len(q[c]) \in Nat
  BY RequestRows
<1>5. /\ l.op = "expand" /\ l.label \in STRING \cup {Null} /\ l.at \in 1..Len(q)
      /\ {l.ready, l.active, l.out, l.filter, l.neighborExists, l.labelChanged} \subseteq BOOLEAN
      /\ l.next \in Nat \ {0} /\ l.next <= Len(q[l.at]) + 1
  <2>1. l.at \in 1..(Len(q) + 1) /\ l.at <= Len(q)
    BY <1>1 DEF Positions
  <2>2. l.at \in 1..Len(q)
    BY <1>4, <2>1
  <2> QED
    BY <1>1, <2>2 DEF Positions
<1>6. Positions(q, n)
  <2>0. l.at \in 1..(Len(q) + 1) /\ l.at + 1 \in 1..(Len(q) + 1) /\ l.at <= Len(q)
    BY <1>4, <1>5, OneUp
  <2>1. n.at \in 1..(Len(q) + 1)
    BY <1>3, <2>0
  <2>2. n.ready => n.at = l.at /\ n.at <= Len(q)
    BY <1>3, <2>0
  <2>3. ~n.ready => ~n.active
    BY <1>2, <1>3
  <2>4. {n.ready, n.active, n.out, n.filter, n.neighborExists, n.labelChanged} \subseteq BOOLEAN
    BY <1>2, <1>3, <1>5
  <2> QED
    BY <1>2, <1>5, <2>1, <2>2, <2>3, <2>4 DEF Positions
<1>7. CachedLabel(held.snapshot.dict, n) /\ CachedNeighbor(held.snapshot.dict, n)
  BY <1>1, <1>2 DEF CachedLabel, CachedNeighbor
<1>8. n.active => Midway(q, held, n)
  BY <1>1, <1>2, <1>3 DEF Midway
<1>9. n.chunk \in Seq(ExpandedRow) /\ AllLabelled(q, n.chunk, n.label)
  <2>1. n.chunk = <<>> /\ Len(n.chunk) = 0
    OBVIOUS
  <2> QED
    BY <2>1 DEF AllLabelled
<1>10. SameDue(g, q, held, l, n)
  <2>1. ASSUME NEW c \in 1..Len(q), NEW r \in 1..Len(q[c]), NEW id
        PROVE  Done(held, l, c, r, id) <=> Done(held, n, c, r, id)
    <3>1. Behind(held, l, id) <=> Behind(held, n, id)
      BY <1>2 DEF Behind
    <3>2. CASE n.at = l.at /\ n.ready = l.ready
      BY <1>2, <3>1, <3>2 DEF Done
    <3>3. CASE n.at = l.at + 1 /\ n.ready = FALSE /\ ~l.active /\ ~(l.next <= Len(q[l.at]))
      <4>1. c < n.at <=> c < l.at \/ c = l.at
        BY <1>5, <3>3
      <4>2. c = l.at => r < l.next
        BY <1>4, <1>5, <3>3
      <4> QED
        BY <3>3, <4>1, <4>2 DEF Done
    <3> QED
      BY <1>3, <3>2, <3>3
  <2> QED
    BY <2>1 DEF SameDue
<1> DEFINE x == [label |-> l.label, rows |-> l.chunk]
<1>11. x \in Returned /\ x.rows = l.chunk /\ x.label = l.label
  BY <1>1, <1>5 DEF Returned
<1>12. new \in Seq(Returned)
  BY <1>1, <1>11
<1>13. ASSUME NEW k \in 1..Len(new) PROVE AllLabelled(q, new[k].rows, new[k].label)
  <2>1. CASE l.chunk = <<>>
    BY <1>1, <1>13, <2>1
  <2>2. CASE l.chunk # <<>>
    <3> HIDE DEF x
    <3>1. /\ Len(out) \in Nat /\ Len(new) = Len(out) + 1 /\ new[Len(out) + 1] = x
          /\ \A i \in 1..Len(out) : new[i] = out[i]
      <4>1. new = Append(out, x)
        BY <2>2 DEF x
      <4> QED
        BY <1>1, <1>11, <4>1, AppendedTo
    <3>2. k \in 1..Len(out) \/ k = Len(out) + 1
      BY <1>13, <3>1
    <3> QED
      BY <1>1, <1>11, <3>1, <3>2
  <2> QED
    BY <2>1, <2>2
<1>14. RowsOut(new) \o n.chunk = RowsOut(out) \o l.chunk
  <2>1. RowsOut(out) \in Seq(ExpandedRow) /\ RowsOut(new) \in Seq(ExpandedRow)
    BY <1>1, <1>12, RowsOutTyped
  <2>2. RowsOut(new) \o n.chunk = RowsOut(new)
    BY <2>1
  <2>3. CASE l.chunk = <<>>
    BY <2>2, <2>3
  <2>4. CASE l.chunk # <<>>
    <3> HIDE DEF x
    <3>1. new = Append(out, x)
      BY <2>4 DEF x
    <3> QED
      BY <1>1, <1>11, <2>2, <3>1, RowsOutAppend
  <2> QED
    BY <2>3, <2>4
<1>15. Exact(g, q, held, n, RowsOut(new) \o n.chunk)
  BY <1>1, <1>10, <1>14, ExactKept
<1> QED
  BY <1>2, <1>6, <1>7, <1>8, <1>9, <1>12, <1>13, <1>15 DEF Streamed

-----------------------------------------------------------------------------
(* The actions of gql_csr_expand. *)

(* A new local state, whatever graph and lease it is given. *)
LEMMA StartStreams ==
  ASSUME NEW g, NEW q, NEW held, Expands(g, q, held)
  PROVE  Streamed(g, q, held, ExpandLocal, <<>>)
<1> DEFINE l == ExpandLocal
<1>1. /\ l.op = "expand" /\ l.at = 1 /\ l.ready = FALSE /\ l.next = 1 /\ l.active = FALSE /\ l.out = TRUE
      /\ l.label = Null /\ l.labelId = 0 /\ l.neighbor = <<>> /\ l.filter = FALSE /\ l.neighborExists = TRUE
      /\ l.chunk = <<>> /\ l.labelChanged = FALSE
  BY DEF ExpandLocal
<1> HIDE DEF l
<1>2. Len(q) \in Nat /\ \A c \in 1..Len(q) : Len(q[c]) \in Nat
  BY RequestRows
<1>3. Positions(q, l)
  <2>1. 1 \in 1..(Len(q) + 1) /\ 1 \in Nat \ {0}
    BY <1>2
  <2>2. {l.ready, l.active, l.out, l.filter, l.neighborExists, l.labelChanged} \subseteq BOOLEAN
    BY <1>1
  <2> QED
    BY <1>1, <2>1, <2>2 DEF Positions
<1>4. CachedLabel(held.snapshot.dict, l)
  <2>1. IsDict(held.snapshot.dict)
    BY DEF Expands, LeaseDescribes
  <2>2. Null \notin STRING
    BY ReaderAssumption
  <2>3. FindLabel(held.snapshot.dict, Null) = {}
    BY <2>1, <2>2 DEF FindLabel, IsDict
  <2> QED
    BY <1>1, <2>3 DEF CachedLabel
<1>5. CachedNeighbor(held.snapshot.dict, l)
  BY <1>1 DEF CachedNeighbor
<1>6. l.chunk \in Seq(ExpandedRow) /\ AllLabelled(q, l.chunk, l.label)
  BY <1>1 DEF AllLabelled
<1>7. <<>> \in Seq(Returned) /\ Len(<<>>) = 0
  OBVIOUS
<1>8. RowsOut(<<>>) \o l.chunk = <<>>
  <2> DEFINE s == [k \in 1..Len(<<>>) |-> <<>>[k].rows]
  <2>1. s = <<>>
    BY <1>7
  <2> HIDE DEF s
  <2>2. FlattenSeq(s) = s
    BY <2>1, FlattenEmpty
  <2>3. RowsOut(<<>>) = <<>>
    BY <2>1, <2>2 DEF RowsOut, s
  <2> QED
    BY <1>1, <2>3
<1>9. Exact(g, q, held, l, <<>>)
  <2>1. ASSUME NEW c \in 1..Len(q), NEW r \in 1..Len(q[c]), NEW id PROVE ~Done(held, l, c, r, id)
    BY <1>1, <1>2 DEF Done
  <2>2. \A x : ~Due(g, q, held, l, x)
    BY <2>1 DEF Due
  <2> QED
    BY <1>7, <2>2 DEF Exact
<1> QED
  BY <1>1, <1>3, <1>4, <1>5, <1>6, <1>7, <1>8, <1>9 DEF Streamed, l

(* Taking the next chunk of input keeps what was returned exact. *)
LEMMA ExpandInputStreams ==
  ASSUME Expands(graph, request, lease), Streamed(graph, request, lease, local, output), ExpandInput
  PROVE  Streamed(graph, request, lease, local', output')
<1>1. /\ ~local.ready /\ ~Answered /\ output' = output
      /\ local' = [local EXCEPT !.ready = TRUE, !.next = 1, !.active = FALSE]
  BY DEF ExpandInput
<1>2. DOMAIN local = DOMAIN ExpandLocal
  BY DEF Streamed
<1>3. /\ Same(local, local', {"ready", "next", "active"})
      /\ local'.ready = TRUE /\ local'.next = 1 /\ local'.active = FALSE
  BY <1>1, <1>2, ExpandFields DEF Same
<1>4. local.at <= Len(request)
  <2>1. Len(request) \in Nat
    BY RequestRows
  <2>2. local.at \in 1..(Len(request) + 1)
    BY DEF Streamed, Positions
  <2> QED
    BY <1>1, <2>1, <2>2 DEF Answered
<1>5. Streamed(graph, request, lease, local', output)
  BY <1>1, <1>3, <1>4, InputStreams
<1> QED
  BY <1>1, <1>5

(* The labels of a row that goes on in this chunk are looked up. *)
LEMMA LabelsLookedUp ==
  ASSUME Expands(graph, request, lease), NEW l, NEW out, Streamed(graph, request, lease, l, out), ~l.active,
         NEW row \in ExpandRow, l.chunk = <<>> \/ row.label = l.label,
         NEW n, n = WithNeighborLabels(WithEdgeLabel([l EXCEPT !.out = row.out], row), row)
  PROVE  /\ Streamed(graph, request, lease, n, out)
         /\ Same(l, n, {"out", "label", "labelId", "neighbor", "filter", "neighborExists", "neighborIds"})
         /\ n.out = row.out /\ n.label = row.label /\ n.neighbor = row.neighbor
<1> DEFINE dict == lease.snapshot.dict
           turned == [l EXCEPT !.out = row.out]
           labelled == WithEdgeLabel(turned, row)
<1>1. /\ DOMAIN l = DOMAIN ExpandLocal /\ Positions(request, l)
      /\ CachedLabel(dict, l) /\ CachedNeighbor(dict, l)
  BY DEF Streamed
<1>2. row.out \in BOOLEAN /\ row.label \in STRING
  BY DEF ExpandRow
<1>3. {l.filter, l.neighborExists, l.labelChanged} \subseteq BOOLEAN
  BY <1>1 DEF Positions
<1>4. Same(l, turned, {"out"}) /\ turned.out = row.out
  BY <1>1, ExpandFields DEF Same
<1> HIDE DEF turned
<1>5. DOMAIN turned = DOMAIN ExpandLocal /\ turned.label = l.label /\ turned.labelId = l.labelId
  BY <1>1, <1>4, ExpandFields DEF Same
<1>6. /\ Same(turned, labelled, {"label", "labelId"}) /\ labelled.label = row.label
      /\ CachedLabel(dict, labelled)
  <2>1. CASE row.label = turned.label
    <3>1. labelled = turned
      BY <2>1 DEF WithEdgeLabel
    <3> QED
      BY <1>1, <1>5, <2>1, <3>1 DEF Same, CachedLabel
  <2>2. CASE row.label # turned.label
    <3> DEFINE id == IF FindLabel(dict, row.label) = {} THEN 0 ELSE CHOOSE i \in FindLabel(dict, row.label) : TRUE
    <3>1. labelled = [turned EXCEPT !.label = row.label, !.labelId = id]
      BY <2>2 DEF WithEdgeLabel
    <3>2. FindLabel(dict, row.label) # {} => id \in FindLabel(dict, row.label)
      OBVIOUS
    <3>3. FindLabel(dict, row.label) = {} => id = 0
      OBVIOUS
    <3> HIDE DEF id, labelled
    <3>4. labelled.label = row.label /\ labelled.labelId = id /\ Same(turned, labelled, {"label", "labelId"})
      BY <1>5, <3>1, ExpandFields DEF Same
    <3> QED
      BY <3>2, <3>3, <3>4 DEF CachedLabel
  <2> QED
    BY <2>1, <2>2
<1> HIDE DEF labelled
<1>7. /\ DOMAIN labelled = DOMAIN ExpandLocal
      /\ labelled.neighbor = l.neighbor /\ labelled.filter = l.filter
      /\ labelled.neighborExists = l.neighborExists /\ labelled.neighborIds = l.neighborIds
  BY <1>1, <1>4, <1>5, <1>6, ExpandFields DEF Same
<1>8. n = WithNeighborLabels(labelled, row)
  BY DEF labelled, turned
<1>9. /\ Same(labelled, n, {"neighbor", "filter", "neighborExists", "neighborIds"}) /\ n.neighbor = row.neighbor
      /\ CachedNeighbor(dict, n) /\ {n.filter, n.neighborExists} \subseteq BOOLEAN
  <2>1. CASE row.neighbor = <<>>
    <3>1. n = [labelled EXCEPT !.neighbor = <<>>, !.filter = FALSE, !.neighborExists = TRUE]
      BY <1>8, <2>1 DEF WithNeighborLabels
    <3>2. /\ n.neighbor = <<>> /\ n.filter = FALSE /\ n.neighborExists = TRUE
          /\ Same(labelled, n, {"neighbor", "filter", "neighborExists", "neighborIds"})
      BY <1>7, <3>1, ExpandFields DEF Same
    <3> QED
      BY <2>1, <3>2 DEF CachedNeighbor
  <2>2. CASE row.neighbor # <<>> /\ row.neighbor = labelled.neighbor
    <3>1. n = labelled
      BY <1>8, <2>2 DEF WithNeighborLabels, WithLastNeighborLabels
    <3> QED
      BY <1>1, <1>3, <1>7, <2>2, <3>1 DEF Same, CachedNeighbor
  <2>3. CASE row.neighbor # <<>> /\ row.neighbor # labelled.neighbor
    <3> DEFINE exists == \A label \in ToSet(row.neighbor) : FindLabel(dict, label) # {}
               ids == UNION {FindLabel(dict, label) : label \in ToSet(row.neighbor)}
    <3>1. n = [labelled EXCEPT !.neighbor = row.neighbor, !.filter = TRUE, !.neighborExists = exists, !.neighborIds = ids]
      BY <1>8, <2>3 DEF WithNeighborLabels, WithLastNeighborLabels
    <3>2. exists \in BOOLEAN
      OBVIOUS
    <3> HIDE DEF exists, ids
    <3>3. /\ n.neighbor = row.neighbor /\ n.filter = TRUE /\ n.neighborExists = exists /\ n.neighborIds = ids
          /\ Same(labelled, n, {"neighbor", "filter", "neighborExists", "neighborIds"})
      BY <1>7, <3>1, ExpandFields DEF Same
    <3> QED
      BY <2>3, <3>2, <3>3 DEF CachedNeighbor, exists, ids
  <2> QED
    BY <2>1, <2>2, <2>3
<1>10. /\ DOMAIN n = DOMAIN ExpandLocal
       /\ n.out = row.out /\ n.label = row.label /\ n.labelId = labelled.labelId /\ n.labelChanged = l.labelChanged
  BY <1>1, <1>4, <1>5, <1>6, <1>7, <1>9, ExpandFields DEF Same
<1>11. Same(l, n, {"out", "label", "labelId", "neighbor", "filter", "neighborExists", "neighborIds"})
  BY <1>1, <1>4, <1>5, <1>6, <1>7, <1>9, <1>10, ExpandFields DEF Same
<1>12. CachedLabel(dict, n)
  BY <1>6, <1>10 DEF CachedLabel
<1>13. Same(l, n, {"out", "label", "labelId", "neighbor", "filter", "neighborExists", "neighborIds", "labelChanged"})
  BY <1>11 DEF Same
<1>14. /\ {n.out, n.filter, n.neighborExists, n.labelChanged} \subseteq BOOLEAN
       /\ n.label \in STRING \cup {Null} /\ (l.chunk = <<>> \/ n.label = l.label)
  BY <1>2, <1>3, <1>9, <1>10
<1>15. Streamed(graph, request, lease, n, out)
  BY <1>9, <1>12, <1>13, <1>14, IdleStreams
<1> QED
  BY <1>9, <1>10, <1>11, <1>15

(* The next row is passed over, or becomes the current one. *)
LEMMA RangeStreams ==
  ASSUME Expands(graph, request, lease), NEW l, NEW out, Streamed(graph, request, lease, l, out),
         l.ready, ~l.active, l.next <= Len(request[l.at]),
         NEW row, row = request[l.at][l.next], row.given,
         l.out = row.out, l.label = row.label, l.neighbor = row.neighbor,
         NEW n, n = WithRange(l, row)
  PROVE  Streamed(graph, request, lease, n, out)
<1> DEFINE dict == lease.snapshot.dict
<1>1. /\ DOMAIN l = DOMAIN ExpandLocal /\ Positions(request, l)
      /\ CachedLabel(dict, l) /\ CachedNeighbor(dict, l)
  BY DEF Streamed
<1>2. /\ Len(request) \in Nat
      /\ \A c \in 1..Len(request) : /\ Len(request[c]) \in Nat
                                    /\ \A r \in 1..Len(request[c]) : request[c][r] \in ExpandRow
  BY RequestRows
<1>3. l.at \in 1..Len(request) /\ l.next \in 1..Len(request[l.at])
  <2>1. l.at \in 1..(Len(request) + 1) /\ l.at <= Len(request) /\ l.next \in Nat \ {0}
    BY <1>1 DEF Positions
  <2>2. l.at \in 1..Len(request)
    BY <1>2, <2>1
  <2>3. Len(request[l.at]) \in Nat
    BY <1>2, <2>2
  <2> QED
    BY <2>1, <2>2, <2>3
<1>4. row \in ExpandRow
  BY <1>2, <1>3
<1>5. IsGraph(graph) /\ LeaseDescribes(lease, graph.vertices, graph.edges)
  BY DEF Expands
<1>6. Skipped(lease, row) => Asked(graph, request, l.at, l.next) = {}
  BY <1>4, <1>5, SkippedAsksNothing
<1>7. CASE row.vertex = Null \/ OrdinalIn(lease, row.vertex) = {}
  <2>1. n = [l EXCEPT !.next = @ + 1]
    BY <1>7 DEF WithRange
  <2>2. /\ Same(l, n, {"next", "active", "current", "vertex", "id", "cursor"})
        /\ n.next = l.next + 1 /\ n.active = l.active
    BY <1>1, <2>1, ExpandFields DEF Same
  <2>3. l.active \in BOOLEAN
    BY <1>1 DEF Positions
  <2>4. Asked(graph, request, l.at, l.next) = {}
    BY <1>6, <1>7 DEF Skipped
  <2> QED
    BY <2>2, <2>3, <2>4, RowStreams
<1>8. CASE ~(row.vertex = Null \/ OrdinalIn(lease, row.vertex) = {})
  <2> DEFINE o == CHOOSE o \in OrdinalIn(lease, row.vertex) : TRUE
             begun == [l EXCEPT !.next = @ + 1, !.current = l.next, !.vertex = o, !.id = row.vertex, !.cursor = 0]
             active == l.labelId # 0 /\ (l.filter => l.neighborExists) /\ HasMore(begun)
  <2>1. o \in OrdinalIn(lease, row.vertex)
    BY <1>8
  <2>2. n = [begun EXCEPT !.active = active]
    BY <1>8 DEF WithRange
  <2> HIDE DEF o
  <2>3. /\ DOMAIN begun = DOMAIN ExpandLocal
        /\ Same(l, begun, {"next", "current", "vertex", "id", "cursor"})
        /\ begun.next = l.next + 1 /\ begun.current = l.next /\ begun.vertex = o /\ begun.id = row.vertex
        /\ begun.cursor = 0
    BY <1>1, ExpandFields DEF Same
  <2>4. begun.out = row.out
    BY <1>1, <2>3, ExpandFields DEF Same
  <2>5. HasMore(begun) <=> 0 < Len(EdgesOf(lease, o, row.out))
    BY <2>3, <2>4 DEF HasMore
  <2>6. active \in BOOLEAN
    OBVIOUS
  <2> DEFINE isActive == active
  <2>7. isActive <=> l.labelId # 0 /\ (l.filter => l.neighborExists) /\ 0 < Len(EdgesOf(lease, o, row.out))
    BY <2>5
  <2>8. n = [begun EXCEPT !.active = isActive] /\ isActive \in BOOLEAN
    BY <2>2, <2>6
  <2> HIDE DEF isActive, begun, active
  <2>9. /\ Same(l, n, {"next", "active", "current", "vertex", "id", "cursor"})
        /\ n.next = l.next + 1 /\ n.current = l.next /\ n.vertex = o /\ n.id = row.vertex /\ n.cursor = 0
        /\ n.active = isActive
    BY <1>1, <2>3, <2>8, ExpandFields DEF Same
  <2>10. /\ n.at = l.at /\ n.ready = l.ready /\ n.out = l.out /\ n.label = l.label /\ n.labelId = l.labelId
         /\ n.neighbor = l.neighbor /\ n.filter = l.filter /\ n.neighborExists = l.neighborExists
    BY <1>1, <2>9, ExpandFields DEF Same
  <2>11. ~n.active => Asked(graph, request, l.at, l.next) = {}
    <3>1. SUFFICES ASSUME ~n.active PROVE Skipped(lease, row)
      BY <1>6
    <3>2. CASE l.labelId = 0
      <4>1. FindLabel(dict, l.label) = {}
        <5>1. ~(0 \in FindLabel(dict, l.label))
          <6>1. IsDict(dict)
            BY <1>5 DEF LeaseDescribes
          <6>2. 0 \notin 1..Len(dict)
            BY <6>1 DEF IsDict
          <6> QED
            BY <6>1, <6>2, FoundOnce
        <5> QED
          BY <1>1, <3>2, <5>1 DEF CachedLabel
      <4> QED
        BY <4>1 DEF Skipped
    <3>3. CASE l.filter /\ ~l.neighborExists
      BY <1>1, <3>3 DEF CachedNeighbor, Skipped
    <3>4. CASE ~(0 < Len(EdgesOf(lease, o, row.out)))
      BY <2>1, <3>4 DEF Skipped
    <3> QED
      BY <2>7, <2>9, <3>1, <3>2, <3>3, <3>4
  <2>12. n.active => Midway(request, lease, n)
    <3>1. SUFFICES ASSUME n.active PROVE Midway(request, lease, n)
      OBVIOUS
    <3>2. l.labelId # 0 /\ (l.filter => l.neighborExists) /\ 0 < Len(EdgesOf(lease, o, row.out))
      BY <2>7, <2>9, <3>1
    <3>3. row.vertex \in Nat
      BY <1>4, <1>8 DEF ExpandRow
    <3>4. row.out \in BOOLEAN
      BY <1>4 DEF ExpandRow
    <3>5. Len(EdgesOf(lease, o, row.out)) \in Nat
      <4>1. ListsAt(EdgesOf(lease, o, row.out), ToSet(graph.edges), row.vertex, dict, IdsIn(lease), row.out)
        BY <1>5, <2>1, <3>3, <3>4, ListRead
      <4> QED
        BY <4>1 DEF ListsAt
    <3>6. 0 \in 0..(Len(EdgesOf(lease, o, row.out)) - 1)
      BY <3>2, <3>5
    <3>7. request[n.at][n.current] = row /\ n.current \in 1..Len(request[n.at])
      BY <1>3, <2>9, <2>10
    <3>8. EdgesOf(lease, n.vertex, n.out) = EdgesOf(lease, o, row.out) /\ n.vertex \in OrdinalIn(lease, n.id)
      BY <2>1, <2>9, <2>10
    <3>9. /\ row.given /\ row.vertex = n.id /\ row.out = n.out /\ row.label = n.label /\ row.neighbor = n.neighbor
          /\ n.ready /\ n.next = n.current + 1 /\ n.id \in Nat /\ n.labelId # 0 /\ (n.filter => n.neighborExists)
      BY <2>9, <2>10, <3>2, <3>3
    <3>10. n.cursor \in 0..(Len(EdgesOf(lease, n.vertex, n.out)) - 1)
      BY <2>9, <3>6, <3>8
    <3> QED
      BY <3>7, <3>8, <3>9, <3>10 DEF Midway
  <2>13. n.active \in BOOLEAN
    BY <2>8, <2>9
  <2> QED
    BY <2>9, <2>11, <2>12, <2>13, RowStreams
<1> QED
  BY <1>7, <1>8

(* So does beginning an input row, whether it is passed over or made the active one. *)
LEMMA ExpandBeginStreams ==
  ASSUME Expands(graph, request, lease), Streamed(graph, request, lease, local, output), ExpandBegin
  PROVE  Streamed(graph, request, lease, local', output')
<1> DEFINE row == Now[local.next]
<1>1. /\ local.ready /\ ~local.active /\ local.next <= Len(Now) /\ output' = output
      /\ \/ ~row.given /\ local' = [local EXCEPT !.next = @ + 1]
         \/ row.given /\ LabelChanges(row) /\ local' = [local EXCEPT !.labelChanged = TRUE]
         \/ /\ row.given /\ ~LabelChanges(row)
            /\ local' = WithRange(WithNeighborLabels(
                                    WithEdgeLabel([local EXCEPT !.out = row.out], row), row), row)
  BY DEF ExpandBegin
<1>2. /\ DOMAIN local = DOMAIN ExpandLocal /\ Positions(request, local)
      /\ CachedLabel(lease.snapshot.dict, local) /\ CachedNeighbor(lease.snapshot.dict, local)
  BY DEF Streamed
<1>3. /\ Len(request) \in Nat
      /\ \A c \in 1..Len(request) : /\ Len(request[c]) \in Nat
                                    /\ \A r \in 1..Len(request[c]) : request[c][r] \in ExpandRow
  BY RequestRows
<1>4. Now = request[local.at]
  BY DEF Now
<1>5. local.at \in 1..Len(request) /\ local.next \in 1..Len(Now)
  <2>1. local.at \in 1..(Len(request) + 1) /\ local.at <= Len(request) /\ local.next \in Nat \ {0}
    BY <1>1, <1>2 DEF Positions
  <2>2. local.at \in 1..Len(request)
    BY <1>3, <2>1
  <2>3. Len(Now) \in Nat
    BY <1>3, <1>4, <2>2
  <2> QED
    BY <1>1, <2>1, <2>2, <2>3
<1>6. row \in ExpandRow /\ row = request[local.at][local.next]
  BY <1>3, <1>4, <1>5
<1> HIDE DEF row
<1>7. {local.active, local.out, local.filter, local.neighborExists} \subseteq BOOLEAN
      /\ local.label \in STRING \cup {Null}
  BY <1>2 DEF Positions
<1>8. CASE ~row.given /\ local' = [local EXCEPT !.next = @ + 1]
  <2>1. /\ Same(local, local', {"next", "active", "current", "vertex", "id", "cursor"})
        /\ local'.next = local.next + 1 /\ local'.active = local.active
    BY <1>2, <1>8, ExpandFields DEF Same
  <2>2. IsGraph(graph) /\ LeaseDescribes(lease, graph.vertices, graph.edges)
    BY DEF Expands
  <2>3. Asked(graph, request, local.at, local.next) = {}
    BY <1>6, <1>8 DEF Asked
  <2>4. local.next <= Len(request[local.at])
    BY <1>1, <1>4
  <2>5. Streamed(graph, request, lease, local', output)
    BY <1>1, <1>7, <2>1, <2>3, <2>4, RowStreams
  <2> QED
    BY <1>1, <2>5
<1>9. CASE row.given /\ LabelChanges(row) /\ local' = [local EXCEPT !.labelChanged = TRUE]
  <2>1. Same(local, local', {"labelChanged"}) /\ local'.labelChanged = TRUE
    BY <1>2, <1>9, ExpandFields DEF Same
  <2>2. /\ local'.out = local.out /\ local'.label = local.label /\ local'.labelId = local.labelId
        /\ local'.neighbor = local.neighbor /\ local'.filter = local.filter
        /\ local'.neighborExists = local.neighborExists /\ local'.neighborIds = local.neighborIds
    BY <1>2, <2>1, ExpandFields DEF Same
  <2>3. CachedLabel(lease.snapshot.dict, local') /\ CachedNeighbor(lease.snapshot.dict, local')
    BY <1>2, <2>2 DEF CachedLabel, CachedNeighbor
  <2>4. Same(local, local', {"out", "label", "labelId", "neighbor", "filter", "neighborExists", "neighborIds", "labelChanged"})
    BY <2>1 DEF Same
  <2>5. Streamed(graph, request, lease, local', output)
    <3>1. {local'.out, local'.filter, local'.neighborExists, local'.labelChanged} \subseteq BOOLEAN
          /\ local'.label \in STRING \cup {Null}
      BY <1>7, <2>1, <2>2
    <3> QED
      BY <1>1, <2>2, <2>3, <2>4, <3>1, IdleStreams
  <2> QED
    BY <1>1, <2>5
<1>10. CASE /\ row.given /\ ~LabelChanges(row)
            /\ local' = WithRange(WithNeighborLabels(
                                    WithEdgeLabel([local EXCEPT !.out = row.out], row), row), row)
  <2> DEFINE found == WithNeighborLabels(WithEdgeLabel([local EXCEPT !.out = row.out], row), row)
  <2>1. local.chunk = <<>> \/ row.label = local.label
    BY <1>10 DEF LabelChanges
  <2>2. found = WithNeighborLabels(WithEdgeLabel([local EXCEPT !.out = row.out], row), row)
        /\ local' = WithRange(found, row)
    BY <1>10
  <2> HIDE DEF found
  <2>3. /\ Streamed(graph, request, lease, found, output)
        /\ Same(local, found, {"out", "label", "labelId", "neighbor", "filter", "neighborExists", "neighborIds"})
        /\ found.out = row.out /\ found.label = row.label /\ found.neighbor = row.neighbor
    BY SMTT(40), <1>1, <1>6, <2>1, <2>2, LabelsLookedUp
  <2>4. found.at = local.at /\ found.next = local.next /\ found.ready = local.ready /\ found.active = local.active
    BY <1>2, <2>3, ExpandFields DEF Same
  <2>5. Streamed(graph, request, lease, local', output)
    <3>1. found.next <= Len(request[found.at]) /\ row = request[found.at][found.next]
      BY <1>1, <1>4, <1>6, <2>4
    <3> QED
      BY <1>1, <1>10, <2>2, <2>3, <2>4, <3>1, RangeStreams
  <2> QED
    BY <1>1, <2>5
<1> QED
  BY <1>1, <1>8, <1>9, <1>10

(* So does one edge: it is returned or refused as its row of the tables asks. *)
LEMMA ExpandEdgeStreams ==
  ASSUME Expands(graph, request, lease), Streamed(graph, request, lease, local, output), ExpandEdge
  PROVE  Streamed(graph, request, lease, local', output')
<1> DEFINE edge == EdgesOf(lease, local.vertex, local.out)[local.cursor + 1]
           other == VertexIdIn(lease, edge.neighbor)
           matches == /\ edge.label = local.labelId
                      /\ local.filter => CsrVertexHasLabels(lease, edge.neighbor, local.neighborIds)
           row == [chunk |-> local.at, row |-> local.current, edge |-> edge.id,
                   source |-> IF local.out THEN local.id ELSE other,
                   target |-> IF local.out THEN other ELSE local.id]
           moved == [local EXCEPT !.cursor = @ + 1, !.chunk = IF matches THEN Append(@, row) ELSE @]
<1>1. local.active /\ output' = output /\ local' = [moved EXCEPT !.active = HasMore(moved)]
  BY DEF ExpandEdge
<1>2. DOMAIN local = DOMAIN ExpandLocal
  BY DEF Streamed
<1>3. (matches <=> Emits(lease, local)) /\ row = RowRead(lease, local)
  BY DEF Emits, RowRead, EdgeRead
<1> HIDE DEF row, matches
<1>4. /\ Same(local, moved, {"cursor", "chunk"}) /\ DOMAIN moved = DOMAIN local
      /\ moved.cursor = local.cursor + 1
      /\ moved.chunk = IF matches THEN Append(local.chunk, row) ELSE local.chunk
  BY <1>2, ExpandFields DEF Same
<1> HIDE DEF moved
<1>5. moved.vertex = local.vertex /\ moved.out = local.out
  BY <1>2, <1>4, ExpandFields DEF Same
<1>6. HasMore(moved) = (local.cursor + 1 < Len(EdgesOf(lease, local.vertex, local.out)))
  BY <1>4, <1>5 DEF HasMore
<1> DEFINE more == HasMore(moved)
<1>7. local' = [moved EXCEPT !.active = more]
  BY <1>1
<1>8. more = (local.cursor + 1 < Len(EdgesOf(lease, local.vertex, local.out)))
  BY <1>6
<1> HIDE DEF more
<1>9. /\ Same(local, local', {"cursor", "chunk", "active"})
      /\ local'.cursor = local.cursor + 1 /\ local'.active = more
      /\ local'.chunk = IF matches THEN Append(local.chunk, row) ELSE local.chunk
  BY <1>2, <1>4, <1>7, ExpandFields DEF Same
<1>10. /\ local'.chunk = IF Emits(lease, local) THEN Append(local.chunk, RowRead(lease, local)) ELSE local.chunk
       /\ local'.active = (local'.cursor < Len(EdgesOf(lease, local.vertex, local.out)))
  BY <1>3, <1>8, <1>9
<1>11. Streamed(graph, request, lease, local', output)
  BY <1>1, <1>9, <1>10, EdgeStreams
<1> QED
  BY <1>1, <1>11

(* So does the return of a chunk, full or last. *)
LEMMA ExpandReturnStreams ==
  ASSUME Expands(graph, request, lease), Streamed(graph, request, lease, local, output), ExpandReturn
  PROVE  Streamed(graph, request, lease, local', output')
<1>1. /\ local.ready
      /\ output' = IF local.chunk = <<>> THEN output
                   ELSE Append(output, [label |-> local.label, rows |-> local.chunk])
      /\ local' = IF InputLeft(local) THEN [local EXCEPT !.chunk = <<>>, !.labelChanged = FALSE]
                  ELSE [local EXCEPT !.chunk = <<>>, !.ready = FALSE, !.at = @ + 1]
  BY DEF ExpandReturn
<1>2. DOMAIN local = DOMAIN ExpandLocal /\ Positions(request, local)
  BY DEF Streamed
<1>3. local.labelChanged \in BOOLEAN
  BY <1>2 DEF Positions
<1>4. CASE InputLeft(local)
  <2>1. local' = [local EXCEPT !.chunk = <<>>, !.labelChanged = FALSE]
    BY <1>1, <1>4
  <2>2. /\ Same(local, local', {"chunk", "labelChanged"})
        /\ local'.chunk = <<>> /\ local'.labelChanged = FALSE
    BY <1>2, <2>1, ExpandFields DEF Same
  <2>3. local'.chunk = <<>> /\ local'.labelChanged \in BOOLEAN
    BY <2>2
  <2> QED
    BY <1>1, <2>2, <2>3, ReturnStreams
<1>5. CASE ~InputLeft(local)
  <2>1. local' = [local EXCEPT !.chunk = <<>>, !.ready = FALSE, !.at = @ + 1]
    BY <1>1, <1>5
  <2>2. /\ Same(local, local', {"chunk", "ready", "at", "labelChanged"})
        /\ local'.chunk = <<>> /\ local'.ready = FALSE /\ local'.at = local.at + 1
        /\ local'.labelChanged = local.labelChanged
    BY <1>2, <2>1, ExpandFields DEF Same
  <2>3. ~local.active /\ ~(local.next <= Len(request[local.at]))
    BY <1>5 DEF InputLeft, Now
  <2>4. local'.chunk = <<>> /\ local'.labelChanged \in BOOLEAN
    BY <1>3, <2>2
  <2> QED
    BY <1>1, <2>2, <2>3, <2>4, ReturnStreams
<1> QED
  BY <1>4, <1>5

(* So does every step of gql_csr_expand. *)
LEMMA ExpandStreams ==
  ASSUME Expands(graph, request, lease), Streamed(graph, request, lease, local, output), ExpandNext
  PROVE  Streamed(graph, request, lease, local', output')
BY ExpandInputStreams, ExpandBeginStreams, ExpandEdgeStreams, ExpandReturnStreams DEF ExpandNext

(* The rows a row asks for are those of CsrExpand. *)
LEMMA MatchesAsked ==
  ASSUME NEW c, NEW r
  PROVE  Matches(c, r) = Asked(graph, request, c, r)
<1>1. \A id : LabelsOf(id) = LabelsAt(graph, id)
  BY DEF LabelsOf, LabelsAt, Vertices
<1>2. {e \in Edges : /\ Near(e, request[c][r].out) = request[c][r].vertex
                     /\ e.label = request[c][r].label
                     /\ ToSet(request[c][r].neighbor) \subseteq LabelsOf(Far(e, request[c][r].out))}
        = Wanted(graph, request[c][r])
  BY <1>1 DEF Wanted, Edges
<1> QED
  BY <1>2 DEF Matches, Asked, RowOf

(* What has been returned is right at every moment, and complete once all is answered. *)
LEMMA StreamedExact ==
  ASSUME Expands(graph, request, lease), Streamed(graph, request, lease, local, output)
  PROVE  ExpansionExact
<1> DEFINE rows == RowsOut(output)
           asked == UNION {UNION {Matches(c, r) : r \in DOMAIN request[c]} : c \in DOMAIN request}
           chunk == local.chunk
<1>1. /\ Positions(request, local) /\ chunk \in Seq(ExpandedRow) /\ output \in Seq(Returned)
      /\ \A k \in 1..Len(output) : AllLabelled(request, output[k].rows, output[k].label)
      /\ Exact(graph, request, lease, local, rows \o chunk)
  BY DEF Streamed
<1>2. DOMAIN request = 1..Len(request) /\ \A c \in 1..Len(request) : DOMAIN request[c] = 1..Len(request[c])
  <2>1. request \in Seq(Seq(ExpandRow))
    BY DEF Expands
  <2>2. \A c \in 1..Len(request) : request[c] \in Seq(ExpandRow)
    BY RequestRows
  <2> QED
    BY <2>1, <2>2
<1>3. \A x : x \in asked <=> \E c \in 1..Len(request) : \E r \in 1..Len(request[c]) : x \in Asked(graph, request, c, r)
  <2>1. \A c, r : Matches(c, r) = Asked(graph, request, c, r)
    BY MatchesAsked
  <2> QED
    BY <1>2, <2>1
<1>4. rows \in Seq(ExpandedRow) /\ Len(rows) \in Nat /\ DOMAIN rows = 1..Len(rows)
  BY <1>1, RowsOutTyped
<1>5. DOMAIN output = 1..Len(output) /\ Len(output) \in Nat
  BY <1>1
<1>6. FlattenSeq([k \in DOMAIN output |-> output[k].rows]) = rows
  BY <1>5 DEF RowsOut
<1> HIDE DEF rows, asked, chunk
<1>7. \A i \in 1..Len(rows) : (rows \o chunk)[i] = rows[i] /\ i \in 1..Len(rows \o chunk)
  BY <1>1, <1>4
<1>8. /\ \A i, j \in 1..Len(rows \o chunk) : (rows \o chunk)[i] = (rows \o chunk)[j] => i = j
      /\ \A x : (\E i \in 1..Len(rows \o chunk) : (rows \o chunk)[i] = x) <=> Due(graph, request, lease, local, x)
  BY <1>1 DEF Exact
<1>9. \A x : x \in ToSet(rows) <=> \E i \in 1..Len(rows) : rows[i] = x
  BY <1>4 DEF ToSet
<1>10. \A x : Due(graph, request, lease, local, x) => x \in asked
  BY <1>3 DEF Due
<1>11. ToSet(rows) \subseteq asked
  BY <1>7, <1>8, <1>9, <1>10
<1>12. IsInjective(rows)
  BY <1>4, <1>7, <1>8 DEF IsInjective
<1>13. \A k \in DOMAIN output : \A x \in ToSet(output[k].rows) : request[x.chunk][x.row].label = output[k].label
  <2>1. SUFFICES ASSUME NEW k \in DOMAIN output, NEW x \in ToSet(output[k].rows)
                 PROVE  request[x.chunk][x.row].label = output[k].label
    OBVIOUS
  <2>2. k \in 1..Len(output) /\ AllLabelled(request, output[k].rows, output[k].label)
    BY <1>1, <1>5
  <2>3. output[k].rows \in Seq(ExpandedRow)
    <3>1. output[k] \in Returned
      BY <1>1, <2>2
    <3> QED
      BY <3>1 DEF Returned
  <2>4. PICK i \in 1..Len(output[k].rows) : x = output[k].rows[i]
    BY <2>3 DEF ToSet
  <2> QED
    BY <2>2, <2>4 DEF AllLabelled
<1>14. Answered => ToSet(rows) = asked
  <2>1. SUFFICES ASSUME Answered PROVE \A x \in asked : x \in ToSet(rows)
    BY <1>11
  <2>2. Len(request) \in Nat /\ local.at \in 1..(Len(request) + 1) /\ ~(local.at <= Len(request))
    <3>1. Len(request) \in Nat
      BY RequestRows
    <3>2. local.at \in 1..(Len(request) + 1)
      BY <1>1 DEF Positions
    <3> QED
      BY <2>1, <3>1, <3>2 DEF Answered
  <2>3. chunk = <<>>
    BY <1>1, <2>2 DEF Positions, chunk
  <2>4. rows \o chunk = rows
    BY <1>4, <2>3
  <2>5. \A c \in 1..Len(request) : c < local.at
    BY <2>2
  <2>6. \A x \in asked : Due(graph, request, lease, local, x)
    BY <1>3, <2>5 DEF Due, Done
  <2> QED
    BY <1>8, <1>9, <2>4, <2>6
<1> QED
  BY <1>6, <1>11, <1>12, <1>13, <1>14 DEF ExpansionExact, asked

-----------------------------------------------------------------------------
(* The strengthened invariant: an expansion starts anew, and streams once it has its lease. *)
ExpandInv ==
  /\ Base
  /\ local.op = "expand" =>
        /\ request \in Seq(Seq(ExpandRow))
        /\ ~Acquired => local = ExpandLocal /\ output = <<>>
        /\ Acquired => Streamed(graph, request, lease, local, output)

(* The invariant of gql_csr_expand holds at the beginning, *)
LEMMA ExpandInvInit ==
  ASSUME Init
  PROVE  ExpandInv
<1>1. PICK kind \in DOMAIN Cases : \E case \in Cases[kind] : graph = case.graph /\ request = case.request /\ local = case.local
  BY DEF Init
<1>2. PICK case \in Cases[kind] : graph = case.graph /\ request = case.request /\ local = case.local
  BY <1>1
<1>3. local.op = "expand" => local = ExpandLocal /\ request \in Seq(Seq(ExpandRow))
  BY <1>2, CasesAssumption
<1>4. lease = NoLease /\ output = <<>> /\ Base
  BY BaseInit DEF Init
<1> QED
  BY <1>3, <1>4 DEF ExpandInv, Acquired

(* and every step keeps it. *)
LEMMA ExpandInvStep ==
  ASSUME ExpandInv, [Next]_vars
  PROVE  ExpandInv'
<1>1. Base /\ Base'
  BY BaseStep DEF ExpandInv
<1>2. CASE UNCHANGED vars
  <2>1. graph' = graph /\ request' = request /\ lease' = lease /\ local' = local /\ output' = output
    BY <1>2 DEF vars
  <2>2. Acquired' <=> Acquired
    BY <2>1 DEF Acquired, NoLease
  <2> QED
    BY <1>1, <2>1, <2>2 DEF ExpandInv
<1>3. CASE Next
  <2>1. SUFFICES ASSUME local'.op = "expand"
                 PROVE  /\ request' \in Seq(Seq(ExpandRow))
                        /\ ~Acquired' => local' = ExpandLocal /\ output' = <<>>
                        /\ Acquired' => Streamed(graph', request', lease', local', output')
    BY <1>1 DEF ExpandInv
  <2>2. local.op = "expand" /\ (Acquire \/ ExpandNext)
    <3>1. Kinded(local)
      BY <1>1 DEF Base
    <3>2. KeepsKind(local, local') /\ (local.op = "expand" => Acquire \/ ExpandNext)
      BY <1>3, <3>1, StepKind
    <3> QED
      BY <2>1, <3>2 DEF KeepsKind
  <2>3. /\ request \in Seq(Seq(ExpandRow))
        /\ ~Acquired => local = ExpandLocal /\ output = <<>>
        /\ Acquired => Streamed(graph, request, lease, local, output)
    BY <2>2 DEF ExpandInv
  <2>4. CASE Acquire
    <3>1. graph' = graph /\ request' = request /\ local' = local /\ output' = output /\ ~Acquired
      BY <2>4 DEF Acquire, Acquired
    <3>2. local' = ExpandLocal /\ output' = <<>>
      BY <2>3, <3>1
    <3>3. Acquired' => Expands(graph', request', lease')
      BY <1>1, <2>3, <3>1 DEF Base, Described, Acquired, NoLease, Expands
    <3>4. Acquired' => Streamed(graph', request', lease', ExpandLocal, <<>>)
      BY <3>3, StartStreams
    <3> QED
      BY <2>3, <3>1, <3>2, <3>4
  <2>5. CASE ExpandNext
    <3>1. Acquired /\ graph' = graph /\ request' = request /\ lease' = lease
      BY <2>5 DEF ExpandNext, ExpandInput, ExpandBegin, ExpandEdge, ExpandReturn, Expanding, Step
    <3>2. Acquired'
      BY <3>1 DEF Acquired, NoLease
    <3>3. Expands(graph, request, lease)
      BY <1>1, <2>3, <3>1 DEF Base, Described, Acquired, Expands
    <3>4. Streamed(graph, request, lease, local', output')
      BY <2>3, <2>5, <3>1, <3>3, ExpandStreams
    <3> QED
      BY <2>3, <3>1, <3>2, <3>4
  <2> QED
    BY <2>2, <2>4, <2>5
<1> QED
  BY <1>2, <1>3

(* gql_csr_expand returns every edge its input rows ask for, once, and no other, whatever the
   graph, the requests, the size of a chunk and the part of the graph that is in the delta. *)
THEOREM ExpansionIsExact == Spec => []ExpansionExact
<1>1. Init => ExpandInv
  BY ExpandInvInit
<1>2. ExpandInv /\ [Next]_vars => ExpandInv'
  BY ExpandInvStep
<1>3. ExpandInv => ExpansionExact
  <2>1. SUFFICES ASSUME ExpandInv, local.op = "expand" PROVE ExpansionExact
    BY DEF ExpansionExact
  <2>2. /\ Base /\ request \in Seq(Seq(ExpandRow))
        /\ ~Acquired => local = ExpandLocal /\ output = <<>>
        /\ Acquired => Streamed(graph, request, lease, local, output)
    BY <2>1 DEF ExpandInv
  <2>3. CASE Acquired
    <3>1. Expands(graph, request, lease)
      BY <2>2, <2>3 DEF Base, Described, Acquired, Expands
    <3> QED
      BY <2>2, <2>3, <3>1, StreamedExact
  <2>4. CASE ~Acquired
    <3>1. local.at = 1 /\ output = <<>> /\ Len(request) \in Nat
      BY <2>2, <2>4 DEF ExpandLocal
    <3> DEFINE s == [k \in DOMAIN output |-> output[k].rows]
               asked == UNION {UNION {Matches(c, r) : r \in DOMAIN request[c]} : c \in DOMAIN request}
    <3>2. s = <<>> /\ DOMAIN output = {}
      BY <3>1
    <3> HIDE DEF s
    <3>3. FlattenSeq(s) = <<>>
      BY <3>2, FlattenEmpty
    <3>4. ToSet(<<>>) = {} /\ IsInjective(<<>>)
      BY DEF ToSet, IsInjective
    <3>5. Answered => DOMAIN request = {}
      BY <2>2, <3>1 DEF Answered
    <3>6. Answered => asked = {}
      BY <3>5
    <3> HIDE DEF asked
    <3>7. ToSet(FlattenSeq(s)) \subseteq asked /\ IsInjective(FlattenSeq(s)) /\ (Answered => ToSet(FlattenSeq(s)) = asked)
      BY <3>3, <3>4, <3>6
    <3> QED
      BY <3>2, <3>7 DEF ExpansionExact, s, asked
  <2> QED
    BY <2>3, <2>4
<1> QED
  BY <1>1, <1>2, <1>3, PTL DEF Spec

-----------------------------------------------------------------------------
(* The edges at an ordinal as they are read, and those of the tables at a vertex. *)
EdgeSeen(held, e) ==
  [far |-> VertexIdIn(held, e.neighbor), id |-> e.id, label |-> held.snapshot.dict[e.label]]

EdgesSeen(held, o, outgoing) == {EdgeSeen(held, e) : e \in ToSet(EdgesOf(held, o, outgoing))}

EdgesWritten(g, id, outgoing) ==
  {[far |-> Far(e, outgoing), id |-> e.id, label |-> e.label] :
      e \in {e \in ToSet(g.edges) : Near(e, outgoing) = id}}

(* An ordinal's list shows the edges of the tables at its vertex, none of them twice. *)
LEMMA ListShows ==
  ASSUME NEW g, NEW held, IsGraph(g), LeaseDescribes(held, g.vertices, g.edges),
         NEW o \in DOMAIN IdsIn(held), NEW outgoing \in BOOLEAN
  PROVE  /\ EdgesSeen(held, o, outgoing) = EdgesWritten(g, IdsIn(held)[o], outgoing)
         /\ Len(EdgesOf(held, o, outgoing)) = Cardinality(EdgesSeen(held, o, outgoing))
<1> DEFINE ids == IdsIn(held)
           list == EdgesOf(held, o, outgoing)
           dict == held.snapshot.dict
           seen == [i \in 1..Len(list) |-> EdgeSeen(held, list[i])]
           written(e) == [far |-> Far(e, outgoing), id |-> e.id, label |-> e.label]
<1>1. ListsAt(list, ToSet(g.edges), ids[o], dict, ids, outgoing)
  BY DEF LeaseDescribes, IdsIn
<1>2. \A p \in DOMAIN ids : VertexIdIn(held, p) = ids[p]
  BY DEF IdsIn, AllIds, VertexIdIn
<1>3. /\ Len(list) \in Nat /\ DOMAIN list = 1..Len(list)
      /\ \A i \in 1..Len(list) :
            \E e \in ToSet(g.edges) : Near(e, outgoing) = ids[o] /\ IsEntry(list[i], e, dict, ids, outgoing)
      /\ \A e \in ToSet(g.edges) :
            Near(e, outgoing) = ids[o] => \E i \in 1..Len(list) : IsEntry(list[i], e, dict, ids, outgoing)
      /\ \A i, j \in 1..Len(list) : list[i].id = list[j].id => i = j
  BY <1>1 DEF ListsAt
<1> HIDE DEF ids, list, dict
<1>4. \A x, e : IsEntry(x, e, dict, ids, outgoing) => EdgeSeen(held, x) = written(e)
  BY <1>2 DEF IsEntry, EdgeSeen, dict
<1>5. EdgesSeen(held, o, outgoing) = {EdgeSeen(held, list[i]) : i \in 1..Len(list)}
  BY <1>3 DEF EdgesSeen, ToSet, list
<1>6. EdgesWritten(g, ids[o], outgoing) = {written(e) : e \in {e \in ToSet(g.edges) : Near(e, outgoing) = ids[o]}}
  BY DEF EdgesWritten
<1>7. EdgesSeen(held, o, outgoing) = EdgesWritten(g, ids[o], outgoing)
  <2> HIDE DEF written
  <2>1. ASSUME NEW i \in 1..Len(list)
        PROVE  \E e \in ToSet(g.edges) : Near(e, outgoing) = ids[o] /\ EdgeSeen(held, list[i]) = written(e)
    BY <1>3, <1>4
  <2>2. ASSUME NEW e \in ToSet(g.edges), Near(e, outgoing) = ids[o]
        PROVE  \E i \in 1..Len(list) : EdgeSeen(held, list[i]) = written(e)
    BY <1>3, <1>4, <2>2
  <2> QED
    BY <1>5, <1>6, <2>1, <2>2
<1>8. ToSet(seen) = EdgesSeen(held, o, outgoing) /\ Len(seen) = Len(list)
  <2>1. DOMAIN seen = 1..Len(list) /\ Len(seen) = Len(list) /\ \A i \in 1..Len(list) : seen[i] = EdgeSeen(held, list[i])
    BY <1>3
  <2> HIDE DEF seen
  <2> QED
    BY <1>5, <2>1 DEF ToSet
<1>9. seen \in Seq(EdgesSeen(held, o, outgoing)) /\ \A i, j \in 1..Len(seen) : seen[i] = seen[j] => i = j
  <2>1. \A i \in 1..Len(list) : EdgeSeen(held, list[i]).id = list[i].id
    BY DEF EdgeSeen
  <2>2. \A i \in 1..Len(list) : EdgeSeen(held, list[i]) \in EdgesSeen(held, o, outgoing)
    BY <1>5
  <2>3. seen \in [1..Len(list) -> EdgesSeen(held, o, outgoing)]
    BY <2>2
  <2>4. \A i \in 1..Len(list) : seen[i].id = list[i].id
    BY <2>1
  <2> HIDE DEF seen
  <2>5. seen \in Seq(EdgesSeen(held, o, outgoing))
    BY <1>3, <2>3
  <2>6. \A i, j \in 1..Len(list) : seen[i] = seen[j] => i = j
    BY <1>3, <2>4
  <2> QED
    BY <1>8, <2>5, <2>6
<1>10. Cardinality(ToSet(seen)) = Len(seen)
  <2> HIDE DEF seen
  <2> QED
    BY <1>9, CountOf
<1> QED
  BY <1>7, <1>8, <1>10 DEF ids, list

(* The rows a call of gql_csr_neighbors reads from a lease are those of the edges at its vertex;
   none if it is no vertex. *)
RowsRead(held, id, outgoing) ==
  UNION {{<<VertexIdIn(held, e.neighbor), e.id>> : e \in ToSet(EdgesOf(held, o, outgoing))} : o \in OrdinalIn(held, id)}

RowsWritten(g, id, outgoing) == {<<e.far, e.id>> : e \in EdgesWritten(g, id, outgoing)}

(* A call reads the rows that were written. *)
LEMMA CallReads ==
  ASSUME NEW g, NEW held, IsGraph(g), LeaseDescribes(held, g.vertices, g.edges), NEW id \in Nat, NEW outgoing \in BOOLEAN
  PROVE  RowsRead(held, id, outgoing) = RowsWritten(g, id, outgoing)
<1> DEFINE ids == IdsIn(held)
           pair(e) == <<e.far, e.id>>
<1>1. FindsAll(held.snapshot, held.delta, ids) /\ \A v \in ToSet(g.vertices) : \E o \in DOMAIN ids : ids[o] = v.id
  BY DEF LeaseDescribes, IdsIn
<1>2. OrdinalIn(held, id) = {o \in DOMAIN ids : ids[o] = id}
  BY <1>1 DEF FindsAll, OrdinalIn
<1>3. \A o \in OrdinalIn(held, id) : EdgesSeen(held, o, outgoing) = EdgesWritten(g, id, outgoing)
  BY <1>2, ListShows
<1> HIDE DEF ids
<1>4. \A x \in RowsRead(held, id, outgoing) : x \in RowsWritten(g, id, outgoing)
  <2> SUFFICES ASSUME NEW x \in RowsRead(held, id, outgoing) PROVE x \in RowsWritten(g, id, outgoing)
    OBVIOUS
  <2>1. PICK o \in OrdinalIn(held, id) : \E e \in ToSet(EdgesOf(held, o, outgoing)) : x = <<VertexIdIn(held, e.neighbor), e.id>>
    BY DEF RowsRead
  <2>2. PICK e \in ToSet(EdgesOf(held, o, outgoing)) : x = <<VertexIdIn(held, e.neighbor), e.id>>
    BY <2>1
  <2>3. EdgeSeen(held, e) \in EdgesWritten(g, id, outgoing) /\ x = <<EdgeSeen(held, e).far, EdgeSeen(held, e).id>>
    BY <1>3, <2>2 DEF EdgesSeen, EdgeSeen
  <2> QED
    BY <2>3 DEF RowsWritten
<1>5. \A x \in RowsWritten(g, id, outgoing) : x \in RowsRead(held, id, outgoing)
  <2> SUFFICES ASSUME NEW x \in RowsWritten(g, id, outgoing) PROVE x \in RowsRead(held, id, outgoing)
    OBVIOUS
  <2>1. PICK w \in EdgesWritten(g, id, outgoing) : x = <<w.far, w.id>>
    BY DEF RowsWritten
  <2>2. PICK e \in ToSet(g.edges) : Near(e, outgoing) = id
    BY <2>1 DEF EdgesWritten
  <2>3. \E v \in ToSet(g.vertices) : v.id = id
    BY <2>2, EdgeRows
  <2>4. PICK o : o \in OrdinalIn(held, id)
    BY <1>1, <1>2, <2>3
  <2>5. PICK f \in ToSet(EdgesOf(held, o, outgoing)) : w = EdgeSeen(held, f)
    BY <1>3, <2>1, <2>4 DEF EdgesSeen
  <2>6. x = <<VertexIdIn(held, f.neighbor), f.id>>
    BY <2>1, <2>5 DEF EdgeSeen
  <2> QED
    BY <2>4, <2>5, <2>6 DEF RowsRead
<1> QED
  BY <1>4, <1>5

-----------------------------------------------------------------------------
(* The ordinals are as many as the vertices of the tables, and found one from the other. *)
LEMMA OrdinalsCount ==
  ASSUME IsGraph(graph), LeaseDescribes(lease, graph.vertices, graph.edges), lease.snapshot.size \in Nat,
         Len(lease.delta.ids) \in Nat
  PROVE  /\ Ordinals = DOMAIN IdsIn(lease)
         /\ Cardinality(Ordinals) = Cardinality(VertexIds)
         /\ VertexIds \subseteq Nat
         /\ \A o \in Ordinals : VertexIdIn(lease, o) = IdsIn(lease)[o] /\ IdsIn(lease)[o] \in VertexIds
         /\ \A id \in VertexIds : \E o \in Ordinals : IdsIn(lease)[o] = id
<1> DEFINE ids == IdsIn(lease)
<1>1. Ordinals = DOMAIN ids /\ \A o \in Ordinals : VertexIdIn(lease, o) = ids[o]
  BY DEF Ordinals, IdsIn, AllIds, VertexIdIn
<1>2. ids \in [DOMAIN ids -> {ids[o] : o \in DOMAIN ids}]
  BY DEF IdsIn, AllIds
<1>3. /\ \A o, p \in DOMAIN ids : ids[o] = ids[p] => o = p
      /\ \A v \in Vertices : \E o \in DOMAIN ids : ids[o] = v.id
      /\ \A o \in DOMAIN ids : \E v \in Vertices : v.id = ids[o]
  BY DEF LeaseDescribes, FindsAll, IdsIn, Vertices
<1>4. IsFiniteSet(Ordinals)
  <2>1. lease.snapshot.size + Len(lease.delta.ids) - 1 \in Int
    OBVIOUS
  <2> QED
    BY <2>1, FS_Interval DEF Ordinals
<1> HIDE DEF ids
<1>5. {ids[o] : o \in DOMAIN ids} = VertexIds
  BY <1>3 DEF VertexIds
<1>6. ids \in Bijection(Ordinals, VertexIds)
  BY <1>1, <1>2, <1>3, <1>5 DEF Bijection, Injection, Surjection, IsInjective
<1>7. Cardinality(VertexIds) = Cardinality(Ordinals)
  BY <1>4, <1>6, FS_Bijection DEF ExistsBijection
<1>8. VertexIds \subseteq Nat
  BY VertexLabels DEF VertexIds, Vertices, VertexRow
<1> QED
  BY <1>1, <1>3, <1>5, <1>7, <1>8 DEF ids, VertexIds

(* Row ids are looked up right too: a vertex of the snapshot is found by its row id, and by no other. *)
LEMMA RowsLooked ==
  ASSUME IsGraph(graph), LeaseDescribes(lease, graph.vertices, graph.edges), lease.snapshot.size \in Nat,
         Len(lease.delta.ids) \in Nat, AscendingIds(lease.snapshot.ids, lease.snapshot.size),
         RowsFound(lease.snapshot, graph.vertices),
         NEW v \in Vertices, NEW o \in Ordinals, v.id = VertexIdIn(lease, o)
  PROVE  /\ OrdinalOfRow(lease.snapshot, v.row) = {o} \cap DOMAIN lease.snapshot.ids
         /\ OrdinalOfRow(lease.snapshot, v.row + 1) # {o}
<1> DEFINE ids == IdsIn(lease)
           size == lease.snapshot.size
<1>1. v \in ToSet(graph.vertices) /\ v.row \in Nat /\ v.row + 1 \in Nat /\ v.row + 1 # v.row
  BY VertexLabels DEF Vertices, VertexRow
<1>2. \A w \in ToSet(graph.vertices) : w.id = v.id \/ w.row = v.row => w = v
  BY <1>1 DEF IsGraph, IsTables, ToSet
<1>3. /\ Ordinals = DOMAIN ids /\ ids[o] = v.id
      /\ \A p, q \in DOMAIN ids : ids[p] = ids[q] => p = q
  BY OrdinalsCount DEF LeaseDescribes, FindsAll, IdsIn
<1>4. \A p \in 0..(size - 1) : p \in DOMAIN ids /\ ids[p] = lease.snapshot.ids[p]
  BY AllIdsExact DEF IdsIn
<1>5. DOMAIN lease.snapshot.ids = 0..(size - 1)
  BY DEF AscendingIds
<1>6. ASSUME NEW row \in Nat
      PROVE  OrdinalOfRow(lease.snapshot, row) =
                {p \in 0..(size - 1) : \E w \in ToSet(graph.vertices) : w.id = lease.snapshot.ids[p] /\ w.row = row}
  BY DEF RowsFound
<1> HIDE DEF ids, size
<1>7. \A p \in 0..(size - 1) : lease.snapshot.ids[p] = v.id <=> p = o
  BY <1>3, <1>4
<1>8. OrdinalOfRow(lease.snapshot, v.row) = {o} \cap DOMAIN lease.snapshot.ids
  BY <1>1, <1>2, <1>5, <1>6, <1>7
<1>9. ASSUME o \in OrdinalOfRow(lease.snapshot, v.row + 1) PROVE FALSE
  <2>1. PICK w \in ToSet(graph.vertices) : o \in 0..(size - 1) /\ w.id = lease.snapshot.ids[o] /\ w.row = v.row + 1
    BY <1>1, <1>6, <1>9
  <2> QED
    BY <1>1, <1>2, <1>7, <2>1
<1> QED
  BY <1>8, <1>9

(* The sizes of a lease. *)
Sized(held) ==
  /\ held.snapshot.size \in Nat /\ AscendingIds(held.snapshot.ids, held.snapshot.size)
  /\ Len(held.delta.ids) \in Nat

(* A fresh lease describes the graph in all that TopologyDescribesGraph asks of it. *)
LEMMA FreshDescribes ==
  ASSUME IsGraph(graph), LeaseDescribes(lease, graph.vertices, graph.edges), Sized(lease),
         RowsFound(lease.snapshot, graph.vertices)
  PROVE  LET probes == {0} \cup UNION {{id, id + 1} : id \in VertexIds}
         IN  /\ Cardinality(Ordinals) = Cardinality(VertexIds)
             /\ \A id \in probes \ VertexIds : OrdinalIn(lease, id) = {}
             /\ \A id \in VertexIds : Cardinality(OrdinalIn(lease, id)) = 1
             /\ \A o \in Ordinals : OrdinalIn(lease, VertexIdIn(lease, o)) = {o}
             /\ \A v \in Vertices, o \in Ordinals :
                    v.id = VertexIdIn(lease, o) =>
                        /\ OrdinalOfRow(lease.snapshot, v.row) = {o} \cap DOMAIN lease.snapshot.ids
                        /\ OrdinalOfRow(lease.snapshot, v.row + 1) # {o}
             /\ \A o \in Ordinals, outgoing \in BOOLEAN :
                    /\ EdgesByLease(o, outgoing) = EdgesByTable(VertexIdIn(lease, o), outgoing)
                    /\ Len(EdgesOf(lease, o, outgoing)) = Cardinality(EdgesByLease(o, outgoing))
<1> DEFINE ids == IdsIn(lease)
           probes == {0} \cup UNION {{id, id + 1} : id \in VertexIds}
<1>0. lease.snapshot.size \in Nat /\ AscendingIds(lease.snapshot.ids, lease.snapshot.size) /\ Len(lease.delta.ids) \in Nat
  BY DEF Sized
<1>1. /\ Ordinals = DOMAIN ids
      /\ Cardinality(Ordinals) = Cardinality(VertexIds)
      /\ VertexIds \subseteq Nat
      /\ \A o \in Ordinals : VertexIdIn(lease, o) = ids[o] /\ ids[o] \in VertexIds
      /\ \A id \in VertexIds : \E o \in Ordinals : ids[o] = id
  BY <1>0, OrdinalsCount
<1>2. \A o, p \in DOMAIN ids : ids[o] = ids[p] => o = p
  BY DEF LeaseDescribes, FindsAll, IdsIn
<1>3. \A id \in Nat : OrdinalIn(lease, id) = {o \in DOMAIN ids : ids[o] = id}
  BY DEF LeaseDescribes, FindsAll, IdsIn, OrdinalIn
<1>4. \A o \in Ordinals, outgoing \in BOOLEAN :
         /\ EdgesByLease(o, outgoing) = EdgesByTable(VertexIdIn(lease, o), outgoing)
         /\ Len(EdgesOf(lease, o, outgoing)) = Cardinality(EdgesByLease(o, outgoing))
  <2> SUFFICES ASSUME NEW o \in Ordinals, NEW outgoing \in BOOLEAN
               PROVE  /\ EdgesByLease(o, outgoing) = EdgesByTable(VertexIdIn(lease, o), outgoing)
                      /\ Len(EdgesOf(lease, o, outgoing)) = Cardinality(EdgesByLease(o, outgoing))
    OBVIOUS
  <2>1. EdgesByLease(o, outgoing) = EdgesSeen(lease, o, outgoing)
    BY DEF EdgesByLease, EdgesSeen, EdgeSeen
  <2>2. EdgesByTable(ids[o], outgoing) = EdgesWritten(graph, ids[o], outgoing)
    BY DEF EdgesByTable, EdgesWritten, Edges
  <2>3. /\ EdgesSeen(lease, o, outgoing) = EdgesWritten(graph, ids[o], outgoing)
        /\ Len(EdgesOf(lease, o, outgoing)) = Cardinality(EdgesSeen(lease, o, outgoing))
    BY <1>1, ListShows
  <2> QED
    BY <1>1, <2>1, <2>2, <2>3
<1>5. \A v \in Vertices, o \in Ordinals :
         v.id = VertexIdIn(lease, o) =>
             /\ OrdinalOfRow(lease.snapshot, v.row) = {o} \cap DOMAIN lease.snapshot.ids
             /\ OrdinalOfRow(lease.snapshot, v.row + 1) # {o}
  BY <1>0, RowsLooked
<1>6. probes \subseteq Nat
  <2>1. ASSUME NEW p \in probes, p # 0 PROVE p \in Nat
    <3>1. PICK id \in VertexIds : p \in {id, id + 1}
      BY <2>1
    <3>2. id \in Nat
      BY <1>1
    <3> QED
      BY <3>1, <3>2
  <2> HIDE DEF probes
  <2> QED
    BY <2>1
<1> HIDE DEF ids, probes
<1>7. \A id \in probes \ VertexIds : OrdinalIn(lease, id) = {}
  BY <1>1, <1>3, <1>6
<1>8. \A o \in Ordinals : OrdinalIn(lease, VertexIdIn(lease, o)) = {o}
  <2> SUFFICES ASSUME NEW o \in Ordinals PROVE OrdinalIn(lease, VertexIdIn(lease, o)) = {o}
    OBVIOUS
  <2>1. VertexIdIn(lease, o) = ids[o] /\ ids[o] \in Nat /\ o \in DOMAIN ids
    BY <1>1
  <2>2. OrdinalIn(lease, ids[o]) = {p \in DOMAIN ids : ids[p] = ids[o]}
    BY <1>3, <2>1
  <2> QED
    BY <1>2, <2>1, <2>2
<1>9. \A id \in VertexIds : Cardinality(OrdinalIn(lease, id)) = 1
  <2> SUFFICES ASSUME NEW id \in VertexIds PROVE Cardinality(OrdinalIn(lease, id)) = 1
    OBVIOUS
  <2>1. PICK o \in Ordinals : ids[o] = id
    BY <1>1
  <2>2. OrdinalIn(lease, id) = {o}
    BY <1>1, <1>8, <2>1
  <2> QED
    BY <2>2, FS_Singleton
<1> QED
  BY <1>1, <1>4, <1>5, <1>7, <1>8, <1>9 DEF probes

(* A label of the tables has an id in the dictionary: it is a label of a vertex or of an edge. *)
LEMMA LabelsFound ==
  ASSUME NEW g, NEW held, IsGraph(g), LeaseDescribes(held, g.vertices, g.edges), NEW label,
         \/ \E e \in ToSet(g.edges) : e.label = label
         \/ \E v \in ToSet(g.vertices) : label \in LabelsAt(g, v.id)
  PROVE  FindLabel(held.snapshot.dict, label) # {}
<1> DEFINE ids == IdsIn(held)
           dict == held.snapshot.dict
<1>1. IsDict(dict) /\ \A v \in ToSet(g.vertices) : \E o \in DOMAIN ids : ids[o] = v.id
  BY DEF LeaseDescribes, IdsIn
<1>2. ASSUME NEW e \in ToSet(g.edges), e.label = label PROVE FindLabel(dict, label) # {}
  <2>1. PICK v \in ToSet(g.vertices) : v.id = Near(e, TRUE)
    BY EdgeRows
  <2>2. PICK o \in DOMAIN ids : ids[o] = v.id
    BY <1>1
  <2>3. ListsAt(EdgesOf(held, o, TRUE), ToSet(g.edges), ids[o], dict, ids, TRUE)
    BY DEF LeaseDescribes, IdsIn
  <2>4. PICK i \in 1..Len(EdgesOf(held, o, TRUE)) : IsEntry(EdgesOf(held, o, TRUE)[i], e, dict, ids, TRUE)
    BY <2>1, <2>2, <2>3 DEF ListsAt
  <2>5. \E l \in 1..Len(dict) : dict[l] = label
    BY <1>2, <2>4 DEF IsEntry
  <2> QED
    BY <1>1, <2>5, FoundOnce
<1>3. ASSUME NEW v \in ToSet(g.vertices), label \in LabelsAt(g, v.id) PROVE FindLabel(dict, label) # {}
  <2>1. PICK o \in DOMAIN ids : ids[o] = v.id
    BY <1>1
  <2>2. label \in LabelsAt(g, IdsIn(held)[o])
    BY <1>3, <2>1
  <2> QED
    BY <2>1, <2>2, LabelsRead
<1> QED
  BY <1>2, <1>3

(* The postings of a lease and its delta are those of the labels of its vertices. *)
LEMMA PostingsShow ==
  ASSUME IsGraph(graph), LeaseDescribes(lease, graph.vertices, graph.edges), Sized(lease), HasPostings(lease),
         NEW label, FindLabel(lease.snapshot.dict, label) # {}
  PROVE  LET ids == FindLabel(lease.snapshot.dict, label)
             posted == UNION {{VertexIdIn(lease, o) : o \in ToSet(PostingRange(lease.snapshot, id))} : id \in ids}
             inserted == UNION {ToSet(At(lease.delta.byLabel, id)) : id \in ids}
         IN  /\ posted \cup inserted = {id \in VertexIds : label \in LabelsOf(id)}
             /\ posted \cap inserted = {}
             /\ \A id \in ids : IsInjective(PostingRange(lease.snapshot, id))
             /\ MaskByPostings(lease.snapshot, label) = MaskByScan(lease.snapshot, label)
             /\ \A o \in Ordinals :
                    CsrVertexHasLabels(lease, o, ids) <=> label \in LabelsOf(VertexIdIn(lease, o))
<1> DEFINE s == lease.snapshot
           d == lease.delta
           size == s.size
           m == Len(d.ids)
           all == IdsIn(lease)
           ids == FindLabel(s.dict, label)
           posted == UNION {{VertexIdIn(lease, o) : o \in ToSet(PostingRange(s, id))} : id \in ids}
           inserted == UNION {ToSet(At(d.byLabel, id)) : id \in ids}
<1>1. size \in Nat /\ m \in Nat /\ DOMAIN s.ids = 0..(size - 1)
  BY DEF Sized, AscendingIds
<1>2. PICK l \in 1..Len(s.dict) : ids = {l} /\ s.dict[l] = label
  <2>1. IsDict(s.dict)
    BY DEF LeaseDescribes
  <2> QED
    BY <2>1, FoundOnce
<1>3. /\ Ordinals = DOMAIN all /\ DOMAIN all = 0..(size + m - 1)
      /\ \A o \in Ordinals : VertexIdIn(lease, o) = all[o] /\ all[o] \in VertexIds
      /\ \A id \in VertexIds : \E o \in Ordinals : all[o] = id
  <2>1. DOMAIN all = 0..(size + m - 1)
    BY DEF IdsIn, AllIds
  <2> QED
    BY <1>1, <2>1, OrdinalsCount
<1>4. \A o, p \in DOMAIN all : all[o] = all[p] => o = p
  BY DEF LeaseDescribes, FindsAll, IdsIn
<1>5. /\ \A o \in 0..(size - 1) : o \in DOMAIN all /\ VertexLabelIds(lease, o) = s.vertexLabels[o]
      /\ \A j \in 1..m : /\ size + j - 1 \in DOMAIN all /\ all[size + j - 1] = d.ids[j]
                         /\ VertexLabelIds(lease, size + j - 1) = d.labels[j]
      /\ \A o \in DOMAIN all : o \in 0..(size - 1) \/ \E j \in 1..m : o = size + j - 1
  <2>1. /\ \A o \in 0..(size - 1) : o \in DOMAIN all
        /\ \A j \in 1..m : size + j - 1 \in DOMAIN all /\ all[size + j - 1] = d.ids[j]
        /\ \A o \in DOMAIN all : o \in 0..(size - 1) \/ \E j \in 1..m : o = size + j - 1
    <3>1. all = AllIds(s, d)
      BY DEF IdsIn
    <3> HIDE DEF all, s, d
    <3> QED
      BY <1>1, <3>1, AllIdsExact
  <2>2. \A o : VertexLabelIds(lease, o) = IF o < size THEN s.vertexLabels[o] ELSE d.labels[o - size + 1]
    BY DEF VertexLabelIds
  <2>3. /\ \A o \in 0..(size - 1) : o < size
        /\ \A j \in 1..m : ~(size + j - 1 < size) /\ (size + j - 1) - size + 1 = j
    BY <1>1
  <2> QED
    BY <2>1, <2>2, <2>3
<1>6. ASSUME NEW o \in DOMAIN all
      PROVE  label \in LabelsOf(all[o]) <=> Known(VertexLabelIds(lease, o), l)
  <2>1. label \in LabelsAt(graph, all[o]) <=> \E id \in ids : Known(VertexLabelIds(lease, o), id)
    BY LabelsRead
  <2>2. LabelsOf(all[o]) = LabelsAt(graph, all[o])
    BY DEF LabelsOf, LabelsAt, Vertices
  <2> QED
    BY <1>2, <2>1, <2>2
<1>7. /\ ListsOnce(PostingRange(s, l), {o \in 0..(size - 1) : Known(s.vertexLabels[o], l)})
      /\ ToSet(At(d.byLabel, l)) = {d.ids[j] : j \in {j \in 1..m : Known(d.labels[j], l)}}
  BY <1>2 DEF HasPostings, PostsOf, Posts
<1> DEFINE range == PostingRange(s, l)
           Has == {o \in 0..(size - 1) : Known(s.vertexLabels[o], l)}
           New == {j \in 1..m : Known(d.labels[j], l)}
<1>8. ToSet(range) = Has /\ IsInjective(range)
  <2> HIDE DEF range, Has
  <2>1. /\ DOMAIN range = 1..Len(range)
        /\ \A i \in 1..Len(range) : range[i] \in Has
        /\ \A x \in Has : \E i \in 1..Len(range) : range[i] = x
        /\ \A i, j \in 1..Len(range) : range[i] = range[j] => i = j
    BY <1>7 DEF ListsOnce, range, Has
  <2> QED
    BY <2>1 DEF ToSet, IsInjective
<1>9. posted = {all[o] : o \in Has} /\ inserted = {d.ids[j] : j \in New}
  <2>1. posted = {VertexIdIn(lease, o) : o \in ToSet(range)} /\ inserted = ToSet(At(d.byLabel, l))
    BY <1>2
  <2>2. \A o \in Has : VertexIdIn(lease, o) = all[o]
    BY <1>3, <1>5
  <2> HIDE DEF range, Has
  <2>3. {VertexIdIn(lease, o) : o \in Has} = {all[o] : o \in Has}
    BY <2>2
  <2> QED
    BY <1>7, <1>8, <2>1, <2>3
<1>10. \A o \in 0..(size - 1) : label \in LabelsOf(all[o]) <=> o \in Has
  BY <1>5, <1>6
<1>11. \A j \in 1..m : label \in LabelsOf(d.ids[j]) <=> j \in New
  <2> SUFFICES ASSUME NEW j \in 1..m PROVE label \in LabelsOf(d.ids[j]) <=> j \in New
    OBVIOUS
  <2>1. label \in LabelsOf(all[size + j - 1]) <=> Known(d.labels[j], l)
    BY <1>5, <1>6
  <2> QED
    BY <1>5, <2>1
<1>12. MaskByPostings(s, label) = MaskByScan(s, label)
  <2>1. MaskByPostings(s, label) = ToSet(range)
    BY <1>2 DEF MaskByPostings
  <2>2. MaskByScan(s, label) = {o \in 0..(size - 1) : Contains(s.vertexLabels[o], l)}
    BY <1>1, <1>2 DEF MaskByScan
  <2>3. \A o : Contains(s.vertexLabels[o], l) <=> Known(s.vertexLabels[o], l)
    BY DEF Contains, Known
  <2> QED
    BY <1>8, <2>1, <2>2, <2>3
<1>13. \A o \in Ordinals : CsrVertexHasLabels(lease, o, ids) <=> label \in LabelsOf(VertexIdIn(lease, o))
  <2> SUFFICES ASSUME NEW o \in Ordinals
               PROVE  CsrVertexHasLabels(lease, o, ids) <=> label \in LabelsOf(VertexIdIn(lease, o))
    OBVIOUS
  <2>1. CsrVertexHasLabels(lease, o, ids) <=> Contains(VertexLabelIds(lease, o), l)
    BY <1>2 DEF CsrVertexHasLabels
  <2>2. Contains(VertexLabelIds(lease, o), l) <=> Known(VertexLabelIds(lease, o), l)
    BY DEF Contains, Known
  <2> QED
    BY <1>3, <1>6, <2>1, <2>2
<1>14. \A id \in ids : IsInjective(PostingRange(s, id))
  BY <1>2, <1>8
<1> HIDE DEF s, d, size, m, all, ids, posted, inserted, range
<1>15. \A j \in 1..m : d.ids[j] \in VertexIds
  BY <1>3, <1>5
<1>16. \A o \in Has : o \in 0..(size - 1) /\ o \in DOMAIN all /\ all[o] \in VertexIds
  BY <1>3, <1>5
<1>17. posted \cap inserted = {}
  <2> SUFFICES ASSUME NEW x, x \in posted, x \in inserted PROVE FALSE
    OBVIOUS
  <2>1. PICK o \in Has : x = all[o]
    BY <1>9
  <2>2. PICK j \in 1..m : x = d.ids[j]
    BY <1>9
  <2>4. size + j - 1 \in DOMAIN all /\ all[size + j - 1] = all[o]
    BY <1>5, <2>1, <2>2
  <2>5. o \in DOMAIN all
    BY <1>16
  <2>3. o = size + j - 1
    BY <1>4, <2>4, <2>5
  <2> QED
    BY <1>1, <1>16, <2>3
<1>18. posted \cup inserted = {id \in VertexIds : label \in LabelsOf(id)}
  <2>1. ASSUME NEW x \in posted \cup inserted PROVE x \in VertexIds /\ label \in LabelsOf(x)
    <3>1. CASE x \in posted
      BY <1>9, <1>10, <1>16, <3>1
    <3>2. CASE x \in inserted
      BY <1>9, <1>11, <1>15, <3>2
    <3> QED
      BY <2>1, <3>1, <3>2
  <2>2. ASSUME NEW x \in VertexIds, label \in LabelsOf(x) PROVE x \in posted \cup inserted
    <3>1. PICK o \in DOMAIN all : all[o] = x
      BY <1>3
    <3>2. CASE o \in 0..(size - 1)
      <4>1. o \in Has
        BY <1>10, <2>2, <3>1, <3>2
      <4> QED
        BY <1>9, <3>1, <4>1
    <3>3. ASSUME NEW j \in 1..m, o = size + j - 1 PROVE x \in inserted
      <4>1. d.ids[j] = x /\ j \in New
        BY <1>5, <1>11, <2>2, <3>1, <3>3
      <4> QED
        BY <1>9, <4>1
    <3> QED
      BY <1>5, <3>2, <3>3
  <2> QED
    BY <2>1, <2>2
<1> HIDE DEF New, Has
<1> QED
  BY <1>12, <1>13, <1>14, <1>17, <1>18 DEF s, d, ids, posted, inserted

-----------------------------------------------------------------------------
(* What else the readers of a lease look up: row ids and postings. *)
Looks(g, held) == RowsFound(held.snapshot, g.vertices) /\ Sized(held) /\ HasPostings(held) /\ FanoutShows(g, held)

(* Every lease that is acquired has them. *)
LEMMA AcquiredLooks ==
  ASSUME NEW g, IsGraph(g)
  PROVE  Looks(g, LeaseOf(g))
<1> DEFINE first == SubSeq(g.vertices, 1, g.old.vertices)
           prior == SubSeq(g.edges, 1, g.old.edges)
           old == BuildTableSnapshot(first, prior)
           new == BuildTableSnapshot(g.vertices, g.edges)
           caughtUp == ScanCsrDelta(old, g)
           d == CHOOSE d \in caughtUp : TRUE
<1>1. IsTables(g.vertices, g.edges) /\ IsTables(first, prior)
  BY DEF IsGraph
<1>2. LeaseOf(g) = IF caughtUp # {} THEN [snapshot |-> old, delta |-> d] ELSE [snapshot |-> new, delta |-> NoDelta]
  BY DEF LeaseOf
<1>3. SnapshotOf(old, first, prior) /\ SnapshotOf(new, g.vertices, g.edges)
  BY <1>1, SnapshotExact
<1>4. RowsFound(LeaseOf(g).snapshot, g.vertices)
  BY LeaseRows
<1> HIDE DEF old, new, d
<1>5. /\ old.size \in Nat /\ AscendingIds(old.ids, old.size)
      /\ new.size \in Nat /\ AscendingIds(new.ids, new.size)
  BY <1>3 DEF SnapshotOf
<1>6. Len(NoDelta.ids) \in Nat
  BY DEF NoDelta
<1>7. caughtUp # {} => Len(d.ids) \in Nat
  <2> SUFFICES ASSUME caughtUp # {} PROVE Len(d.ids) \in Nat
    OBVIOUS
  <2>1. d \in ScanCsrDelta(old, g)
    BY DEF d
  <2>2. AddsRest(old, d, g.vertices, g.old.vertices, g.edges, g.old.edges)
    BY <1>3, <2>1, ScanCsrDeltaExact
  <2>3. d.ids \in Seq(Nat)
    BY <2>2 DEF AddsRest, Deltas
  <2> QED
    BY <2>3
<1>8. Sized(LeaseOf(g))
  <2>1. caughtUp # {} => Sized([snapshot |-> old, delta |-> d])
    BY <1>5, <1>7 DEF Sized
  <2>2. Sized([snapshot |-> new, delta |-> NoDelta])
    BY <1>5, <1>6 DEF Sized
  <2> QED
    BY <1>2, <2>1, <2>2
<1>9. HasPostings(LeaseOf(g))
  BY AcquiredPosts
<1>10. FanoutShows(g, LeaseOf(g))
  BY FanoutExact
<1> QED
  BY <1>4, <1>8, <1>9, <1>10 DEF Looks

(* What gql_csr_neighbors has returned are the edges of the calls it has answered. *)
PairRows == [rows : SUBSET (Nat \X Nat)]

Replied(q, out, g) ==
  /\ out \in Seq(PairRows)
  /\ \A k \in 1..Len(out) : k <= Len(q) /\ out[k].rows = RowsWritten(g, q[k].vertex, q[k].out)

(* One more call is answered. *)
LEMMA RepliesMore ==
  ASSUME NEW g, IsGraph(g), NEW held, LeaseDescribes(held, g.vertices, g.edges), NEW q \in Seq(NeighborsCall),
         NEW out, Replied(q, out, g), Len(out) + 1 <= Len(q), NEW call, call = q[Len(out) + 1]
  PROVE  Replied(q, Append(out, [rows |-> RowsRead(held, call.vertex, call.out)]), g)
<1> DEFINE row == [rows |-> RowsRead(held, call.vertex, call.out)]
           new == Append(out, row)
<1>1. out \in Seq(PairRows) /\ Len(out) \in Nat /\ Len(q) \in Nat
  BY DEF Replied
<1>2. call \in NeighborsCall
  BY <1>1
<1>3. call.vertex \in Nat /\ call.out \in BOOLEAN
  BY <1>2 DEF NeighborsCall
<1>4. RowsRead(held, call.vertex, call.out) = RowsWritten(g, call.vertex, call.out)
  BY <1>3, CallReads
<1>5. RowsWritten(g, call.vertex, call.out) \in SUBSET (Nat \X Nat)
  <2>1. \A e \in ToSet(g.edges) : Far(e, call.out) \in Nat /\ e.id \in Nat
    BY <1>3, EdgeRows DEF EdgeRow
  <2>2. \A w \in EdgesWritten(g, call.vertex, call.out) : w.far \in Nat /\ w.id \in Nat
    BY <2>1 DEF EdgesWritten
  <2> QED
    BY <2>2 DEF RowsWritten
<1>6. row.rows = RowsWritten(g, call.vertex, call.out) /\ row \in PairRows
  BY <1>4, <1>5 DEF PairRows
<1> HIDE DEF row
<1>7. new \in Seq(PairRows) /\ Len(new) = Len(out) + 1 /\ new[Len(out) + 1] = row /\ \A k \in 1..Len(out) : new[k] = out[k]
  BY <1>1, <1>6, AppendedTo
<1> HIDE DEF new
<1>8. \A k \in 1..Len(new) : k \in 1..Len(out) \/ k = Len(out) + 1
  BY <1>1, <1>7
<1>9. Replied(q, new, g)
  BY <1>6, <1>7, <1>8 DEF Replied
<1> QED
  BY <1>9 DEF new, row

(* The invariant of gql_csr_neighbors. *)
NeighborsInv ==
  /\ Base
  /\ local.op = "neighbors" =>
        /\ request \in Seq(NeighborsCall)
        /\ Acquired => Looks(graph, lease)
        /\ local = [NeighborsLocal EXCEPT !.at = Len(output) + 1]
        /\ Replied(request, output, graph)

(* The invariant holds at first, *)
LEMMA NeighborsInvInit ==
  ASSUME Init
  PROVE  NeighborsInv
<1>1. PICK kind \in DOMAIN Cases : \E case \in Cases[kind] : graph = case.graph /\ request = case.request /\ local = case.local
  BY DEF Init
<1>2. PICK case \in Cases[kind] : graph = case.graph /\ request = case.request /\ local = case.local
  BY <1>1
<1>3. local.op = "neighbors" => local = NeighborsLocal /\ request \in Seq(NeighborsCall)
  BY <1>2, CasesAssumption
<1>4. lease = NoLease /\ output = <<>> /\ Base
  BY BaseInit DEF Init
<1>5. Len(output) = 0 /\ output \in Seq(PairRows) /\ 1..0 = {}
  BY <1>4
<1>6. Replied(request, output, graph)
  BY <1>5 DEF Replied
<1> QED
  BY <1>3, <1>4, <1>5, <1>6 DEF NeighborsInv, NeighborsLocal, Acquired

(* and every step keeps it. *)
LEMMA NeighborsInvStep ==
  ASSUME NeighborsInv, [Next]_vars
  PROVE  NeighborsInv'
<1>1. Base /\ Base'
  BY BaseStep DEF NeighborsInv
<1>2. CASE UNCHANGED vars
  <2>1. graph' = graph /\ request' = request /\ lease' = lease /\ local' = local /\ output' = output
    BY <1>2 DEF vars
  <2>2. Acquired' <=> Acquired
    BY <2>1 DEF Acquired, NoLease
  <2> QED
    BY <1>1, <2>1, <2>2 DEF NeighborsInv
<1>3. CASE Next
  <2>1. SUFFICES ASSUME local'.op = "neighbors"
                 PROVE  /\ request' \in Seq(NeighborsCall)
                        /\ Acquired' => Looks(graph', lease')
                        /\ local' = [NeighborsLocal EXCEPT !.at = Len(output') + 1]
                        /\ Replied(request', output', graph')
    BY <1>1 DEF NeighborsInv
  <2>2. local.op = "neighbors" /\ (Acquire \/ NeighborsNext)
    <3>1. Kinded(local)
      BY <1>1 DEF Base
    <3>2. KeepsKind(local, local') /\ (local.op = "neighbors" => Acquire \/ NeighborsNext)
      BY <1>3, <3>1, StepKind
    <3> QED
      BY <2>1, <3>2 DEF KeepsKind
  <2>3. /\ request \in Seq(NeighborsCall)
        /\ Acquired => Looks(graph, lease)
        /\ local = [NeighborsLocal EXCEPT !.at = Len(output) + 1]
        /\ Replied(request, output, graph)
    BY <2>2 DEF NeighborsInv
  <2>4. CASE Acquire
    <3>1. graph' = graph /\ request' = request /\ local' = local /\ output' = output /\ lease' = LeaseOf(graph)
      BY <2>2, <2>4 DEF Acquire
    <3>2. Looks(graph, LeaseOf(graph))
      BY <1>1, AcquiredLooks DEF Base
    <3> QED
      BY <2>3, <3>1, <3>2
  <2>5. CASE NeighborsNext
    <3>1. /\ Acquired /\ graph' = graph /\ request' = request /\ lease' = lease
          /\ ~Answered /\ local' = [local EXCEPT !.at = @ + 1]
          /\ output' = Append(output, [rows |-> RowsRead(lease, Now.vertex, Now.out)])
      BY <2>5 DEF NeighborsNext, Answer, Step, RowsRead
    <3>2. Acquired'
      BY <3>1 DEF Acquired, NoLease
    <3>3. IsGraph(graph) /\ LeaseDescribes(lease, graph.vertices, graph.edges)
      BY <1>1, <3>1 DEF Base, Described, Acquired
    <3>4. Len(output) + 1 <= Len(request) /\ Now = request[Len(output) + 1] /\ Len(output) \in Nat
      <4>1. Len(request) \in Nat /\ Len(output) \in Nat
        BY <2>3 DEF Replied
      <4> QED
        BY <2>3, <3>1, <4>1 DEF Answered, Now
    <3>5. Replied(request, output', graph)
      BY <2>3, <3>1, <3>3, <3>4, RepliesMore
    <3>6. Len(output') = Len(output) + 1
      BY <2>3, <3>1 DEF Replied
    <3>7. local' = [NeighborsLocal EXCEPT !.at = (Len(output) + 1) + 1]
      <4>1. local = [NeighborsLocal EXCEPT !.at = Len(output) + 1]
        BY <2>3
      <4>2. local.at = Len(output) + 1
        BY <4>1 DEF NeighborsLocal
      <4> QED
        BY <3>1, <4>1, <4>2 DEF NeighborsLocal
    <3> QED
      BY <2>3, <3>1, <3>2, <3>4, <3>5, <3>6, <3>7
  <2> QED
    BY <2>2, <2>4, <2>5
<1> QED
  BY <1>2, <1>3

(* The lookups and lists of a lease are exact, for every graph, whatever part of it is in the
   delta; and so is every call of gql_csr_neighbors. *)
THEOREM TopologyIsDescribed == Spec => []TopologyDescribesGraph
<1>1. Init => NeighborsInv
  BY NeighborsInvInit
<1>2. NeighborsInv /\ [Next]_vars => NeighborsInv'
  BY NeighborsInvStep
<1>3. NeighborsInv => TopologyDescribesGraph
  <2> SUFFICES ASSUME NeighborsInv PROVE TopologyDescribesGraph
    OBVIOUS
  <2>1. /\ Base
        /\ local.op = "neighbors" => Replied(request, output, graph) /\ (Acquired => Looks(graph, lease))
    BY DEF NeighborsInv
  <2>2. local.op = "neighbors" =>
           \A k \in DOMAIN output :
               output[k].rows = {<<e.far, e.id>> : e \in EdgesByTable(request[k].vertex, request[k].out)}
    <3>1. \A id, outgoing : {<<e.far, e.id>> : e \in EdgesByTable(id, outgoing)} = RowsWritten(graph, id, outgoing)
      BY DEF EdgesByTable, RowsWritten, EdgesWritten, Edges
    <3>2. Replied(request, output, graph) =>
             \A k \in DOMAIN output : output[k].rows = RowsWritten(graph, request[k].vertex, request[k].out)
      BY DEF Replied
    <3> QED
      BY <2>1, <3>1, <3>2
  <2>3. Fresh => /\ IsGraph(graph) /\ LeaseDescribes(lease, graph.vertices, graph.edges)
                 /\ Sized(lease) /\ RowsFound(lease.snapshot, graph.vertices)
    <3>1. Fresh => local.op = "neighbors" /\ Acquired
      BY DEF Fresh, NeighborsLocal
    <3> QED
      BY <2>1, <3>1 DEF Looks, Base, Described, Acquired
  <2> QED
    BY <2>2, <2>3, FreshDescribes DEF TopologyDescribesGraph
<1> QED
  BY <1>1, <1>2, <1>3, PTL DEF Spec

(* The postings and the delta's lists of vertices by label, and the labels kept at each vertex,
   name the vertices that have the label, each once, for every graph and whatever part of it is
   in the delta (BuildVertexMask, CsrVertexHasLabels). *)
THEOREM PostingsAreExact == Spec => []PostingsDescribeLabels
<1>1. Init => NeighborsInv
  BY NeighborsInvInit
<1>2. NeighborsInv /\ [Next]_vars => NeighborsInv'
  BY NeighborsInvStep
<1>3. NeighborsInv => PostingsDescribeLabels
  <2>1. SUFFICES ASSUME NeighborsInv, Fresh,
                        NEW label \in {e.label : e \in Edges} \cup UNION {LabelsOf(id) : id \in VertexIds}
                 PROVE  LET ids == FindLabel(lease.snapshot.dict, label)
                            posted == UNION {{VertexIdIn(lease, o) : o \in ToSet(PostingRange(lease.snapshot, id))} :
                                                id \in ids}
                            inserted == UNION {ToSet(At(lease.delta.byLabel, id)) : id \in ids}
                        IN  /\ posted \cup inserted = {id \in VertexIds : label \in LabelsOf(id)}
                            /\ posted \cap inserted = {}
                            /\ \A id \in ids : IsInjective(PostingRange(lease.snapshot, id))
                            /\ MaskByPostings(lease.snapshot, label) = MaskByScan(lease.snapshot, label)
                            /\ \A o \in Ordinals :
                                   CsrVertexHasLabels(lease, o, ids) <=> label \in LabelsOf(VertexIdIn(lease, o))
    BY DEF PostingsDescribeLabels
  <2>2. IsGraph(graph) /\ LeaseDescribes(lease, graph.vertices, graph.edges) /\ Sized(lease) /\ HasPostings(lease)
    <3>1. local.op = "neighbors" /\ Acquired
      BY <2>1 DEF Fresh, NeighborsLocal
    <3> QED
      BY <2>1, <3>1 DEF NeighborsInv, Looks, Base, Described, Acquired
  <2>3. \/ \E e \in ToSet(graph.edges) : e.label = label
        \/ \E v \in ToSet(graph.vertices) : label \in LabelsAt(graph, v.id)
    <3>1. \A id : LabelsOf(id) = LabelsAt(graph, id)
      BY DEF LabelsOf, LabelsAt, Vertices
    <3> QED
      BY <3>1 DEF Edges, VertexIds, Vertices
  <2>4. FindLabel(lease.snapshot.dict, label) # {}
    BY <2>2, <2>3, LabelsFound
  <2> QED
    BY <2>2, <2>4, PostingsShow
<1> QED
  BY <1>1, <1>2, <1>3, PTL DEF Spec

(* The fanout statistics of a lease count, for every graph, the edges of a label at the vertices
   of a label among the rows its snapshot was built from, and these vertices; a pair that is
   missing means none, and where there are no statistics there is no pair (collect_degree_stats,
   which discards them "rather than treating a missing pair in a partial map as zero degree"). *)
THEOREM FanoutIsExact == Spec => []FanoutExactOrAbsent
<1>1. Init => NeighborsInv
  BY NeighborsInvInit
<1>2. NeighborsInv /\ [Next]_vars => NeighborsInv'
  BY NeighborsInvStep
<1>3. NeighborsInv => FanoutExactOrAbsent
  <2> SUFFICES ASSUME NeighborsInv, Fresh PROVE FanoutExactOrAbsent
    BY DEF FanoutExactOrAbsent
  <2> DEFINE fanout == lease.snapshot.fanout
             dict == lease.snapshot.dict
             counted(way, pair) == {e \in BuiltEdges : /\ e.label = dict[pair[2]]
                                                       /\ dict[pair[1]] \in LabelsOf(Near(e, way = "out"))}
             known(pair) == IF pair \in DOMAIN fanout.pairs THEN fanout.pairs[pair] ELSE NoCounts
  <2>1. FanoutShows(graph, lease)
    <3>1. local.op = "neighbors" /\ Acquired
      BY DEF Fresh, NeighborsLocal
    <3> QED
      BY <3>1 DEF NeighborsInv, Looks
  <2>2. DOMAIN dict = 1..Len(dict) /\ fanout \in Stats
    BY <2>1 DEF FanoutShows, IsDict
  <2>3. ~fanout.has => DOMAIN fanout.pairs = {}
    BY <2>2 DEF Stats, NoPairs
  <2>4. ASSUME NEW pair \in (DOMAIN dict) \X (DOMAIN dict), NEW way \in {"out", "in"}
        PROVE  counted(way, pair) = Having(graph, BuiltFrom(graph, lease), dict[pair[1]], dict[pair[2]], way = "out")
    <3>1. \A id : LabelsOf(id) = UNION {ToSet(v.labels) : v \in {v \in ToSet(graph.vertices) : v.id = id}}
      BY DEF LabelsOf, Vertices
    <3>2. BuiltEdges = BuiltFrom(graph, lease)
      BY DEF BuiltEdges, BuiltFrom, Edges
    <3> HIDE DEF dict
    <3> QED
      BY <3>1, <3>2 DEF Having
  <2>5. ASSUME fanout.has, NEW pair \in (DOMAIN dict) \X (DOMAIN dict), NEW way \in {"out", "in"}
        PROVE  /\ known(pair).edges[way] = Cardinality(counted(way, pair))
               /\ known(pair).vertices[way] = Cardinality({Near(e, way = "out") : e \in counted(way, pair)})
    <3> DEFINE a == pair[1]
               c == pair[2]
               having == Having(graph, BuiltFrom(graph, lease), dict[a], dict[c], way = "out")
    <3>1. a \in 1..Len(dict) /\ c \in 1..Len(dict) /\ pair = <<a, c>> /\ way \in Ways
      BY <2>2, <2>5 DEF Ways
    <3>2. /\ EdgesIn(fanout, a, c, way) = Cardinality(having)
          /\ VerticesIn(fanout, a, c, way) = Cardinality({Near(e, way = "out") : e \in having})
      <4> HIDE DEF a, c
      <4> QED
        BY <2>1, <2>5, <3>1, Zenon DEF FanoutShows
    <3>3. known(pair) = CountsOf(fanout, a, c)
      <4> HIDE DEF fanout, a, c
      <4> QED
        BY <3>1 DEF CountsOf
    <3>4. counted(way, pair) = having
      BY <2>4, <2>5
    <3> HIDE DEF fanout, dict, counted, known, having, a, c
    <3>5. /\ known(pair).edges[way] = Cardinality(having)
          /\ known(pair).vertices[way] = Cardinality({Near(e, way = "out") : e \in having})
      BY <3>2, <3>3 DEF EdgesIn, VerticesIn
    <3> QED
      BY <3>4, <3>5
  <2> QED
    BY <2>3, <2>5, Zenon DEF FanoutExactOrAbsent
<1> QED
  BY <1>1, <1>2, <1>3, PTL DEF Spec

-----------------------------------------------------------------------------
(* The smaller of two numbers. *)
LEMMA MinOfTwo ==
  ASSUME NEW a \in Int, NEW b \in Int
  PROVE  Min({a, b}) = IF a <= b THEN a ELSE b
<1> DEFINE m == IF a <= b THEN a ELSE b
<1>1. m \in {a, b} /\ \A y \in {a, b} : m =< y
  OBVIOUS
<1>2. Min({a, b}) \in {a, b} /\ \A y \in {a, b} : Min({a, b}) =< y
  BY <1>1 DEF Min
<1> QED
  BY <1>2

(* A finite set of pairs, sorted by its first elements, then by its second ones. *)
Ranked(S) ==
  [k \in 1..Cardinality(S) |-> CHOOSE a \in S : Cardinality({b \in S : Before(b, a)}) = k - 1]

LEMMA RankedOnce ==
  ASSUME NEW S \in SUBSET (Nat \X Nat), IsFiniteSet(S)
  PROVE  Ranked(S) \in Seq(Nat \X Nat) /\ ListsOnce(Ranked(S), S)
<1> DEFINE n == Cardinality(S)
           R == {p \in S \X S : Before(p[1], p[2])}
           rank == RankIn(S, R)
           sorted == Ranked(S)
<1>1. n \in Nat
  BY FS_CardinalityType
<1>2. \A a, b \in S : <<a, b>> \in R <=> Before(a, b)
  OBVIOUS
<1> HIDE DEF n, R
<1>3. StrictOrder(S, R)
  <2>1. \A a \in S : a[1] \in Nat /\ a[2] \in Nat /\ a = <<a[1], a[2]>>
    OBVIOUS
  <2>2. \A a, b \in S : a # b => Before(a, b) \/ Before(b, a)
    BY <2>1 DEF Before
  <2>3. \A a, b, c \in S : Before(a, b) /\ Before(b, c) => Before(a, c)
    BY <2>1 DEF Before
  <2>4. \A a \in S : ~Before(a, a)
    BY <2>1 DEF Before
  <2> QED
    BY <1>2, <2>2, <2>3, <2>4 DEF StrictOrder
<1>4. /\ rank \in [S -> 0..(n - 1)]
      /\ \A a, b \in S : rank[a] = rank[b] => a = b
      /\ \A k \in 0..(n - 1) : \E a \in S : rank[a] = k
  <2>1. rank \in Bijection(S, 0..(n - 1))
    BY <1>3, RankExact DEF n
  <2> HIDE DEF rank
  <2> QED
    BY <2>1 DEF Bijection, Injection, Surjection, IsInjective
<1>5. \A a \in S : rank[a] = Cardinality({b \in S : Before(b, a)})
  <2> SUFFICES ASSUME NEW a \in S PROVE rank[a] = Cardinality({b \in S : Before(b, a)})
    OBVIOUS
  <2>1. {b \in S : <<b, a>> \in R} = {b \in S : Before(b, a)}
    BY <1>2
  <2> QED
    BY <2>1 DEF RankIn
<1> HIDE DEF rank
<1>6. ASSUME NEW k \in 1..n PROVE sorted[k] \in S /\ rank[sorted[k]] = k - 1
  <2>1. k - 1 \in 0..(n - 1)
    BY <1>1
  <2>2. \E a \in S : Cardinality({b \in S : Before(b, a)}) = k - 1
    BY <1>4, <1>5, <2>1
  <2>3. sorted[k] = CHOOSE a \in S : Cardinality({b \in S : Before(b, a)}) = k - 1
    BY DEF Ranked, n
  <2> HIDE DEF sorted
  <2> QED
    BY <1>5, <2>2, <2>3
<1>7. DOMAIN sorted = 1..n /\ sorted = [k \in DOMAIN sorted |-> sorted[k]]
  <2>1. sorted = [k \in 1..n |-> CHOOSE a \in S : Cardinality({b \in S : Before(b, a)}) = k - 1]
    BY Zenon DEF Ranked, n
  <2> QED
    BY <2>1, Zenon
<1> HIDE DEF sorted
<1>8. sorted \in Seq(Nat \X Nat) /\ Len(sorted) = n
  <2>1. sorted \in [1..n -> Nat \X Nat]
    BY <1>6, <1>7
  <2> QED
    BY <1>1, <2>1
<1>9. \A a \in S : \E k \in 1..n : sorted[k] = a
  <2> SUFFICES ASSUME NEW a \in S PROVE \E k \in 1..n : sorted[k] = a
    OBVIOUS
  <2>1. rank[a] + 1 \in 1..n
    BY <1>1, <1>4
  <2>2. sorted[rank[a] + 1] \in S /\ rank[sorted[rank[a] + 1]] = rank[a]
    BY <1>1, <1>4, <1>6, <2>1
  <2> QED
    BY <1>4, <2>1, <2>2
<1>10. \A i, j \in 1..n : sorted[i] = sorted[j] => i = j
  <2> SUFFICES ASSUME NEW i \in 1..n, NEW j \in 1..n, sorted[i] = sorted[j] PROVE i = j
    OBVIOUS
  <2>1. i - 1 = j - 1
    BY <1>6
  <2> QED
    BY <1>1, <2>1
<1> QED
  BY <1>1, <1>6, <1>7, <1>8, <1>9, <1>10 DEF ListsOnce, sorted

(* What Without leaves, after k elements of the list. *)
Leaves(kept, s, k, D) ==
  /\ Len(kept) <= k
  /\ Len(kept) = k => \A i \in 1..k : kept[i] = s[i] /\ s[i] \notin D
  /\ \A i \in 1..Len(kept) : \E j \in 1..k : kept[i] = s[j] /\ s[j] \notin D
  /\ \A j \in 1..k : s[j] \notin D => \E i \in 1..Len(kept) : kept[i] = s[j]
  /\ (\A i, j \in 1..k : s[i] = s[j] => i = j) => \A i, j \in 1..Len(kept) : kept[i] = kept[j] => i = j

(* One more element of the list. *)
LEMMA LeavesMore ==
  ASSUME NEW X, NEW s, NEW k \in Nat, s[k + 1] \in X, NEW D, NEW kept \in Seq(X), Leaves(kept, s, k, D)
  PROVE  Leaves(IF s[k + 1] \in D THEN kept ELSE Append(kept, s[k + 1]), s, k + 1, D)
<1> DEFINE m == Len(kept)
<1>1. m \in Nat /\ \A i : i \in 1..(k + 1) <=> i \in 1..k \/ i = k + 1
  OBVIOUS
<1>2. /\ m <= k
      /\ m = k => \A i \in 1..k : kept[i] = s[i] /\ s[i] \notin D
      /\ \A i \in 1..m : \E j \in 1..k : kept[i] = s[j] /\ s[j] \notin D
      /\ \A j \in 1..k : s[j] \notin D => \E i \in 1..m : kept[i] = s[j]
      /\ (\A i, j \in 1..k : s[i] = s[j] => i = j) => \A i, j \in 1..m : kept[i] = kept[j] => i = j
  BY DEF Leaves
<1>3. CASE s[k + 1] \in D
  <2>1. m <= k + 1 /\ m # k + 1
    BY <1>1, <1>2
  <2> QED
    BY <1>1, <1>2, <1>3, <2>1 DEF Leaves
<1>4. CASE s[k + 1] \notin D
  <2> DEFINE new == Append(kept, s[k + 1])
  <2>1. Len(new) = m + 1 /\ new[m + 1] = s[k + 1] /\ \A i \in 1..m : new[i] = kept[i]
    BY AppendedTo
  <2>2. \A i : i \in 1..(m + 1) <=> i \in 1..m \/ i = m + 1
    BY <1>1
  <2>3. k + 1 \in 1..(k + 1) /\ m + 1 \in 1..(m + 1)
    BY <1>1
  <2> HIDE DEF new, m
  <2>4. m + 1 <= k + 1 /\ (m + 1 = k + 1 => m = k)
    BY <1>1, <1>2
  <2>5. m + 1 = k + 1 => \A i \in 1..(k + 1) : new[i] = s[i] /\ s[i] \notin D
    BY <1>1, <1>2, <1>4, <2>1, <2>4
  <2>6. \A i \in 1..(m + 1) : \E j \in 1..(k + 1) : new[i] = s[j] /\ s[j] \notin D
    BY <1>1, <1>2, <1>4, <2>1, <2>2
  <2>7. \A j \in 1..(k + 1) : s[j] \notin D => \E i \in 1..(m + 1) : new[i] = s[j]
    BY <1>1, <1>2, <1>4, <2>1, <2>2
  <2>8. ASSUME \A i, j \in 1..(k + 1) : s[i] = s[j] => i = j, NEW i \in 1..(m + 1), NEW j \in 1..(m + 1), new[i] = new[j]
        PROVE  i = j
    <3>1. \A p, q \in 1..m : kept[p] = kept[q] => p = q
      BY <1>1, <1>2, <2>8
    <3>2. \A p \in 1..m : new[p] # s[k + 1]
      <4> SUFFICES ASSUME NEW p \in 1..m, kept[p] = s[k + 1] PROVE FALSE
        BY <2>1
      <4>1. PICK q \in 1..k : kept[p] = s[q]
        BY <1>2
      <4>2. q = k + 1
        BY <1>1, <2>3, <2>8, <4>1
      <4> QED
        BY <4>2
    <3> QED
      BY <2>1, <2>2, <2>8, <3>1, <3>2
  <2>9. Leaves(new, s, k + 1, D)
    BY <2>1, <2>4, <2>5, <2>6, <2>7, <2>8 DEF Leaves
  <2> QED
    BY <1>4, <2>9 DEF new
<1> QED
  BY <1>3, <1>4

(* Without keeps the elements that are not dropped, in their order. *)
LEMMA WithoutExact ==
  ASSUME NEW X, NEW s \in Seq(X), NEW D
  PROVE  Without(s, D) \in Seq(X) /\ Leaves(Without(s, D), s, Len(s), D)
<1> DEFINE n == Len(s)
           T == Seq(X)
           base == <<>>
           Put(kept, k) == IF s[k] \in D THEN kept ELSE Append(kept, s[k])
           step == [k \in 1..n |-> [kept \in T |-> Put(kept, k)]]
           F(it) == it = [S \in SUBSET (DOMAIN s) |->
                            IF S = {} THEN base ELSE Put(it[S \ {Max(S)}], Max(S))]
           it == CHOOSE it : F(it)
<1>0. n \in Nat /\ DOMAIN s = 1..n /\ \A k \in 1..n : s[k] \in X
  OBVIOUS
<1>1. Without(s, D) = it[DOMAIN s]
  BY DEF Without, FoldLeft, MapThenFoldSet
<1>2. base \in T
  OBVIOUS
<1>3. \A kept \in T, k \in 1..n : Put(kept, k) \in T
  <2> SUFFICES ASSUME NEW kept \in T, NEW k \in 1..n PROVE Put(kept, k) \in T
    OBVIOUS
  <2>1. s[k] \in X
    BY <1>0
  <2> QED
    BY <2>1
<1> HIDE DEF n
<1>4. step \in [1..n -> [T -> T]]
  <2> HIDE DEF T, Put
  <2> QED
    BY <1>0, <1>3
<1>5. PICK fold : IsFold(fold, n, T, base, step)
  <2> HIDE DEF T, base, step
  <2> QED
    BY <1>0, <1>2, <1>4, FoldRuns
<1>6. \A S \in SUBSET (1..n) : S # {} => Max(S) \in 1..n /\ S \ {Max(S)} \in SUBSET (1..n)
  BY <1>0, MaxOf
<1>7. /\ fold \in [SUBSET (1..n) -> T]
      /\ \A S \in SUBSET (1..n) :
            fold[S] = IF S = {} THEN base ELSE step[Max(S)][fold[S \ {Max(S)}]]
  <2> HIDE DEF T, base, step
  <2> QED
    BY <1>5 DEF IsFold
<1>8. \A S \in SUBSET (1..n) :
         fold[S] = IF S = {} THEN base ELSE Put(fold[S \ {Max(S)}], Max(S))
  <2> SUFFICES ASSUME NEW S \in SUBSET (1..n), S # {}
               PROVE  step[Max(S)][fold[S \ {Max(S)}]] = Put(fold[S \ {Max(S)}], Max(S))
    <3> HIDE DEF T, base, step, Put
    <3> QED
      BY <1>7
  <2>1. Max(S) \in 1..n /\ fold[S \ {Max(S)}] \in T
    <3> HIDE DEF T, base, step
    <3> QED
      BY <1>6, <1>7
  <2> HIDE DEF T, base, Put
  <2> QED
    BY <2>1, <1>0
<1>9. F(fold)
  <2> HIDE DEF T, base, step, Put
  <2> QED
    BY <1>7, <1>8, <1>0
<1>10. F(it)
  <2> HIDE DEF base, Put
  <2> QED
    BY <1>9, Zenon
<1>11. \A S \in SUBSET (1..n) : it[S] = IF S = {} THEN base ELSE Put(it[S \ {Max(S)}], Max(S))
  <2> HIDE DEF base, Put, it
  <2> QED
    BY <1>10, <1>0
<1>12. PICK run : IsRun(run, n, T, base, step) /\ run[n] = it[1..n]
  <2>1. it[{}] = base
    <3> HIDE DEF base, Put, it
    <3> QED
      BY <1>11
  <2>2. ASSUME NEW S \in SUBSET (1..n), S # {}, it[S \ {Max(S)}] \in T
        PROVE  it[S] = step[Max(S)][it[S \ {Max(S)}]]
    <3>1. it[S] = Put(it[S \ {Max(S)}], Max(S)) /\ Max(S) \in 1..n
      <4> HIDE DEF base, Put, it
      <4> QED
        BY <1>6, <1>11, <2>2
    <3> HIDE DEF T, Put, it
    <3> QED
      BY <3>1, <2>2, <1>0
  <2> HIDE DEF T, base, step, it
  <2>3. IsChain(it, n, T, base, step)
    BY <2>1, <2>2 DEF IsChain
  <2> QED
    BY <2>3, <1>4, <1>0, <1>2, FoldFollows
<1>13. run \in [0..n -> T] /\ run[0] = base /\ \A k \in 1..n : run[k] = Put(run[k - 1], k)
  <2>1. run \in [0..n -> T] /\ run[0] = base /\ \A k \in 1..n : run[k] = step[k][run[k - 1]]
    <3> HIDE DEF T, base, step
    <3> QED
      BY <1>12 DEF IsRun
  <2>2. \A k \in 1..n : run[k - 1] \in T
    <3>1. \A k \in 1..n : k - 1 \in 0..n
      BY <1>0
    <3> HIDE DEF T, base, step
    <3> QED
      BY <2>1, <3>1
  <2> HIDE DEF T, base, Put
  <2> QED
    BY <2>1, <2>2
<1>14. Without(s, D) = run[n]
  <2> HIDE DEF it
  <2> QED
    BY <1>0, <1>1, <1>12
<1> HIDE DEF it, F, step
<1> DEFINE Holds == {k \in 0..n : Leaves(run[k], s, k, D)}
<1>15. 0 \in Holds
  <2>1. run[0] = <<>> /\ Len(<<>>) = 0 /\ 1..0 = {}
    <3> HIDE DEF T, Put
    <3> QED
      BY <1>13
  <2> QED
    BY <1>0, <2>1 DEF Leaves
<1>16. ASSUME NEW k \in 0..(n - 1), k \in Holds PROVE k + 1 \in Holds
  <2>1. k + 1 \in 1..n /\ k + 1 \in 0..n /\ (k + 1) - 1 = k /\ k \in 0..n /\ k \in Nat
    BY <1>0
  <2>2. run[k + 1] = Put(run[k], k + 1) /\ run[k] \in T
    <3> HIDE DEF T, Put
    <3> QED
      BY <1>13, <2>1
  <2>3. Leaves(run[k], s, k, D) /\ s[k + 1] \in X
    BY <1>0, <1>16, <2>1
  <2>4. Leaves(IF s[k + 1] \in D THEN run[k] ELSE Append(run[k], s[k + 1]), s, k + 1, D)
    BY <2>1, <2>2, <2>3, LeavesMore
  <2> QED
    BY <2>1, <2>2, <2>4
<1>17. 0..n \subseteq Holds
  <2> HIDE DEF Holds
  <2> QED
    BY <1>0, <1>15, <1>16, NumberSteps
<1>18. n \in Holds /\ run[n] \in T
  <2>1. n \in 0..n
    BY <1>0
  <2> HIDE DEF T, Put, Holds
  <2> QED
    BY <1>13, <1>17, <2>1
<1> QED
  BY <1>14, <1>18 DEF n

(* What a chunk of a fetch may ask for. *)
Askable(g, chunk, hidden) ==
  /\ chunk \in ElementsCall /\ hidden \in SUBSET Nat
  /\ ~chunk.vertex =>
        /\ \A i \in DOMAIN g.edges : g.edges[i].id = i
        /\ \A id \in ToSet(chunk.ids) \ {0, Null} : id \in DOMAIN g.edges \/ id - 1 \in hidden

(* The rows of the tables an id names. *)
RowsNamed(g, chunk, id) ==
  IF chunk.vertex THEN {v.row : v \in {v \in ToSet(g.vertices) : v.id = id}}
  ELSE {e.id - 1 : e \in {e \in ToSet(g.edges) : e.id = id}}

(* An id of a vertex leads to the row of the vertex. *)
LEMMA VertexRowsFound ==
  ASSUME IsGraph(graph), LeaseDescribes(lease, graph.vertices, graph.edges), RowIdsKnown(lease, graph.vertices),
         Now.vertex, NEW id \in Nat
  PROVE  /\ RowsOf(id) = RowsNamed(graph, Now, id)
         /\ RowsOf(id) \in SUBSET Nat /\ \A r, q \in RowsOf(id) : r = q
<1> DEFINE ids == IdsIn(lease)
           V == ToSet(graph.vertices)
<1>1. /\ \A v \in V : v \in VertexRow
      /\ \A v, w \in V : v.id = w.id => v = w
  <2>1. IsTables(graph.vertices, graph.edges)
    BY DEF IsGraph
  <2>2. /\ graph.vertices \in Seq(VertexRow) /\ DOMAIN graph.vertices = 1..Len(graph.vertices)
        /\ \A i, j \in 1..Len(graph.vertices) : graph.vertices[i].id = graph.vertices[j].id => i = j
    BY <2>1, TablesTyped
  <2> QED
    BY <2>2 DEF ToSet
<1>2. OrdinalIn(lease, id) = {o \in DOMAIN ids : ids[o] = id}
  BY DEF LeaseDescribes, FindsAll, IdsIn, OrdinalIn
<1>3. \A v \in V : \E o \in DOMAIN ids : ids[o] = v.id
  BY DEF LeaseDescribes, IdsIn
<1>4. \A o \in DOMAIN ids : \E v \in V : v.id = ids[o] /\ v.row = RowIdIn(lease, o)
  BY DEF RowIdsKnown, IdsIn
<1>5. RowsOf(id) = {RowIdIn(lease, o) : o \in OrdinalIn(lease, id)}
  BY DEF RowsOf
<1>6. RowsNamed(graph, Now, id) = {v.row : v \in {v \in V : v.id = id}}
  BY DEF RowsNamed
<1> HIDE DEF ids, V
<1>7. ASSUME NEW v \in V, v.id = id PROVE v.row \in RowsOf(id)
  <2>1. PICK o \in DOMAIN ids : ids[o] = id
    BY <1>3, <1>7
  <2>2. PICK w \in V : w.id = ids[o] /\ w.row = RowIdIn(lease, o)
    BY <1>4
  <2>3. w = v
    BY <1>1, <1>7, <2>1, <2>2
  <2> QED
    BY <1>2, <1>5, <2>1, <2>2, <2>3
<1>8. ASSUME NEW r \in RowsOf(id) PROVE \E v \in V : v.id = id /\ v.row = r
  <2>1. PICK o \in DOMAIN ids : ids[o] = id /\ r = RowIdIn(lease, o)
    BY <1>2, <1>5
  <2> QED
    BY <1>4, <2>1
<1>9. RowsOf(id) = RowsNamed(graph, Now, id)
  BY <1>6, <1>7, <1>8
<1>10. \A r \in RowsOf(id) : r \in Nat
  BY <1>1, <1>8 DEF VertexRow
<1>11. \A r, q \in RowsOf(id) : r = q
  BY <1>1, <1>8
<1> QED
  BY <1>9, <1>10, <1>11

(* An id of an edge leads to the row of the edge, or to none the transaction sees. *)
LEMMA EdgeRowsFound ==
  ASSUME IsGraph(graph), Askable(graph, Now, local.hidden), ~Now.vertex, NEW id \in Nat, id \in ToSet(Now.ids)
  PROVE  /\ RowsOf(id) \ local.hidden = RowsNamed(graph, Now, id) \ local.hidden
         /\ RowsOf(id) \in SUBSET Nat /\ \A r, q \in RowsOf(id) : r = q
<1> DEFINE E == ToSet(graph.edges)
<1>1. RowsOf(id) = {id - 1} \ {-1} /\ RowsNamed(graph, Now, id) = {e.id - 1 : e \in {e \in E : e.id = id}}
  BY DEF RowsOf, RowsNamed
<1>2. \A i \in DOMAIN graph.edges : graph.edges[i].id = i /\ i \in Nat /\ i > 0
  BY DEF Askable, IsGraph, IsTables
<1>3. \A e \in E : e.id \in Nat /\ e.id > 0
  BY <1>2 DEF ToSet
<1>4. id \in DOMAIN graph.edges => \E e \in E : e.id = id
  BY <1>2 DEF ToSet
<1>5. id # 0 => id \in DOMAIN graph.edges \/ id - 1 \in local.hidden
  BY ReaderAssumption DEF Askable
<1> HIDE DEF E
<1>6. CASE id = 0
  <2>1. RowsOf(id) = {}
    BY <1>1, <1>6
  <2>2. RowsNamed(graph, Now, id) = {}
    BY <1>1, <1>3, <1>6
  <2> QED
    BY <2>1, <2>2
<1>7. CASE id # 0
  <2>1. RowsOf(id) = {id - 1} /\ id - 1 \in Nat
    BY <1>1, <1>7
  <2>2. \A r : r \in RowsNamed(graph, Now, id) <=> r = id - 1 /\ \E e \in E : e.id = id
    BY <1>1
  <2>3. RowsOf(id) \ local.hidden = RowsNamed(graph, Now, id) \ local.hidden
    BY <1>4, <1>5, <1>7, <2>1, <2>2
  <2> QED
    BY <2>1, <2>3
<1> QED
  BY <1>6, <1>7

(* The pairs of a row and a place that FetchRequests sorts. *)
PairsAsked ==
  UNION {{<<row, place>> : row \in RowsOf(Now.ids[place])} : place \in {p \in DOMAIN Now.ids : Now.ids[p] # Null}}

(* What a chunk asks for and its transaction sees. *)
Seen(g, chunk, hidden) ==
  UNION {{<<row, place>> : row \in RowsNamed(g, chunk, chunk.ids[place]) \ hidden} : place \in DOMAIN chunk.ids}

(* The pairs asked for are finitely many, and those seen are those of the tables. *)
LEMMA PairsAskedExact ==
  ASSUME IsGraph(graph), LeaseDescribes(lease, graph.vertices, graph.edges), RowIdsKnown(lease, graph.vertices),
         Askable(graph, Now, local.hidden)
  PROVE  /\ PairsAsked \in SUBSET (Nat \X Nat) /\ IsFiniteSet(PairsAsked)
         /\ {a \in PairsAsked : a[1] \notin local.hidden} = Seen(graph, Now, local.hidden)
<1> DEFINE ids == Now.ids
           P == {p \in DOMAIN ids : ids[p] # Null}
<1>1. ids \in Seq(Nat \cup {Null}) /\ Len(ids) \in Nat /\ DOMAIN ids = 1..Len(ids) /\ Null \notin Nat
  BY ReaderAssumption DEF Askable, ElementsCall
<1>2. \A p \in P : p \in 1..Len(ids) /\ p \in Nat /\ ids[p] \in Nat /\ ids[p] \in ToSet(ids)
  BY <1>1 DEF ToSet
<1>3. \A p \in P : /\ RowsOf(ids[p]) \in SUBSET Nat /\ \A r, q \in RowsOf(ids[p]) : r = q
                   /\ RowsOf(ids[p]) \ local.hidden = RowsNamed(graph, Now, ids[p]) \ local.hidden
  <2> SUFFICES ASSUME NEW p \in P
               PROVE  /\ RowsOf(ids[p]) \in SUBSET Nat /\ \A r, q \in RowsOf(ids[p]) : r = q
                      /\ RowsOf(ids[p]) \ local.hidden = RowsNamed(graph, Now, ids[p]) \ local.hidden
    OBVIOUS
  <2>1. ids[p] \in Nat /\ ids[p] \in ToSet(Now.ids)
    BY <1>2
  <2>2. CASE Now.vertex
    BY <2>1, <2>2, VertexRowsFound
  <2>3. CASE ~Now.vertex
    BY <2>1, <2>3, EdgeRowsFound
  <2> QED
    BY <2>2, <2>3
<1>4. \A p \in DOMAIN ids \ P : RowsNamed(graph, Now, ids[p]) = {}
  <2> SUFFICES ASSUME NEW p \in DOMAIN ids, ids[p] = Null PROVE RowsNamed(graph, Now, ids[p]) = {}
    OBVIOUS
  <2>1. graph.vertices \in Seq(VertexRow) /\ graph.edges \in Seq(EdgeRow)
    BY DEF IsGraph, IsTables
  <2>2. (\A v \in ToSet(graph.vertices) : v.id \in Nat) /\ (\A e \in ToSet(graph.edges) : e.id \in Nat)
    <3>1. (\A i \in DOMAIN graph.vertices : graph.vertices[i] \in VertexRow)
          /\ \A i \in DOMAIN graph.edges : graph.edges[i] \in EdgeRow
      BY <2>1
    <3> QED
      BY <3>1 DEF ToSet, VertexRow, EdgeRow
  <2>3. /\ {v \in ToSet(graph.vertices) : v.id = Null} = {}
        /\ {e \in ToSet(graph.edges) : e.id = Null} = {}
    BY <1>1, <2>2
  <2> QED
    BY <2>3 DEF RowsNamed
<1>5. \A a : a \in PairsAsked <=> \E p \in P : \E r \in RowsOf(ids[p]) : a = <<r, p>>
  BY DEF PairsAsked
<1> HIDE DEF ids, P
<1>6. \A a \in PairsAsked : a \in Nat \X Nat /\ a[2] \in P /\ a[1] \in RowsOf(ids[a[2]]) /\ a = <<a[1], a[2]>>
  BY <1>2, <1>3, <1>5
<1>7. \A r, p : p \in P /\ r \in RowsOf(ids[p]) => <<r, p>> \in PairsAsked
  BY <1>5
<1>8. IsFiniteSet(PairsAsked)
  <2> DEFINE places == [a \in PairsAsked |-> a[2]]
  <2>1. IsFiniteSet(1..Len(ids))
    BY <1>1, FS_Interval DEF ids
  <2>2. \A a \in PairsAsked : a[2] \in 1..Len(ids)
    BY <1>2, <1>6
  <2>3. \A a, b \in PairsAsked : a[2] = b[2] => a = b
    BY <1>3, <1>6
  <2>4. places \in Injection(PairsAsked, 1..Len(ids))
    BY <2>2, <2>3 DEF Injection, IsInjective
  <2> HIDE DEF places
  <2> QED
    BY <2>1, <2>4, FS_Injection
<1>9. \A a : a \in Seen(graph, Now, local.hidden) <=>
          \E p \in DOMAIN ids : \E r \in RowsNamed(graph, Now, ids[p]) \ local.hidden : a = <<r, p>>
  BY DEF Seen, ids
<1>10. ASSUME NEW a PROVE a \in PairsAsked /\ a[1] \notin local.hidden <=> a \in Seen(graph, Now, local.hidden)
  <2>1. ASSUME a \in PairsAsked, a[1] \notin local.hidden PROVE a \in Seen(graph, Now, local.hidden)
    <3>1. a[2] \in P /\ a[1] \in RowsOf(ids[a[2]]) /\ a = <<a[1], a[2]>>
      BY <1>6, <2>1
    <3>2. a[2] \in DOMAIN ids /\ a[1] \in RowsNamed(graph, Now, ids[a[2]]) \ local.hidden
      BY <1>3, <2>1, <3>1 DEF P
    <3> QED
      BY <1>9, <3>1, <3>2
  <2>2. ASSUME a \in Seen(graph, Now, local.hidden) PROVE a \in PairsAsked /\ a[1] \notin local.hidden
    <3>0. PICK p \in DOMAIN ids : \E r \in RowsNamed(graph, Now, ids[p]) \ local.hidden : a = <<r, p>>
      BY <1>9, <2>2
    <3>1. PICK r \in RowsNamed(graph, Now, ids[p]) \ local.hidden : a = <<r, p>>
      BY <3>0
    <3>2. p \in P
      BY <1>4, <3>1
    <3>3. r \in RowsOf(ids[p]) /\ r \notin local.hidden
      BY <1>3, <3>1, <3>2
    <3> QED
      BY <1>7, <3>1, <3>2, <3>3
  <2> QED
    BY <2>1, <2>2
<1>11. {a \in PairsAsked : a[1] \notin local.hidden} = Seen(graph, Now, local.hidden)
  BY <1>10
<1> QED
  BY <1>6, <1>8, <1>11

(* What a chunk's fetch finds. *)
FoundRows == BesidePlaces(FetchRequests, FetchRows([k \in DOMAIN FetchRequests |-> FetchRequests[k][1]]))

(* The rows that are packed are set beside the places that asked for them. *)
LEMMA FoundRowsExact ==
  ASSUME IsGraph(graph), LeaseDescribes(lease, graph.vertices, graph.edges), RowIdsKnown(lease, graph.vertices),
         Askable(graph, Now, local.hidden)
  PROVE  FoundRows \in Seq(Nat \X Nat) /\ ListsOnce(FoundRows, Seen(graph, Now, local.hidden))
<1> DEFINE asked == FetchRequests
           S == PairsAsked
           n == Len(asked)
           firsts == [k \in DOMAIN asked |-> asked[k][1]]
           rows == FetchRows(firsts)
           unseen == {a \in ToSet(asked) : FetchRows(<<a[1]>>) = <<>>}
           visible == {a \in S : a[1] \notin local.hidden}
<1>1. /\ S \in SUBSET (Nat \X Nat) /\ IsFiniteSet(S)
      /\ visible = Seen(graph, Now, local.hidden)
  BY PairsAskedExact
<1>2. asked = Ranked(S)
  BY DEF FetchRequests, Ranked, PairsAsked
<1>3. FoundRows = IF Len(rows) = n THEN [k \in DOMAIN rows |-> <<rows[k], asked[k][2]>>] ELSE Without(asked, unseen)
  BY DEF FoundRows, BesidePlaces
<1>4. \A list : FetchRows(list) = Without(list, local.hidden)
  BY DEF FetchRows
<1> HIDE DEF asked, S
<1>5. asked \in Seq(Nat \X Nat) /\ ListsOnce(asked, S)
  BY <1>1, <1>2, RankedOnce
<1>6. /\ n \in Nat /\ DOMAIN asked = 1..n
      /\ \A i \in 1..n : asked[i] \in S /\ asked[i] = <<asked[i][1], asked[i][2]>> /\ asked[i][1] \in Nat
      /\ \A a \in S : \E i \in 1..n : asked[i] = a
      /\ \A i, j \in 1..n : asked[i] = asked[j] => i = j
  <2>1. \A i \in 1..Len(asked) : asked[i] \in Nat \X Nat
    BY <1>5
  <2> QED
    BY <1>5, <2>1 DEF ListsOnce
<1>7. firsts \in Seq(Nat) /\ Len(firsts) = n /\ \A i \in 1..n : firsts[i] = asked[i][1]
  <2>1. firsts \in [1..n -> Nat] /\ DOMAIN firsts = 1..n
    BY <1>6
  <2> HIDE DEF n
  <2> QED
    BY <1>6, <2>1
<1> HIDE DEF firsts
<1>8. rows \in Seq(Nat) /\ Leaves(rows, firsts, n, local.hidden)
  BY <1>4, <1>7, WithoutExact
<1> HIDE DEF rows
<1>9. \A x \in Nat : FetchRows(<<x>>) = <<>> <=> x \in local.hidden
  <2> SUFFICES ASSUME NEW x \in Nat PROVE FetchRows(<<x>>) = <<>> <=> x \in local.hidden
    OBVIOUS
  <2> DEFINE one == <<x>>
             kept == Without(one, local.hidden)
  <2>1. one \in Seq(Nat) /\ Len(one) = 1 /\ one[1] = x /\ 1 \in 1..1
    OBVIOUS
  <2>2. kept \in Seq(Nat) /\ Leaves(kept, one, 1, local.hidden)
    <3> HIDE DEF one
    <3> QED
      BY <2>1, WithoutExact
  <2> HIDE DEF one, kept
  <2>3. x \in local.hidden => kept = <<>>
    <3> SUFFICES ASSUME x \in local.hidden, kept # <<>> PROVE FALSE
      OBVIOUS
    <3>1. 1 \in 1..Len(kept)
      BY <2>2
    <3>2. PICK j \in 1..1 : one[j] \notin local.hidden
      BY <2>2, <3>1 DEF Leaves
    <3> QED
      BY <2>1, <3>2
  <2>4. x \notin local.hidden => kept # <<>>
    <3>1. x \notin local.hidden => \E i \in 1..Len(kept) : kept[i] = x
      BY <2>1, <2>2 DEF Leaves
    <3> QED
      BY <3>1
  <2>5. FetchRows(<<x>>) = kept
    BY <1>4 DEF kept, one
  <2> QED
    BY <2>3, <2>4, <2>5
<1>10. CASE Len(rows) = n
  <2>1. \A i \in 1..n : rows[i] = asked[i][1] /\ asked[i][1] \notin local.hidden
    BY <1>7, <1>8, <1>10 DEF Leaves
  <2>2. DOMAIN rows = 1..n
    BY <1>8, <1>10
  <2>3. FoundRows = [k \in 1..n |-> <<rows[k], asked[k][2]>>]
    BY <1>3, <1>10, <2>2
  <2>4. FoundRows = asked
    <3>1. \A i \in 1..n : <<rows[i], asked[i][2]>> = asked[i]
      BY <1>6, <2>1
    <3>2. asked = [k \in 1..n |-> asked[k]]
      BY <1>5, <1>6
    <3> HIDE DEF n
    <3> QED
      BY <2>3, <3>1, <3>2
  <2>5. S = visible
    BY <1>6, <2>1
  <2> QED
    BY <1>1, <1>5, <2>4, <2>5
<1>11. CASE Len(rows) # n
  <2>1. FoundRows = Without(asked, unseen)
    BY <1>3, <1>11
  <2>2. FoundRows \in Seq(Nat \X Nat) /\ Leaves(FoundRows, asked, n, unseen)
    BY <1>5, <2>1, WithoutExact
  <2>3. \A i \in 1..n : asked[i] \in unseen <=> asked[i][1] \in local.hidden
    <3>1. \A i \in 1..n : asked[i] \in ToSet(asked)
      BY <1>6 DEF ToSet
    <3> QED
      BY <1>6, <1>9, <3>1
  <2> HIDE DEF unseen, n
  <2> DEFINE m == Len(FoundRows)
  <2>4. m \in Nat /\ DOMAIN FoundRows = 1..m
    BY <2>2
  <2>5. /\ \A i \in 1..m : \E j \in 1..n : FoundRows[i] = asked[j] /\ asked[j] \notin unseen
        /\ \A j \in 1..n : asked[j] \notin unseen => \E i \in 1..m : FoundRows[i] = asked[j]
        /\ \A i, j \in 1..m : FoundRows[i] = FoundRows[j] => i = j
    BY <1>6, <2>2 DEF Leaves
  <2> HIDE DEF m
  <2>6. \A i \in 1..m : FoundRows[i] \in visible
    BY <1>6, <2>3, <2>5
  <2>7. ASSUME NEW a \in visible PROVE \E i \in 1..m : FoundRows[i] = a
    <3>1. PICK j \in 1..n : asked[j] = a
      BY <1>6
    <3>2. asked[j] \notin unseen
      BY <2>3, <2>7, <3>1
    <3> QED
      BY <2>5, <3>1, <3>2
  <2> HIDE DEF visible
  <2>8. ListsOnce(FoundRows, visible)
    BY <2>4, <2>5, <2>6, <2>7 DEF ListsOnce, m
  <2> QED
    BY <1>1, <2>2, <2>8
<1> QED
  BY <1>10, <1>11

(* What a lease holds for a label. *)
PostedFor(held, label) ==
  LET ranges == {PostingRange(held.snapshot, id) : id \in FindLabel(held.snapshot.dict, label)}
  IN  IF ranges = {} THEN <<>> ELSE CHOOSE range \in ranges : TRUE

InsertedFor(held, label) ==
  LET lists == {At(held.delta.byLabel, id) : id \in FindLabel(held.snapshot.dict, label)}
  IN  IF lists = {} THEN <<>> ELSE CHOOSE list \in lists : TRUE

ListFor(held, label) ==
  [k \in 1..Len(PostedFor(held, label)) |-> held.snapshot.ids[PostedFor(held, label)[k]]] \o InsertedFor(held, label)

Labelled(g, label) == {id \in {v.id : v \in ToSet(g.vertices)} : label \in LabelsAt(g, id)}

(* Together they are the vertices that have the label, each once. *)
LEMMA ListedOnce ==
  ASSUME IsGraph(graph), LeaseDescribes(lease, graph.vertices, graph.edges), Sized(lease), HasPostings(lease),
         NEW label \in STRING
  PROVE  /\ PostedFor(lease, label) \in Seq(Nat) /\ InsertedFor(lease, label) \in Seq(Nat)
         /\ [k \in 1..Len(PostedFor(lease, label)) |-> lease.snapshot.ids[PostedFor(lease, label)[k]]] \in Seq(Nat)
         /\ ListFor(lease, label) \in Seq(Nat) /\ ListsOnce(ListFor(lease, label), Labelled(graph, label))
<1> DEFINE s == lease.snapshot
           d == lease.delta
           size == s.size
           found == FindLabel(s.dict, label)
           Posted1 == PostedFor(lease, label)
           Inserted1 == InsertedFor(lease, label)
           PostedIds == [k \in 1..Len(PostedFor(lease, label)) |-> lease.snapshot.ids[PostedFor(lease, label)[k]]]
<1>0. \A id : LabelsOf(id) = LabelsAt(graph, id)
  BY DEF LabelsOf, LabelsAt, Vertices
<1>1. Labelled(graph, label) = {id \in VertexIds : label \in LabelsOf(id)}
  BY <1>0 DEF Labelled, VertexIds, Vertices
<1>2. CASE found = {}
  <2>1. Posted1 = <<>> /\ Inserted1 = <<>>
    <3>1. {PostingRange(s, id) : id \in found} = {} /\ {At(d.byLabel, id) : id \in found} = {}
      BY <1>2
    <3> QED
      BY <3>1 DEF PostedFor, InsertedFor
  <2>2. PostedIds = <<>> /\ Len(<<>>) = 0
    <3>1. Len(Posted1) = 0
      BY <2>1
    <3>2. PostedIds = [k \in 1..0 |-> lease.snapshot.ids[Posted1[k]]]
      BY <3>1
    <3> QED
      BY <3>2
  <2>3. Labelled(graph, label) = {}
    <3>1. \A v \in ToSet(graph.vertices) : label \notin LabelsAt(graph, v.id)
      BY <1>2, LabelsFound
    <3> QED
      BY <3>1 DEF Labelled
  <2>4. <<>> \o <<>> = <<>> /\ <<>> \in Seq(Nat) /\ ListsOnce(<<>>, {})
    BY DEF ListsOnce
  <2>5. ListFor(lease, label) = PostedIds \o Inserted1
    BY DEF ListFor
  <2> HIDE DEF PostedIds, Posted1, Inserted1
  <2>6. /\ Posted1 \in Seq(Nat) /\ Inserted1 \in Seq(Nat) /\ PostedIds \in Seq(Nat) /\ ListFor(lease, label) = <<>>
    BY <2>1, <2>2, <2>4, <2>5
  <2> QED
    BY <2>3, <2>4, <2>6 DEF PostedIds, Posted1, Inserted1
<1>3. CASE found # {}
  <2>1. PICK l \in 1..Len(s.dict) : found = {l}
    <3>1. IsDict(s.dict)
      BY DEF LeaseDescribes
    <3> QED
      BY <1>3, <3>1, FoundOnce
  <2> DEFINE range == PostingRange(s, l)
             list == At(d.byLabel, l)
             Has == {o \in 0..(size - 1) : Known(s.vertexLabels[o], l)}
             posted == {VertexIdIn(lease, o) : o \in ToSet(range)}
             inserted == ToSet(list)
  <2>2. Posted1 = range /\ Inserted1 = list
    <3>1. {PostingRange(s, id) : id \in found} = {range} /\ {At(d.byLabel, id) : id \in found} = {list}
      BY <2>1
    <3>2. \A x : (CHOOSE y \in {x} : TRUE) = x /\ {x} # {}
      OBVIOUS
    <3> HIDE DEF range, list
    <3> QED
      BY <3>1, <3>2 DEF PostedFor, InsertedFor
  <2>3. posted \cup inserted = Labelled(graph, label) /\ posted \cap inserted = {}
    <3>2. FindLabel(lease.snapshot.dict, label) = {l} /\ FindLabel(lease.snapshot.dict, label) # {}
      BY <2>1
    <3> DEFINE all == UNION {{VertexIdIn(lease, o) : o \in ToSet(PostingRange(lease.snapshot, id))} :
                               id \in FindLabel(lease.snapshot.dict, label)}
               more == UNION {ToSet(At(lease.delta.byLabel, id)) : id \in FindLabel(lease.snapshot.dict, label)}
    <3>3. all \cup more = {id \in VertexIds : label \in LabelsOf(id)} /\ all \cap more = {}
      BY <3>2, PostingsShow
    <3>4. all = posted /\ more = inserted
      BY <3>2
    <3> HIDE DEF all, more, posted, inserted
    <3> QED
      BY <1>1, <3>3, <3>4
  <2>4. /\ range \in Seq(Nat) /\ ListsOnce(range, Has)
        /\ list \in Seq(Nat) /\ IsInjective(list)
    BY DEF HasPostings, PostsOf, Posts
  <2>5. /\ size \in Nat /\ s.ids \in [0..(size - 1) -> Nat]
        /\ \A i, j \in 0..(size - 1) : s.ids[i] = s.ids[j] => i = j
    <3>1. size \in Nat /\ AscendingIds(s.ids, size)
      BY DEF Sized
    <3>2. \A i, j \in 0..(size - 1) : i # j => s.ids[i] < s.ids[j] \/ s.ids[j] < s.ids[i]
      <4> SUFFICES ASSUME NEW i \in 0..(size - 1), NEW j \in 0..(size - 1), i # j
                   PROVE  s.ids[i] < s.ids[j] \/ s.ids[j] < s.ids[i]
        OBVIOUS
      <4>1. i < j \/ j < i
        BY <3>1
      <4>2. i < j => s.ids[i] < s.ids[j]
        BY <3>1 DEF AscendingIds
      <4>3. j < i => s.ids[j] < s.ids[i]
        BY <3>1 DEF AscendingIds
      <4> QED
        BY <4>1, <4>2, <4>3
    <3>3. \A i \in 0..(size - 1) : s.ids[i] \in Nat
      BY <3>1 DEF AscendingIds
    <3> HIDE DEF s
    <3> QED
      BY <3>1, <3>2, <3>3 DEF AscendingIds
  <2>6. \A o \in 0..(size - 1) : VertexIdIn(lease, o) = s.ids[o]
    BY <2>5 DEF VertexIdIn, VertexId
  <2>7. /\ Len(range) \in Nat /\ DOMAIN range = 1..Len(range)
        /\ \A i \in 1..Len(range) : range[i] \in 0..(size - 1)
        /\ \A i, j \in 1..Len(range) : range[i] = range[j] => i = j
    BY <2>4 DEF ListsOnce
  <2>8. PostedIds = [k \in 1..Len(range) |-> s.ids[range[k]]]
    BY <2>2
  <2>13. ListFor(lease, label) = PostedIds \o list
    BY <2>2 DEF ListFor
  <2> HIDE DEF s, range, list, Has, size, PostedIds, Posted1, Inserted1
  <2>9. PostedIds \in Seq(Nat) /\ Len(PostedIds) = Len(range) /\ \A i \in 1..Len(range) : PostedIds[i] = s.ids[range[i]]
    <3>1. \A i \in 1..Len(range) : s.ids[range[i]] \in Nat
      BY <2>5, <2>7
    <3> QED
      BY <2>7, <2>8, <3>1
  <2>10. ListsOnce(PostedIds, posted)
    <3>1. posted = {s.ids[range[i]] : i \in 1..Len(range)}
      <4>1. \A x : x \in ToSet(range) <=> \E i \in 1..Len(range) : x = range[i]
        BY <2>7 DEF ToSet
      <4>2. \A x : x \in posted <=> \E i \in 1..Len(range) : x = VertexIdIn(lease, range[i])
        BY <4>1
      <4> HIDE DEF posted
      <4>3. \A i \in 1..Len(range) : VertexIdIn(lease, range[i]) = s.ids[range[i]]
        BY <2>6, <2>7
      <4> QED
        BY <4>2, <4>3
    <3> HIDE DEF posted
    <3>2. \A i, j \in 1..Len(range) : PostedIds[i] = PostedIds[j] => i = j
      <4> SUFFICES ASSUME NEW i \in 1..Len(range), NEW j \in 1..Len(range), PostedIds[i] = PostedIds[j] PROVE i = j
        OBVIOUS
      <4>1. s.ids[range[i]] = s.ids[range[j]] /\ range[i] \in 0..(size - 1) /\ range[j] \in 0..(size - 1)
        BY <2>7, <2>9
      <4>2. range[i] = range[j]
        BY <2>5, <4>1
      <4> QED
        BY <2>7, <4>2
    <3>3. DOMAIN PostedIds = 1..Len(range)
      BY <2>9
    <3>4. \A i \in 1..Len(range) : PostedIds[i] \in posted
      BY <2>9, <3>1
    <3>5. \A x \in posted : \E i \in 1..Len(range) : PostedIds[i] = x
      BY <2>9, <3>1
    <3> QED
      BY <2>7, <2>9, <3>2, <3>3, <3>4, <3>5 DEF ListsOnce
  <2>11. ListsOnce(list, inserted)
    <3>1. Len(list) \in Nat /\ DOMAIN list = 1..Len(list)
      BY <2>4
    <3> QED
      BY <2>4, <3>1 DEF ListsOnce, ToSet, IsInjective
  <2> HIDE DEF posted, inserted
  <2>12. PostedIds \o list \in Seq(Nat) /\ ListsOnce(PostedIds \o list, posted \cup inserted)
    BY <2>3, <2>4, <2>9, <2>10, <2>11, JoinOnce
  <2>14. Posted1 \in Seq(Nat) /\ Inserted1 \in Seq(Nat) /\ ListFor(lease, label) \in Seq(Nat) /\ ListsOnce(ListFor(lease, label), Labelled(graph, label))
    BY <2>2, <2>3, <2>4, <2>12, <2>13
  <2> QED
    BY <2>9, <2>14 DEF PostedIds, Posted1, Inserted1
<1> QED
  BY <1>2, <1>3

(* The vertices of each label, each once. *)
ListsLabels(g, held) ==
  \A label \in STRING :
     /\ PostedFor(held, label) \in Seq(Nat) /\ InsertedFor(held, label) \in Seq(Nat)
     /\ [k \in 1..Len(PostedFor(held, label)) |-> held.snapshot.ids[PostedFor(held, label)[k]]] \in Seq(Nat)
     /\ ListFor(held, label) \in Seq(Nat) /\ ListsOnce(ListFor(held, label), Labelled(g, label))

(* The places of two sequences, joined. *)
LEMMA JoinedTo ==
  ASSUME NEW X, NEW s \in Seq(X), NEW t \in Seq(X)
  PROVE  /\ s \o t \in Seq(X) /\ Len(s \o t) = Len(s) + Len(t)
         /\ \A k \in 1..(Len(s) + Len(t)) : (s \o t)[k] = IF k <= Len(s) THEN s[k] ELSE t[k - Len(s)]
OBVIOUS

(* How far a scan has come: through the postings first, then through the delta. *)
Come(l, p, q) ==
  l.cursor \in 0..p /\ l.deltaCursor \in 0..q /\ (l.cursor < p => l.deltaCursor = 0)

(* The parts of the next chunk. *)
FromPostings(l, p) == Min({VectorSize, p - l.cursor})
FromDelta(l, p, q) == Min({VectorSize - FromPostings(l, p), q - l.deltaCursor})

(* A chunk takes a list up where the one before it ended, across the end of the p postings; it
   is empty when the list is over. *)
GoesOn(list, p, q, l, chunk) ==
  /\ FromPostings(l, p) \in Nat /\ FromDelta(l, p, q) \in Nat
  /\ l.cursor + FromPostings(l, p) \in 0..p /\ l.deltaCursor + FromDelta(l, p, q) \in 0..q
  /\ l.cursor + FromPostings(l, p) < p => l.deltaCursor + FromDelta(l, p, q) = 0
  /\ chunk \in Seq(Nat) /\ Len(chunk) = FromPostings(l, p) + FromDelta(l, p, q)
  /\ l.cursor + l.deltaCursor + Len(chunk) <= Len(list)
  /\ \A k \in 1..Len(chunk) : chunk[k] = list[l.cursor + l.deltaCursor + k]
  /\ Len(chunk) = 0 => l.cursor + l.deltaCursor = Len(list)

(* The chunks of a list in two parts. *)
LEMMA ChunkGoesOn ==
  ASSUME NEW a \in Seq(Nat), NEW b \in Seq(Nat), NEW l, Come(l, Len(a), Len(b))
  PROVE  GoesOn(a \o b, Len(a), Len(b), l,
                [k \in 1..FromPostings(l, Len(a)) |-> a[l.cursor + k]]
                   \o SubSeq(b, l.deltaCursor + 1, l.deltaCursor + FromDelta(l, Len(a), Len(b))))
<1> DEFINE m == Len(a)
           n == Len(b)
           c == l.cursor
           e == l.deltaCursor
           count == FromPostings(l, m)
           more == FromDelta(l, m, n)
           front == [k \in 1..count |-> a[c + k]]
           back == SubSeq(b, e + 1, e + more)
           chunk == front \o back
           all == a \o b
<1>1. m \in Nat /\ n \in Nat /\ c \in 0..m /\ e \in 0..n /\ (c < m => e = 0) /\ VectorSize \in Nat /\ VectorSize > 0
  BY ReaderAssumption DEF Come
<1>2. count = IF VectorSize <= m - c THEN VectorSize ELSE m - c
  <2>1. VectorSize \in Int /\ m - c \in Int
    BY <1>1
  <2> QED
    BY <2>1, MinOfTwo DEF FromPostings
<1>3. more = IF VectorSize - count <= n - e THEN VectorSize - count ELSE n - e
  <2>1. VectorSize - count \in Int /\ n - e \in Int
    BY <1>1, <1>2
  <2> QED
    BY <2>1, MinOfTwo DEF FromDelta
<1>4. /\ Len(all) = m + n
      /\ \A i \in 1..m : all[i] = a[i]
      /\ \A i \in (m + 1)..(m + n) : all[i] = b[i - m]
      /\ \A i \in 1..m : a[i] \in Nat
      /\ \A i \in 1..n : b[i] \in Nat
  OBVIOUS
<1> HIDE DEF m, n, c, e, count, more, all
<1>5. /\ count \in Nat /\ more \in Nat /\ c + count \in 0..m /\ e + more \in 0..n
      /\ c + count < m => e + more = 0
      /\ count + more = 0 => c = m /\ e = n
      /\ more > 0 => c + count = m
      /\ count > 0 => e = 0
  BY <1>1, <1>2, <1>3
<1>6. front \in Seq(Nat) /\ Len(front) = count /\ \A k \in 1..count : front[k] = a[c + k]
  <2>1. \A k \in 1..count : c + k \in 1..m
    BY <1>1, <1>5
  <2>2. \A k \in 1..count : a[c + k] \in Nat
    BY <1>4, <2>1
  <2> QED
    BY <1>5, <2>2
<1>7. back \in Seq(Nat) /\ Len(back) = more /\ \A k \in 1..more : back[k] = b[e + k]
  <2> DEFINE i == e + 1
             j == e + more
  <2>1. i \in Nat /\ j \in Nat /\ i > 0 /\ j <= n /\ i <= j + 1 /\ (j - i) + 1 = more
    BY <1>1, <1>5
  <2>2. back = SubSeq(b, i, j) /\ b \in Seq(Nat) /\ Len(b) = n
    BY DEF n
  <2>3. \A k \in 1..more : (i + k) - 1 = e + k
    BY <1>1, <1>5
  <2> HIDE DEF i, j, back
  <2>4. back \in Seq(Nat) /\ Len(back) = more /\ \A k \in 1..more : back[k] = b[(i + k) - 1]
    BY <1>1, <1>5, <2>1, <2>2
  <2> QED
    BY <2>3, <2>4
<1> HIDE DEF front, back
<1>8. /\ chunk \in Seq(Nat) /\ Len(chunk) = count + more
      /\ \A k \in 1..(count + more) : chunk[k] = IF k <= count THEN front[k] ELSE back[k - count]
  <2>1. /\ front \o back \in Seq(Nat) /\ Len(front \o back) = Len(front) + Len(back)
        /\ \A k \in 1..(Len(front) + Len(back)) :
              (front \o back)[k] = IF k <= Len(front) THEN front[k] ELSE back[k - Len(front)]
    BY <1>6, <1>7, JoinedTo
  <2> QED
    BY <1>6, <1>7, <2>1
<1> HIDE DEF chunk
<1>9. ASSUME NEW k \in 1..(count + more) PROVE chunk[k] = all[c + e + k]
  <2>1. CASE k <= count
    <3>1. k \in 1..count /\ count > 0 /\ e = 0 /\ c + e + k = c + k /\ c + k \in 1..m
      BY <1>1, <1>5, <2>1
    <3>2. all[c + k] = a[c + k]
      BY <1>4, <3>1
    <3> QED
      BY <1>6, <1>8, <2>1, <3>1, <3>2
  <2>2. CASE ~(k <= count)
    <3>1. k - count \in 1..more /\ more > 0 /\ c + count = m
      BY <1>5, <2>2
    <3>2. c + e + k \in (m + 1)..(m + n) /\ (c + e + k) - m = e + (k - count)
      BY <1>1, <1>5, <2>2, <3>1
    <3>3. all[c + e + k] = b[e + (k - count)]
      BY <1>4, <3>2
    <3> QED
      BY <1>7, <1>8, <2>2, <3>1, <3>3
  <2> QED
    BY <2>1, <2>2
<1>10. c + e + (count + more) <= Len(all) /\ (count + more = 0 => c + e = Len(all))
  BY <1>1, <1>4, <1>5
<1>11. GoesOn(all, m, n, l, chunk)
  BY <1>5, <1>8, <1>9, <1>10 DEF GoesOn, c, e, count, more
<1> QED
  BY <1>11 DEF m, n, c, e, count, more, all, chunk, front, back

-----------------------------------------------------------------------------
(* gql_csr_vertices, of any graph, request, lease, local state and output. *)
Listing == [op : {"labelled"}, at : Nat, ready : BOOLEAN, cursor : Nat, deltaCursor : Nat]

ListedRow == [request : Nat, vertex : Nat]

Listed(k, id) == [request |-> k, vertex |-> id]

ListedBefore(g, q, at) == UNION {{Listed(k, id) : id \in Labelled(g, q[k])} : k \in 1..(at - 1)}

FirstListed(at, list, come) == {Listed(at, list[i]) : i \in 1..come}

Underway(held, q, l) ==
  IF l.ready THEN FirstListed(l.at, ListFor(held, q[l.at]), l.cursor + l.deltaCursor) ELSE {}

IsListing(g, q, held, l, out) ==
  /\ q \in Seq(STRING) /\ l \in Listing /\ l.at \in 1..(Len(q) + 1)
  /\ l.ready => /\ held # NoLease /\ l.at <= Len(q)
                /\ Come(l, Len(PostedFor(held, q[l.at])), Len(InsertedFor(held, q[l.at])))
  /\ out \in Seq(ListedRow)
  /\ ListsOnce(out, ListedBefore(g, q, l.at) \cup Underway(held, q, l))

(* A chunk of vertices, as rows. *)
RowsReturned(at, chunk) == [k \in DOMAIN chunk |-> Listed(at, chunk[k])]

(* The rows of a label, up to some, and more of them behind. *)
LEMMA ListsNext ==
  ASSUME NEW at \in Nat, NEW list \in Seq(Nat), NEW L, ListsOnce(list, L), NEW come \in Nat, NEW chunk \in Seq(Nat),
         come + Len(chunk) <= Len(list), \A k \in 1..Len(chunk) : chunk[k] = list[come + k],
         NEW before, \A x \in before : x.request # at,
         NEW out \in Seq(ListedRow), ListsOnce(out, before \cup FirstListed(at, list, come))
  PROVE  /\ out \o RowsReturned(at, chunk) \in Seq(ListedRow)
         /\ ListsOnce(out \o RowsReturned(at, chunk), before \cup FirstListed(at, list, come + Len(chunk)))
<1> DEFINE n == Len(chunk)
           rows == RowsReturned(at, chunk)
           new == {Listed(at, list[come + k]) : k \in 1..n}
           old == before \cup FirstListed(at, list, come)
<1>1. n \in Nat /\ DOMAIN chunk = 1..n /\ \A k \in 1..n : chunk[k] \in Nat /\ chunk[k] = list[come + k]
  <2>1. n \in Nat /\ DOMAIN chunk = 1..n
    OBVIOUS
  <2>2. \A k \in 1..n : chunk[k] \in Nat
    BY ONLY chunk \in Seq(Nat)
  <2>3. \A k \in 1..n : chunk[k] = list[come + k]
    OBVIOUS
  <2> QED
    BY <2>1, <2>2, <2>3
<1>2. \A i, j \in 1..Len(list) : list[i] = list[j] => i = j
  BY DEF ListsOnce
<1>3. \A k \in 1..n : come + k \in 1..Len(list)
  BY <1>1
<1>4. \A k \in 1..come : k \in 1..Len(list)
  BY <1>1
<1>5. \A a, b, k, j : Listed(k, a) = Listed(j, b) => k = j /\ a = b
  BY DEF Listed
<1> HIDE DEF n
<1>6. rows \in Seq(ListedRow) /\ Len(rows) = n /\ \A k \in 1..n : rows[k] = Listed(at, list[come + k])
  <2>1. \A k \in 1..n : Listed(at, chunk[k]) \in ListedRow
    BY <1>1 DEF Listed, ListedRow
  <2>2. rows = [k \in 1..n |-> Listed(at, chunk[k])]
    BY <1>1 DEF RowsReturned
  <2> HIDE DEF rows
  <2>3. rows \in [1..n -> ListedRow]
    BY <2>1, <2>2
  <2>4. \A k \in 1..n : rows[k] = Listed(at, chunk[k])
    BY <2>2
  <2>5. rows \in Seq(ListedRow) /\ Len(rows) = n
    BY <1>1, <2>3
  <2>6. \A k \in 1..n : rows[k] = Listed(at, list[come + k])
    BY <1>1, <2>4
  <2> QED
    BY <2>5, <2>6
<1> HIDE DEF rows
<1>7. ListsOnce(rows, new)
  <2>1. \A i, j \in 1..n : rows[i] = rows[j] => i = j
    <3> SUFFICES ASSUME NEW i \in 1..n, NEW j \in 1..n, rows[i] = rows[j] PROVE i = j
      OBVIOUS
    <3>1. list[come + i] = list[come + j]
      BY <1>5, <1>6
    <3>2. come + i = come + j
      BY <1>2, <1>3, <3>1
    <3> QED
      BY <1>1, <3>2
  <2>2. (\A i \in 1..n : rows[i] \in new) /\ \A x \in new : \E i \in 1..n : rows[i] = x
    BY <1>6
  <2> HIDE DEF new
  <2>3. DOMAIN rows = 1..n
    BY <1>6
  <2> QED
    BY <1>1, <1>6, <2>1, <2>2, <2>3 DEF ListsOnce
<1>8. old \cap new = {}
  <2> SUFFICES ASSUME NEW k \in 1..n, Listed(at, list[come + k]) \in old PROVE FALSE
    OBVIOUS
  <2>1. Listed(at, list[come + k]) \notin before
    BY DEF Listed
  <2>2. PICK i \in 1..come : Listed(at, list[come + k]) = Listed(at, list[i])
    BY <2>1 DEF FirstListed
  <2>3. come + k = i
    BY <1>2, <1>3, <1>4, <1>5, <2>2
  <2> QED
    BY <1>1, <2>3
<1>9. old \cup new = before \cup FirstListed(at, list, come + n)
  <2>1. \A i : i \in 1..(come + n) <=> i \in 1..come \/ \E k \in 1..n : i = come + k
    <3> SUFFICES ASSUME NEW i PROVE i \in 1..(come + n) <=> i \in 1..come \/ \E k \in 1..n : i = come + k
      OBVIOUS
    <3>1. i \in 1..(come + n) => i \in 1..come \/ i - come \in 1..n
      BY <1>1
    <3>2. i \in 1..(come + n) => i = come + (i - come)
      BY <1>1
    <3>3. i \in 1..come \/ (\E k \in 1..n : i = come + k) => i \in 1..(come + n)
      BY <1>1
    <3> QED
      BY <3>1, <3>2, <3>3
  <2>2. \A m, x : x \in FirstListed(at, list, m) <=> \E i \in 1..m : x = Listed(at, list[i])
    BY DEF FirstListed
  <2>3. \A x : x \in new <=> \E k \in 1..n : x = Listed(at, list[come + k])
    OBVIOUS
  <2> HIDE DEF new
  <2>4. FirstListed(at, list, come + n) = FirstListed(at, list, come) \cup new
    <3>1. ASSUME NEW x \in FirstListed(at, list, come + n) PROVE x \in FirstListed(at, list, come) \cup new
      <4>1. PICK i \in 1..(come + n) : x = Listed(at, list[i])
        BY <2>2
      <4>2. CASE i \in 1..come
        BY <2>2, <4>1, <4>2
      <4>3. ASSUME NEW k \in 1..n, i = come + k PROVE x \in new
        BY <2>3, <4>1, <4>3
      <4> QED
        BY <2>1, <4>2, <4>3
    <3>2. ASSUME NEW x \in FirstListed(at, list, come) PROVE x \in FirstListed(at, list, come + n)
      <4>1. PICK i \in 1..come : x = Listed(at, list[i])
        BY <2>2
      <4>2. i \in 1..(come + n)
        BY <2>1
      <4> QED
        BY <2>2, <4>1, <4>2
    <3>3. ASSUME NEW x \in new PROVE x \in FirstListed(at, list, come + n)
      <4>1. PICK k \in 1..n : x = Listed(at, list[come + k])
        BY <2>3
      <4>2. come + k \in 1..(come + n)
        BY <2>1
      <4> QED
        BY <2>2, <4>1, <4>2
    <3> QED
      BY <3>1, <3>2, <3>3
  <2> QED
    BY <2>4
<1>10. out \o rows \in Seq(ListedRow) /\ ListsOnce(out \o rows, old \cup new)
  <2> HIDE DEF old, new
  <2> QED
    BY <1>6, <1>7, <1>8, JoinOnce DEF old
<1> QED
  BY <1>9, <1>10 DEF n, rows

(* Nothing of the next label is returned as yet. *)
LEMMA ListingBegins ==
  ASSUME NEW g, NEW q, NEW held, NEW l, NEW out, IsListing(g, q, held, l, out), ~l.ready, l.at <= Len(q), held # NoLease,
         PostedFor(held, q[l.at]) \in Seq(Nat), InsertedFor(held, q[l.at]) \in Seq(Nat)
  PROVE  IsListing(g, q, held, [l EXCEPT !.ready = TRUE, !.cursor = 0, !.deltaCursor = 0], out)
<1> DEFINE new == [l EXCEPT !.ready = TRUE, !.cursor = 0, !.deltaCursor = 0]
<1>1. l \in Listing
  BY DEF IsListing
<1>2. new \in Listing /\ new.at = l.at /\ new.ready /\ new.cursor = 0 /\ new.deltaCursor = 0
  BY <1>1 DEF Listing
<1> HIDE DEF new
<1>3. Underway(held, q, new) = {} /\ Underway(held, q, l) = {}
  <2>1. new.cursor + new.deltaCursor = 0 /\ 1..0 = {}
    BY <1>2
  <2> QED
    BY <1>2, <2>1 DEF Underway, FirstListed
<1>4. Come(new, Len(PostedFor(held, q[l.at])), Len(InsertedFor(held, q[l.at])))
  BY <1>2 DEF Come
<1>5. IsListing(g, q, held, new, out)
  BY <1>2, <1>3, <1>4 DEF IsListing
<1> QED
  BY <1>5 DEF new

(* The next chunk of a label. *)
ChunkFor(held, label, l) ==
  [k \in 1..FromPostings(l, Len(PostedFor(held, label))) |-> held.snapshot.ids[PostedFor(held, label)[l.cursor + k]]]
     \o SubSeq(InsertedFor(held, label), l.deltaCursor + 1,
               l.deltaCursor + FromDelta(l, Len(PostedFor(held, label)), Len(InsertedFor(held, label))))

(* It takes the vertices up where the last one ended. *)
LEMMA ChunkRead ==
  ASSUME NEW g, NEW held, ListsLabels(g, held), NEW label \in STRING, NEW l,
         Come(l, Len(PostedFor(held, label)), Len(InsertedFor(held, label)))
  PROVE  GoesOn(ListFor(held, label), Len(PostedFor(held, label)), Len(InsertedFor(held, label)), l,
                ChunkFor(held, label, l))
<1> DEFINE posted == PostedFor(held, label)
           b == InsertedFor(held, label)
           a == [k \in 1..Len(posted) |-> held.snapshot.ids[posted[k]]]
           p == Len(posted)
           count == FromPostings(l, p)
           front == [k \in 1..count |-> a[l.cursor + k]]
           back == SubSeq(b, l.deltaCursor + 1, l.deltaCursor + FromDelta(l, p, Len(b)))
           chunk == ChunkFor(held, label, l)
           list == ListFor(held, label)
<1>1. posted \in Seq(Nat) /\ b \in Seq(Nat) /\ a \in Seq(Nat) /\ list = a \o b
  BY DEF ListsLabels, ListFor
<1>2. p \in Nat /\ Len(a) = p /\ Come(l, p, Len(b)) /\ l.cursor \in Nat
  <2>1. p \in Nat /\ Len(a) = p
    BY <1>1
  <2>2. Come(l, p, Len(b))
    OBVIOUS
  <2> HIDE DEF posted, b, a
  <2> QED
    BY <2>1, <2>2 DEF Come
<1>3. \A k \in 1..count : l.cursor + k \in 1..p => a[l.cursor + k] = held.snapshot.ids[posted[l.cursor + k]]
  OBVIOUS
<1>4. chunk = [k \in 1..count |-> held.snapshot.ids[posted[l.cursor + k]]] \o back
  BY DEF ChunkFor
<1> HIDE DEF posted, a, b, chunk, list
<1>5. GoesOn(a \o b, p, Len(b), l, front \o back)
  <2>1. Come(l, Len(a), Len(b))
    BY <1>2
  <2>2. GoesOn(a \o b, Len(a), Len(b), l,
               [k \in 1..FromPostings(l, Len(a)) |-> a[l.cursor + k]]
                  \o SubSeq(b, l.deltaCursor + 1, l.deltaCursor + FromDelta(l, Len(a), Len(b))))
    BY <1>1, <2>1, ChunkGoesOn
  <2>3. Len(a) = p
    BY <1>2
  <2> HIDE DEF p
  <2> QED
    BY <2>2, <2>3
<1>6. chunk = front \o back
  <2>1. count \in Nat /\ l.cursor + count \in 0..p
    BY <1>5 DEF GoesOn
  <2> HIDE DEF count, p
  <2>2. \A k \in 1..count : l.cursor + k \in 1..p
    BY <1>2, <2>1
  <2>3. front = [k \in 1..count |-> held.snapshot.ids[posted[l.cursor + k]]]
    BY <1>3, <2>2
  <2> HIDE DEF front, back
  <2> QED
    BY <1>4, <2>3
<1> HIDE DEF front, back
<1>7. GoesOn(list, p, Len(b), l, chunk)
  BY <1>1, <1>5, <1>6
<1> QED
  BY <1>7 DEF list, p, b, chunk, posted

(* The fields of a local state. *)
Moved(l, c, e) == [l EXCEPT !.cursor = c, !.deltaCursor = e]
Over(l, at) == [l EXCEPT !.ready = FALSE, !.at = at]

LEMMA OverFields ==
  ASSUME NEW l \in Listing, NEW at \in Nat
  PROVE  Over(l, at) \in Listing /\ Over(l, at).at = at /\ ~Over(l, at).ready
BY DEF Listing, Over

LEMMA MovedFields ==
  ASSUME NEW l \in Listing, NEW c \in Nat, NEW e \in Nat
  PROVE  /\ Moved(l, c, e) \in Listing /\ Moved(l, c, e).at = l.at /\ (Moved(l, c, e).ready <=> l.ready)
         /\ Moved(l, c, e).cursor = c /\ Moved(l, c, e).deltaCursor = e
BY DEF Listing, Moved

(* A chunk that is not empty. *)
LEMMA ListingGoesOn ==
  ASSUME NEW g, NEW q, NEW held, ListsLabels(g, held), NEW l, NEW out, IsListing(g, q, held, l, out), l.ready,
         NEW chunk, chunk = ChunkFor(held, q[l.at], l), NEW p, p = Len(PostedFor(held, q[l.at])),
         NEW i, i = Len(InsertedFor(held, q[l.at]))
  PROVE  IsListing(g, q, held,
                   [l EXCEPT !.cursor = @ + FromPostings(l, p), !.deltaCursor = @ + FromDelta(l, p, i)], out \o RowsReturned(l.at, chunk))
<1> DEFINE count == FromPostings(l, p)
           more == FromDelta(l, p, i)
           new == [l EXCEPT !.cursor = @ + count, !.deltaCursor = @ + more]
           list == ListFor(held, q[l.at])
           come == l.cursor + l.deltaCursor
           before == ListedBefore(g, q, l.at)
<1>1. /\ q \in Seq(STRING) /\ l \in Listing /\ l.at \in 1..(Len(q) + 1) /\ held # NoLease /\ l.at <= Len(q)
      /\ Come(l, p, i) /\ out \in Seq(ListedRow)
      /\ ListsOnce(out, before \cup FirstListed(l.at, list, come))
  BY DEF IsListing, Underway
<1>2. l.at \in Nat /\ l.at \in 1..Len(q) /\ q[l.at] \in STRING
  BY <1>1
<1>3. list \in Seq(Nat) /\ ListsOnce(list, Labelled(g, q[l.at]))
  BY <1>2 DEF ListsLabels
<1>4. /\ count \in Nat /\ more \in Nat /\ l.cursor \in Nat /\ l.deltaCursor \in Nat
      /\ l.cursor + count \in 0..p /\ l.deltaCursor + more \in 0..i
      /\ l.cursor + count < p => l.deltaCursor + more = 0
      /\ chunk \in Seq(Nat) /\ Len(chunk) = count + more
      /\ come + Len(chunk) <= Len(list)
      /\ \A k \in 1..Len(chunk) : chunk[k] = list[come + k]
  <2>1. GoesOn(list, p, i, l, chunk)
    BY <1>1, <1>2, ChunkRead
  <2>2. l.cursor \in Nat /\ l.deltaCursor \in Nat
    BY <1>1 DEF Listing
  <2> HIDE DEF list
  <2> QED
    BY <2>1, <2>2 DEF GoesOn
<1> HIDE DEF count, more, list
<1>5. /\ new \in Listing /\ new.at = l.at /\ new.ready
      /\ new.cursor = l.cursor + count /\ new.deltaCursor = l.deltaCursor + more
  <2>1. l.cursor + count \in Nat /\ l.deltaCursor + more \in Nat
    BY <1>4
  <2> DEFINE c == l.cursor + count
             e == l.deltaCursor + more
  <2>2. new = Moved(l, c, e)
    BY DEF Moved
  <2>3. l \in Listing /\ c \in Nat /\ e \in Nat
    BY <1>1, <2>1
  <2> HIDE DEF new, c, e
  <2>4. /\ Moved(l, c, e) \in Listing /\ Moved(l, c, e).at = l.at /\ (Moved(l, c, e).ready <=> l.ready)
        /\ Moved(l, c, e).cursor = c /\ Moved(l, c, e).deltaCursor = e
    BY <2>3, MovedFields
  <2>5. new \in Listing /\ new.at = l.at /\ new.ready /\ new.cursor = c /\ new.deltaCursor = e
    BY <2>2, <2>4
  <2> QED
    BY <2>5 DEF c, e
<1> HIDE DEF new
<1>6. Come(new, p, i)
  BY <1>4, <1>5 DEF Come
<1>7. \A x \in before : x.request # l.at
  <2>1. \A k \in 1..(l.at - 1) : k # l.at
    BY <1>2
  <2>2. \A x \in before : \E k \in 1..(l.at - 1) : x.request = k
    BY DEF ListedBefore, Listed
  <2> HIDE DEF before
  <2> QED
    BY <2>1, <2>2
<1>8. come \in Nat
  <2>1. l.cursor \in Nat /\ l.deltaCursor \in Nat
    BY <1>4
  <2> QED
    BY <2>1
<1> HIDE DEF before, come
<1>9. out \o RowsReturned(l.at, chunk) \in Seq(ListedRow) /\ ListsOnce(out \o RowsReturned(l.at, chunk), before \cup FirstListed(l.at, list, come + Len(chunk)))
  BY <1>1, <1>2, <1>3, <1>4, <1>7, <1>8, ListsNext
<1>10. come + Len(chunk) = new.cursor + new.deltaCursor
  <2>1. count \in Nat /\ more \in Nat /\ l.cursor \in Nat /\ l.deltaCursor \in Nat /\ Len(chunk) = count + more
    BY <1>4
  <2> QED
    BY <1>5, <2>1 DEF come
<1>11. before \cup FirstListed(l.at, list, come + Len(chunk)) = ListedBefore(g, q, new.at) \cup Underway(held, q, new)
  BY <1>5, <1>10 DEF Underway, before, list
<1>12. IsListing(g, q, held, new, out \o RowsReturned(l.at, chunk))
  BY <1>1, <1>5, <1>6, <1>9, <1>11 DEF IsListing
<1> QED
  BY <1>12 DEF new, count, more

(* One that is empty: the vertices of the label have all been returned. *)
LEMMA ListingEnds ==
  ASSUME NEW g, NEW q, NEW held, ListsLabels(g, held), NEW l, NEW out, IsListing(g, q, held, l, out), l.ready,
         ChunkFor(held, q[l.at], l) = <<>>
  PROVE  IsListing(g, q, held, [l EXCEPT !.ready = FALSE, !.at = @ + 1], out)
<1> DEFINE new == [l EXCEPT !.ready = FALSE, !.at = @ + 1]
           list == ListFor(held, q[l.at])
           come == l.cursor + l.deltaCursor
           before == ListedBefore(g, q, l.at)
           L == Labelled(g, q[l.at])
<1>1. /\ q \in Seq(STRING) /\ l \in Listing /\ l.at \in 1..(Len(q) + 1) /\ l.at <= Len(q)
      /\ Come(l, Len(PostedFor(held, q[l.at])), Len(InsertedFor(held, q[l.at]))) /\ out \in Seq(ListedRow)
      /\ ListsOnce(out, before \cup FirstListed(l.at, list, come))
  BY DEF IsListing, Underway
<1>2. l.at \in Nat /\ l.at \in 1..Len(q) /\ q[l.at] \in STRING /\ l.at + 1 \in 1..(Len(q) + 1)
  BY <1>1
<1>3. ListsOnce(list, L)
  BY <1>2 DEF ListsLabels
<1>4. come = Len(list)
  <2>1. Len(ChunkFor(held, q[l.at], l)) = 0
    OBVIOUS
  <2>2. GoesOn(list, Len(PostedFor(held, q[l.at])), Len(InsertedFor(held, q[l.at])), l, ChunkFor(held, q[l.at], l))
    BY <1>1, <1>2, ChunkRead
  <2> HIDE DEF list
  <2> QED
    BY <2>1, <2>2 DEF GoesOn
<1>5. new \in Listing /\ new.at = l.at + 1 /\ ~new.ready
  <2>1. l.at + 1 \in Nat
    BY <1>2
  <2>2. new = Over(l, l.at + 1)
    BY DEF Over
  <2> HIDE DEF new
  <2> QED
    BY <1>1, <2>1, <2>2, OverFields
<1> HIDE DEF new
<1>6. FirstListed(l.at, list, come) = {Listed(l.at, id) : id \in L}
  <2>1. (\A i \in 1..Len(list) : list[i] \in L) /\ \A id \in L : \E i \in 1..Len(list) : list[i] = id
    BY <1>3 DEF ListsOnce
  <2> HIDE DEF list, L, come
  <2> QED
    BY <1>4, <2>1 DEF FirstListed
<1>7. ListedBefore(g, q, new.at) = before \cup {Listed(l.at, id) : id \in L}
  <2>1. \A k : k \in 1..(new.at - 1) <=> k \in 1..(l.at - 1) \/ k = l.at
    BY <1>2, <1>5
  <2>2. \A at, x : x \in ListedBefore(g, q, at) <=> \E k \in 1..(at - 1) : \E id \in Labelled(g, q[k]) : x = Listed(k, id)
    BY DEF ListedBefore
  <2>3. \A x : x \in {Listed(l.at, id) : id \in L} <=> \E id \in Labelled(g, q[l.at]) : x = Listed(l.at, id)
    OBVIOUS
  <2> HIDE DEF L
  <2>4. ASSUME NEW x \in ListedBefore(g, q, new.at) PROVE x \in before \cup {Listed(l.at, id) : id \in L}
    <3>1. PICK k \in 1..(new.at - 1) : \E id \in Labelled(g, q[k]) : x = Listed(k, id)
      BY <2>2
    <3>2. CASE k \in 1..(l.at - 1)
      BY <2>2, <3>1, <3>2
    <3>3. CASE k = l.at
      BY <2>3, <3>1, <3>3
    <3> QED
      BY <2>1, <3>2, <3>3
  <2>5. ASSUME NEW x \in before PROVE x \in ListedBefore(g, q, new.at)
    BY <2>1, <2>2
  <2>6. ASSUME NEW x \in {Listed(l.at, id) : id \in L} PROVE x \in ListedBefore(g, q, new.at)
    BY <2>1, <2>2, <2>3
  <2> QED
    BY <2>4, <2>5, <2>6
<1>8. Underway(held, q, new) = {}
  BY <1>5 DEF Underway
<1> HIDE DEF before
<1>9. IsListing(g, q, held, new, out)
  BY <1>1, <1>2, <1>5, <1>6, <1>7, <1>8 DEF IsListing
<1> QED
  BY <1>9 DEF new

(* What a lease lists, of every label. *)
LEMMA LabelsListed ==
  ASSUME IsGraph(graph), LeaseDescribes(lease, graph.vertices, graph.edges), Looks(graph, lease)
  PROVE  ListsLabels(graph, lease)
<1>1. Sized(lease) /\ HasPostings(lease)
  BY DEF Looks
<1> SUFFICES ASSUME NEW label \in STRING
             PROVE  /\ PostedFor(lease, label) \in Seq(Nat) /\ InsertedFor(lease, label) \in Seq(Nat)
                    /\ [k \in 1..Len(PostedFor(lease, label)) |-> lease.snapshot.ids[PostedFor(lease, label)[k]]] \in Seq(Nat)
                    /\ ListFor(lease, label) \in Seq(Nat) /\ ListsOnce(ListFor(lease, label), Labelled(graph, label))
  BY DEF ListsLabels
<1> QED
  BY <1>1, ListedOnce

-----------------------------------------------------------------------------
(* gql_vertex_fetch and gql_edge_fetch, of any graph, request, local state and output. *)
Fetching == [op : {"fetch"}, at : Nat, emitted : BOOLEAN, hidden : SUBSET Nat]

FetchedRow == [request : Nat, row : Nat, place : Nat]

Fetched(k, a) == [request |-> k, row |-> a[1], place |-> a[2]]

RowsFetched(g, q, hidden, k) == {Fetched(k, a) : a \in Seen(g, q[k], hidden)}

FetchedTo(g, q, hidden, n) == UNION {RowsFetched(g, q, hidden, k) : k \in 1..n}

(* The requests whose rows are returned. *)
Through(l) == IF l.emitted THEN l.at ELSE l.at - 1

IsFetching(g, q, l, out) ==
  /\ q \in Seq(ElementsCall) /\ l \in Fetching /\ l.at \in 1..(Len(q) + 1)
  /\ \A k \in 1..Len(q) : Askable(g, q[k], l.hidden)
  /\ l.emitted => l.at <= Len(q)
  /\ out \in Seq(FetchedRow)
  /\ ListsOnce(out, FetchedTo(g, q, l.hidden, Through(l)))

(* The rows of one more request. *)
LEMMA FetchedMore ==
  ASSUME NEW g, NEW q, NEW hidden, NEW n \in Nat
  PROVE  FetchedTo(g, q, hidden, n + 1) = FetchedTo(g, q, hidden, n) \cup RowsFetched(g, q, hidden, n + 1)
<1>1. \A k : k \in 1..(n + 1) <=> k \in 1..n \/ k = n + 1
  OBVIOUS
<1>2. \A m, x : x \in FetchedTo(g, q, hidden, m) <=> \E k \in 1..m : x \in RowsFetched(g, q, hidden, k)
  BY DEF FetchedTo
<1>3. \A x : x \in FetchedTo(g, q, hidden, n + 1) <=>
                x \in FetchedTo(g, q, hidden, n) \/ x \in RowsFetched(g, q, hidden, n + 1)
  BY <1>1, <1>2
<1> QED
  BY <1>3

(* Rows and their places, as rows of a request. *)
RowsBeside(k, found) == [i \in DOMAIN found |-> [request |-> k, row |-> found[i][1], place |-> found[i][2]]]

(* They go behind the rows of other requests. *)
LEMMA FetchesNext ==
  ASSUME NEW k \in Nat, NEW found \in Seq(Nat \X Nat), NEW S, ListsOnce(found, S),
         NEW before, \A x \in before : x.request # k,
         NEW out \in Seq(FetchedRow), ListsOnce(out, before)
  PROVE  /\ out \o RowsBeside(k, found) \in Seq(FetchedRow)
         /\ ListsOnce(out \o RowsBeside(k, found), before \cup {Fetched(k, a) : a \in S})
<1> DEFINE n == Len(found)
           rows == RowsBeside(k, found)
           new == {Fetched(k, a) : a \in S}
<1>1. /\ n \in Nat /\ DOMAIN found = 1..n
      /\ \A i \in 1..n : found[i] = <<found[i][1], found[i][2]>> /\ found[i][1] \in Nat /\ found[i][2] \in Nat
  <2>1. \A i \in 1..Len(found) : found[i] \in Nat \X Nat
    OBVIOUS
  <2> QED
    BY <2>1
<1>2. /\ \A i \in 1..n : found[i] \in S
      /\ \A a \in S : \E i \in 1..n : found[i] = a
      /\ \A i, j \in 1..n : found[i] = found[j] => i = j
  BY DEF ListsOnce
<1> HIDE DEF n
<1>3. \A i \in 1..n : Fetched(k, found[i]) \in FetchedRow
  BY <1>1 DEF Fetched, FetchedRow
<1>4. rows = [i \in 1..n |-> Fetched(k, found[i])]
  BY <1>1 DEF RowsBeside, Fetched
<1> HIDE DEF rows
<1>5. rows \in Seq(FetchedRow) /\ Len(rows) = n /\ DOMAIN rows = 1..n /\ \A i \in 1..n : rows[i] = Fetched(k, found[i])
  <2>1. rows \in [1..n -> FetchedRow]
    BY <1>3, <1>4
  <2>2. \A i \in 1..n : rows[i] = Fetched(k, found[i])
    BY <1>4
  <2>3. rows \in Seq(FetchedRow) /\ Len(rows) = n /\ DOMAIN rows = 1..n
    BY <1>1, <2>1
  <2> QED
    BY <2>2, <2>3
<1>6. ListsOnce(rows, new)
  <2>1. \A i, j \in 1..n : rows[i] = rows[j] => i = j
    <3> SUFFICES ASSUME NEW i \in 1..n, NEW j \in 1..n, rows[i] = rows[j] PROVE i = j
      OBVIOUS
    <3>1. Fetched(k, found[i]) = Fetched(k, found[j])
      BY <1>5
    <3>2. found[i][1] = found[j][1] /\ found[i][2] = found[j][2]
      BY <3>1 DEF Fetched
    <3>3. found[i] = found[j]
      BY <1>1, <3>2
    <3> QED
      BY <1>2, <3>3
  <2>2. \A i \in 1..n : rows[i] \in new
    BY <1>2, <1>5
  <2>3. \A x \in new : \E i \in 1..n : rows[i] = x
    <3> SUFFICES ASSUME NEW a \in S PROVE \E i \in 1..n : rows[i] = Fetched(k, a)
      OBVIOUS
    <3>1. PICK i \in 1..n : found[i] = a
      BY <1>2
    <3> QED
      BY <1>5, <3>1
  <2> HIDE DEF new
  <2> QED
    BY <1>1, <1>5, <2>1, <2>2, <2>3 DEF ListsOnce
<1>7. before \cap new = {}
  BY DEF Fetched
<1> HIDE DEF new
<1>8. out \o rows \in Seq(FetchedRow) /\ ListsOnce(out \o rows, before \cup new)
  BY <1>5, <1>6, <1>7, JoinOnce
<1> QED
  BY <1>8 DEF rows, new

(* The fields of a local state. *)
Turned(l, emitted, at) == [l EXCEPT !.emitted = emitted, !.at = at]

LEMMA TurnedFields ==
  ASSUME NEW l \in Fetching, NEW emitted \in BOOLEAN, NEW at \in Nat
  PROVE  /\ Turned(l, emitted, at) \in Fetching /\ Turned(l, emitted, at).at = at
         /\ (Turned(l, emitted, at).emitted <=> emitted) /\ Turned(l, emitted, at).hidden = l.hidden
BY DEF Fetching, Turned

(* A chunk that is answered, or has nothing to answer. *)
LEMMA FetchingEnds ==
  ASSUME NEW g, NEW q, NEW l, NEW out, IsFetching(g, q, l, out), l.at <= Len(q),
         l.emitted \/ Seen(g, q[l.at], l.hidden) = {}
  PROVE  IsFetching(g, q, [l EXCEPT !.emitted = FALSE, !.at = @ + 1], out)
<1> DEFINE new == [l EXCEPT !.emitted = FALSE, !.at = @ + 1]
<1>1. /\ q \in Seq(ElementsCall) /\ l \in Fetching /\ l.at \in 1..(Len(q) + 1)
      /\ \A k \in 1..Len(q) : Askable(g, q[k], l.hidden)
      /\ out \in Seq(FetchedRow) /\ ListsOnce(out, FetchedTo(g, q, l.hidden, Through(l)))
  BY DEF IsFetching
<1>2. l.at \in Nat /\ l.at + 1 \in Nat /\ l.at + 1 \in 1..(Len(q) + 1) /\ l.at - 1 \in Nat /\ (l.at + 1) - 1 = l.at
      /\ (l.at - 1) + 1 = l.at
  BY <1>1
<1>3. new \in Fetching /\ new.at = l.at + 1 /\ ~new.emitted /\ new.hidden = l.hidden
  <2>1. new = Turned(l, FALSE, l.at + 1)
    BY DEF Turned
  <2> HIDE DEF new
  <2> QED
    BY <1>1, <1>2, <2>1, TurnedFields
<1> HIDE DEF new
<1>4. Through(new) = l.at
  BY <1>2, <1>3 DEF Through
<1>5. FetchedTo(g, q, l.hidden, Through(l)) = FetchedTo(g, q, l.hidden, l.at)
  <2>1. CASE l.emitted
    BY <2>1 DEF Through
  <2>2. CASE ~l.emitted
    <3>1. RowsFetched(g, q, l.hidden, l.at) = {}
      BY <2>2 DEF RowsFetched
    <3>2. FetchedTo(g, q, l.hidden, l.at) = FetchedTo(g, q, l.hidden, l.at - 1) \cup RowsFetched(g, q, l.hidden, l.at)
      <4> DEFINE n == l.at - 1
      <4>1. n \in Nat /\ n + 1 = l.at
        BY <1>2
      <4> HIDE DEF n
      <4>2. FetchedTo(g, q, l.hidden, n + 1) = FetchedTo(g, q, l.hidden, n) \cup RowsFetched(g, q, l.hidden, n + 1)
        BY <4>1, FetchedMore
      <4> QED
        BY <4>1, <4>2 DEF n
    <3> QED
      BY <2>2, <3>1, <3>2 DEF Through
  <2> QED
    BY <2>1, <2>2
<1>6. IsFetching(g, q, new, out)
  BY <1>1, <1>2, <1>3, <1>4, <1>5 DEF IsFetching
<1> QED
  BY <1>6 DEF new

(* A chunk is answered. *)
LEMMA FetchingGoesOn ==
  ASSUME NEW g, NEW q, NEW l, NEW out, IsFetching(g, q, l, out), l.at <= Len(q), ~l.emitted,
         NEW found \in Seq(Nat \X Nat), ListsOnce(found, Seen(g, q[l.at], l.hidden))
  PROVE  IsFetching(g, q, [l EXCEPT !.emitted = TRUE], out \o RowsBeside(l.at, found))
<1> DEFINE new == [l EXCEPT !.emitted = TRUE]
           before == FetchedTo(g, q, l.hidden, l.at - 1)
           more == out \o RowsBeside(l.at, found)
<1>1. /\ q \in Seq(ElementsCall) /\ l \in Fetching /\ l.at \in 1..(Len(q) + 1)
      /\ \A k \in 1..Len(q) : Askable(g, q[k], l.hidden)
      /\ out \in Seq(FetchedRow) /\ ListsOnce(out, before)
  BY DEF IsFetching, Through
<1>2. l.at \in Nat /\ l.at - 1 \in Nat /\ (l.at - 1) + 1 = l.at /\ \A k \in 1..(l.at - 1) : k # l.at
  BY <1>1
<1>3. new \in Fetching /\ new.at = l.at /\ new.emitted /\ new.hidden = l.hidden
  <2>1. new = Turned(l, TRUE, l.at)
    BY <1>1 DEF Turned, Fetching
  <2> HIDE DEF new
  <2> QED
    BY <1>1, <1>2, <2>1, TurnedFields
<1>4. \A x \in before : x.request # l.at
  BY <1>2 DEF FetchedTo, RowsFetched, Fetched
<1> HIDE DEF new
<1>5. more \in Seq(FetchedRow) /\ ListsOnce(more, before \cup RowsFetched(g, q, l.hidden, l.at))
  <2> HIDE DEF before
  <2> QED
    BY <1>1, <1>2, <1>4, FetchesNext DEF RowsFetched
<1>6. before \cup RowsFetched(g, q, l.hidden, l.at) = FetchedTo(g, q, new.hidden, Through(new))
  <2>1. FetchedTo(g, q, l.hidden, l.at) = before \cup RowsFetched(g, q, l.hidden, l.at)
    BY <1>2, FetchedMore
  <2> QED
    BY <1>3, <2>1 DEF Through
<1> HIDE DEF more
<1>7. IsFetching(g, q, new, more)
  BY <1>1, <1>3, <1>5, <1>6 DEF IsFetching
<1> QED
  BY <1>7 DEF new, more

(* A step of gql_csr_vertices, as the next chunk of a label. *)
LEMMA ChunkReturned ==
  ASSUME LabelledChunk, NEW p, p = Len(PostedFor(lease, Now)), NEW i, i = Len(InsertedFor(lease, Now))
  PROVE  IF ChunkFor(lease, Now, local) = <<>>
         THEN local' = [local EXCEPT !.ready = FALSE, !.at = @ + 1] /\ output' = output
         ELSE /\ output' = output \o RowsReturned(local.at, ChunkFor(lease, Now, local))
              /\ local' = [local EXCEPT !.cursor = @ + FromPostings(local, p), !.deltaCursor = @ + FromDelta(local, p, i)]
<1>1. Posted = PostedFor(lease, Now) /\ Inserted = InsertedFor(lease, Now)
  BY DEF Posted, Postings, PostedFor, Inserted, Inserts, InsertedFor
<1> DEFINE c == Min({VectorSize, Len(Posted) - local.cursor})
           m == Min({VectorSize - c, Len(Inserted) - local.deltaCursor})
           raw == [k \in 1..c |-> lease.snapshot.ids[Posted[local.cursor + k]]]
                     \o SubSeq(Inserted, local.deltaCursor + 1, local.deltaCursor + m)
<1>2. IF raw = <<>>
      THEN local' = [local EXCEPT !.ready = FALSE, !.at = @ + 1] /\ output' = output
      ELSE /\ output' = output \o [k \in DOMAIN raw |-> [request |-> local.at, vertex |-> raw[k]]]
           /\ local' = [local EXCEPT !.cursor = @ + c, !.deltaCursor = @ + m]
  BY DEF LabelledChunk
<1>3. c = FromPostings(local, p) /\ m = FromDelta(local, p, i)
  BY <1>1 DEF FromPostings, FromDelta
<1> HIDE DEF c, m
<1>4. raw = ChunkFor(lease, Now, local)
  BY <1>1, <1>3 DEF ChunkFor
<1>5. RowsReturned(local.at, raw) = [k \in DOMAIN raw |-> [request |-> local.at, vertex |-> raw[k]]]
  BY DEF RowsReturned, Listed
<1> HIDE DEF raw
<1> QED
  BY <1>2, <1>3, <1>4, <1>5

(* Every step of gql_csr_vertices returns vertices that are still to be returned. *)
LEMMA ListingStep ==
  ASSUME local.op = "labelled", ElementsNext, IsListing(graph, request, lease, local, output), ListsLabels(graph, lease)
  PROVE  IsListing(graph, request, lease, local', output')
<1>1. LabelledBegin \/ LabelledChunk
  BY DEF ElementsNext, Fetch, Fetches
<1>2. lease # NoLease /\ local.at <= Len(request) /\ Now = request[local.at] /\ Now \in STRING
  <2>1. Lists
    BY <1>1 DEF LabelledBegin, LabelledChunk
  <2>2. request \in Seq(STRING) /\ local.at \in 1..(Len(request) + 1)
    BY DEF IsListing
  <2>3. Acquired /\ local.at \in 1..Len(request)
    BY <2>1, <2>2 DEF Lists, Answered
  <2> QED
    BY <2>2, <2>3 DEF Acquired, Now
<1>3. CASE LabelledBegin
  <2>1. ~local.ready /\ local' = [local EXCEPT !.ready = TRUE, !.cursor = 0, !.deltaCursor = 0] /\ output' = output
    BY <1>3 DEF LabelledBegin
  <2>2. PostedFor(lease, request[local.at]) \in Seq(Nat) /\ InsertedFor(lease, request[local.at]) \in Seq(Nat)
    BY <1>2 DEF ListsLabels
  <2> QED
    BY <1>2, <2>1, <2>2, ListingBegins
<1>4. CASE LabelledChunk
  <2> DEFINE p == Len(PostedFor(lease, Now))
             i == Len(InsertedFor(lease, Now))
             chunk == ChunkFor(lease, Now, local)
  <2>1. local.ready
    BY <1>4 DEF LabelledChunk
  <2>2. IF chunk = <<>>
        THEN local' = [local EXCEPT !.ready = FALSE, !.at = @ + 1] /\ output' = output
        ELSE /\ output' = output \o RowsReturned(local.at, chunk)
             /\ local' = [local EXCEPT !.cursor = @ + FromPostings(local, p), !.deltaCursor = @ + FromDelta(local, p, i)]
    BY <1>4, ChunkReturned
  <2>3. /\ chunk = ChunkFor(lease, request[local.at], local)
        /\ p = Len(PostedFor(lease, request[local.at])) /\ i = Len(InsertedFor(lease, request[local.at]))
    BY <1>2
  <2> HIDE DEF p, i, chunk
  <2>4. CASE chunk = <<>>
    <3>1. IsListing(graph, request, lease, [local EXCEPT !.ready = FALSE, !.at = @ + 1], output)
      BY <2>1, <2>3, <2>4, ListingEnds
    <3> QED
      BY <2>2, <2>4, <3>1
  <2>5. CASE chunk # <<>>
    <3>1. IsListing(graph, request, lease,
                    [local EXCEPT !.cursor = @ + FromPostings(local, p), !.deltaCursor = @ + FromDelta(local, p, i)],
                    output \o RowsReturned(local.at, chunk))
      BY <2>1, <2>3, ListingGoesOn
    <3> QED
      BY <2>2, <2>5, <3>1
  <2> QED
    BY <2>4, <2>5
<1> QED
  BY <1>1, <1>3, <1>4

(* Every step of a fetch returns the rows of a chunk, or goes on to the next. *)
LEMMA FetchingStep ==
  ASSUME local.op = "fetch", ElementsNext, IsFetching(graph, request, local, output),
         IsGraph(graph), LeaseDescribes(lease, graph.vertices, graph.edges), RowIdsKnown(lease, graph.vertices)
  PROVE  IsFetching(graph, request, local', output')
<1>1. Fetch
  BY DEF ElementsNext, LabelledBegin, LabelledChunk, Lists
<1>2. local.at <= Len(request) /\ Now = request[local.at] /\ Askable(graph, Now, local.hidden)
  <2>1. Fetches
    BY <1>1 DEF Fetch
  <2>2. /\ request \in Seq(ElementsCall) /\ local.at \in 1..(Len(request) + 1)
        /\ \A k \in 1..Len(request) : Askable(graph, request[k], local.hidden)
    BY DEF IsFetching
  <2>3. local.at \in 1..Len(request)
    BY <2>1, <2>2 DEF Fetches, Answered
  <2> QED
    BY <2>2, <2>3 DEF Now
<1>3. FoundRows \in Seq(Nat \X Nat) /\ ListsOnce(FoundRows, Seen(graph, request[local.at], local.hidden))
  BY <1>2, FoundRowsExact
<1>4. IF local.emitted \/ FoundRows = <<>>
      THEN local' = [local EXCEPT !.emitted = FALSE, !.at = @ + 1] /\ output' = output
      ELSE /\ output' = output \o RowsBeside(local.at, FoundRows)
           /\ local' = [local EXCEPT !.emitted = TRUE]
  BY <1>1 DEF Fetch, FoundRows, RowsBeside
<1> DEFINE found == FoundRows
<1> HIDE DEF found
<1>5. CASE local.emitted \/ FoundRows = <<>>
  <2>1. FoundRows = <<>> => Seen(graph, request[local.at], local.hidden) = {}
    <3> SUFFICES ASSUME FoundRows = <<>>, NEW x \in Seen(graph, request[local.at], local.hidden) PROVE FALSE
      OBVIOUS
    <3>1. PICK i \in 1..Len(FoundRows) : FoundRows[i] = x
      BY <1>3 DEF ListsOnce
    <3>2. Len(FoundRows) = 0
      OBVIOUS
    <3> QED
      BY <3>1, <3>2
  <2>2. IsFetching(graph, request, [local EXCEPT !.emitted = FALSE, !.at = @ + 1], output)
    BY <1>2, <1>5, <2>1, FetchingEnds
  <2> QED
    BY <1>4, <1>5, <2>2
<1>6. CASE ~(local.emitted \/ FoundRows = <<>>)
  <2>1. IsFetching(graph, request, [local EXCEPT !.emitted = TRUE], output \o RowsBeside(local.at, FoundRows))
    BY <1>2, <1>3, <1>6, FetchingGoesOn
  <2> QED
    BY <1>4, <1>6, <2>1
<1> QED
  BY <1>5, <1>6

-----------------------------------------------------------------------------
(* The invariant of the three functions. *)
ElementsInv ==
  /\ Base
  /\ local.op = "labelled" =>
        IsListing(graph, request, lease, local, output) /\ (Acquired => Looks(graph, lease))
  /\ local.op = "fetch" =>
        IsFetching(graph, request, local, output) /\ (Acquired => RowIdsKnown(lease, graph.vertices))

(* The invariant holds at first, *)
LEMMA ElementsInvInit ==
  ASSUME Init
  PROVE  ElementsInv
<1>1. PICK kind \in DOMAIN Cases : \E case \in Cases[kind] : graph = case.graph /\ request = case.request /\ local = case.local
  BY DEF Init
<1>2. PICK case \in Cases[kind] : graph = case.graph /\ request = case.request /\ local = case.local
  BY <1>1
<1>3. /\ local.op = "labelled" => local = LabelledLocal /\ request \in Seq(STRING)
      /\ local.op = "fetch" => IsFetch(graph, request, local)
  BY <1>2, CasesAssumption
<1>4. lease = NoLease /\ output = <<>> /\ Base /\ ~Acquired
  BY BaseInit DEF Init, Acquired
<1>5. \A X : <<>> \in Seq(X) /\ ListsOnce(<<>>, {})
  BY DEF ListsOnce
<1>6. local.op = "labelled" => IsListing(graph, request, lease, local, output)
  <2> SUFFICES ASSUME local.op = "labelled" PROVE IsListing(graph, request, lease, local, output)
    OBVIOUS
  <2>1. request \in Seq(STRING) /\ local = LabelledLocal
    BY <1>3
  <2>2. local \in Listing /\ local.at = 1 /\ ~local.ready
    BY <2>1 DEF LabelledLocal, Listing
  <2>3. Len(request) \in Nat /\ 1 \in 1..(Len(request) + 1) /\ 1..(1 - 1) = {}
    BY <2>1
  <2>4. ListedBefore(graph, request, 1) = {} /\ Underway(lease, request, local) = {}
    BY <2>2, <2>3 DEF ListedBefore, Underway
  <2> QED
    BY <1>4, <1>5, <2>1, <2>2, <2>3, <2>4 DEF IsListing
<1>7. local.op = "fetch" => IsFetching(graph, request, local, output)
  <2> SUFFICES ASSUME local.op = "fetch" PROVE IsFetching(graph, request, local, output)
    OBVIOUS
  <2>1. /\ request \in Seq(ElementsCall) /\ local.hidden \in SUBSET Nat /\ local = FetchLocal(local.hidden)
        /\ \A k \in DOMAIN request :
              ~request[k].vertex =>
                 /\ \A i \in DOMAIN graph.edges : graph.edges[i].id = i
                 /\ \A id \in ToSet(request[k].ids) \ {0, Null} : id \in DOMAIN graph.edges \/ id - 1 \in local.hidden
    BY <1>3 DEF IsFetch
  <2>2. local \in Fetching /\ local.at = 1 /\ ~local.emitted
    <3> DEFINE hidden == local.hidden
    <3>1. hidden \in SUBSET Nat /\ local = FetchLocal(hidden)
      BY <2>1
    <3> HIDE DEF hidden
    <3> QED
      BY <3>1 DEF FetchLocal, Fetching
  <2>3. Len(request) \in Nat /\ 1 \in 1..(Len(request) + 1) /\ 1..0 = {} /\ DOMAIN request = 1..Len(request)
    BY <2>1
  <2>4. \A k \in 1..Len(request) : request[k] \in ElementsCall
    BY <2>1
  <2>5. \A k \in 1..Len(request) : Askable(graph, request[k], local.hidden)
    BY <2>1, <2>3, <2>4 DEF Askable
  <2>6. FetchedTo(graph, request, local.hidden, Through(local)) = {}
    <3>1. Through(local) = 0
      BY <2>2 DEF Through
    <3> QED
      BY <2>3, <3>1 DEF FetchedTo
  <2> QED
    BY <1>4, <1>5, <2>1, <2>2, <2>3, <2>5, <2>6 DEF IsFetching
<1> QED
  BY <1>4, <1>6, <1>7 DEF ElementsInv

(* and every step keeps it. *)
LEMMA ElementsInvStep ==
  ASSUME ElementsInv, [Next]_vars
  PROVE  ElementsInv'
<1>1. Base /\ Base'
  BY BaseStep DEF ElementsInv
<1>2. CASE UNCHANGED vars
  <2>1. graph' = graph /\ request' = request /\ lease' = lease /\ local' = local /\ output' = output
    BY <1>2 DEF vars
  <2>2. Acquired' <=> Acquired
    BY <2>1 DEF Acquired, NoLease
  <2> QED
    BY <1>1, <2>1, <2>2 DEF ElementsInv
<1>3. CASE Next
  <2>1. KeepsKind(local, local') /\ (local.op \in {"labelled", "fetch"} => Acquire \/ ElementsNext)
    BY <1>1, <1>3, StepKind DEF Base
  <2>2. IsGraph(graph) /\ (Acquired => LeaseDescribes(lease, graph.vertices, graph.edges))
    BY <1>1 DEF Base, Described, Acquired
  <2>3. ASSUME local'.op = "labelled"
        PROVE  IsListing(graph, request, lease, local, output)' /\ (Acquired => Looks(graph, lease))'
    <3>1. local.op = "labelled"
      BY <2>1, <2>3 DEF KeepsKind
    <3>2. IsListing(graph, request, lease, local, output) /\ (Acquired => Looks(graph, lease))
      BY <3>1 DEF ElementsInv
    <3>3. CASE Acquire
      <4>1. /\ graph' = graph /\ request' = request /\ local' = local /\ output' = output /\ lease' = LeaseOf(graph)
            /\ lease = NoLease
        BY <3>1, <3>3 DEF Acquire
      <4>2. Looks(graph, lease')
        BY <2>2, <4>1, AcquiredLooks
      <4>4. ~local.ready
        BY <3>2, <4>1 DEF IsListing
      <4>5. IsListing(graph, request, lease', local, output)
        BY <3>2, <4>4 DEF IsListing, Underway
      <4> QED
        BY <4>1, <4>2, <4>5
    <3>4. CASE ElementsNext
      <4>1. Acquired /\ graph' = graph /\ request' = request /\ lease' = lease
        BY <3>1, <3>4 DEF ElementsNext, LabelledBegin, LabelledChunk, Fetch, Lists, Fetches, Step
      <4>2. ListsLabels(graph, lease)
        BY <2>2, <3>2, <4>1, LabelsListed
      <4>3. IsListing(graph, request, lease, local', output')
        BY <3>1, <3>2, <3>4, <4>2, ListingStep
      <4> QED
        BY <3>2, <4>1, <4>3
    <3> QED
      BY <2>1, <3>1, <3>3, <3>4
  <2>4. ASSUME local'.op = "fetch"
        PROVE  IsFetching(graph, request, local, output)' /\ (Acquired => RowIdsKnown(lease, graph.vertices))'
    <3>1. local.op = "fetch"
      BY <2>1, <2>4 DEF KeepsKind
    <3>2. IsFetching(graph, request, local, output) /\ (Acquired => RowIdsKnown(lease, graph.vertices))
      BY <3>1 DEF ElementsInv
    <3>3. CASE Acquire
      <4>1. graph' = graph /\ request' = request /\ local' = local /\ output' = output /\ lease' = LeaseOf(graph)
        BY <3>1, <3>3 DEF Acquire
      <4>2. RowIdsKnown(lease', graph.vertices)
        BY <2>2, <4>1, AcquiredRowIds
      <4> QED
        BY <3>2, <4>1, <4>2
    <3>4. CASE ElementsNext
      <4>1. Acquired /\ graph' = graph /\ request' = request /\ lease' = lease
        BY <3>1, <3>4 DEF ElementsNext, LabelledBegin, LabelledChunk, Fetch, Lists, Fetches, Step
      <4>2. IsFetching(graph, request, local', output')
        BY <2>2, <3>1, <3>2, <3>4, <4>1, FetchingStep
      <4> QED
        BY <3>2, <4>1, <4>2
    <3> QED
      BY <2>1, <3>1, <3>3, <3>4
  <2> QED
    BY <1>1, <2>3, <2>4 DEF ElementsInv
<1> QED
  BY <1>2, <1>3

(* A scan returns each vertex of its label once, wherever a chunk ends between the postings and
   the delta; a fetch returns for every place of its chunks the row its id names, once, as far as
   the transaction sees it, wherever storage packs the rows it returns (ElementFetchFunction). *)
THEOREM ElementsAreExact == Spec => []ElementsExact
<1>1. Init => ElementsInv
  BY ElementsInvInit
<1>2. ElementsInv /\ [Next]_vars => ElementsInv'
  BY ElementsInvStep
<1>3. ElementsInv => ElementsExact
  <2> SUFFICES ASSUME ElementsInv, local.op \in {"labelled", "fetch"}, Answered
               PROVE  /\ IsInjective(output)
                      /\ ToSet(output) =
                            UNION {IF local.op = "fetch" THEN AskedRows(k)
                                   ELSE {[request |-> k, vertex |-> id] :
                                            id \in {id \in VertexIds : request[k] \in LabelsOf(id)}} :
                                      k \in DOMAIN request}
    BY DEF ElementsExact
  <2>1. \A S : ListsOnce(output, S) => IsInjective(output) /\ ToSet(output) = S
    <3> SUFFICES ASSUME NEW S, ListsOnce(output, S) PROVE IsInjective(output) /\ ToSet(output) = S
      OBVIOUS
    <3>1. IsInjective(output)
      BY DEF ListsOnce, IsInjective
    <3>2. ToSet(output) = S
      BY DEF ListsOnce, ToSet
    <3> QED
      BY <3>1, <3>2
  <2>2. CASE local.op = "labelled"
    <3> DEFINE all == UNION {{[request |-> k, vertex |-> id] : id \in {id \in VertexIds : request[k] \in LabelsOf(id)}} :
                               k \in DOMAIN request}
    <3>1. IsListing(graph, request, lease, local, output)
      BY <2>2 DEF ElementsInv
    <3>2. /\ local.at = Len(request) + 1 /\ ~local.ready /\ local.at - 1 = Len(request)
          /\ DOMAIN request = 1..Len(request)
      <4>1. request \in Seq(STRING) /\ local.at \in 1..(Len(request) + 1) /\ (local.ready => local.at <= Len(request))
        BY <3>1 DEF IsListing
      <4>2. Len(request) \in Nat /\ DOMAIN request = 1..Len(request)
        BY <4>1
      <4> QED
        BY <4>1, <4>2 DEF Answered
    <3>3. ListsOnce(output, ListedBefore(graph, request, local.at))
      BY <3>1, <3>2 DEF IsListing, Underway
    <3>4. \A k : Labelled(graph, request[k]) = {id \in VertexIds : request[k] \in LabelsOf(id)}
      BY DEF Labelled, VertexIds, Vertices, LabelsOf, LabelsAt
    <3>5. ListedBefore(graph, request, local.at) = all
      BY <3>2, <3>4 DEF ListedBefore, Listed
    <3> HIDE DEF all
    <3>6. IsInjective(output) /\ ToSet(output) = all
      BY <2>1, <3>3, <3>5
    <3> QED
      BY <2>2, <3>6 DEF all
  <2>3. CASE local.op = "fetch"
    <3> DEFINE all == UNION {AskedRows(k) : k \in DOMAIN request}
    <3>1. IsFetching(graph, request, local, output)
      BY <2>3 DEF ElementsInv
    <3>2. Through(local) = Len(request) /\ DOMAIN request = 1..Len(request)
      <4>1. request \in Seq(ElementsCall) /\ local.at \in 1..(Len(request) + 1) /\ (local.emitted => local.at <= Len(request))
        BY <3>1 DEF IsFetching
      <4>2. Len(request) \in Nat /\ DOMAIN request = 1..Len(request)
        BY <4>1
      <4> QED
        BY <4>1, <4>2 DEF Answered, Through
    <3>3. ListsOnce(output, FetchedTo(graph, request, local.hidden, Len(request)))
      BY <3>1, <3>2 DEF IsFetching
    <3>4. ASSUME NEW k PROVE RowsFetched(graph, request, local.hidden, k) = AskedRows(k)
      <4>2. \A x : x \in AskedRows(k) <=>
                      \E place \in DOMAIN request[k].ids :
                         \E row \in RowsNamed(graph, request[k], request[k].ids[place]) \ local.hidden :
                            x = [request |-> k, row |-> row, place |-> place]
        BY DEF AskedRows, RowsNamed, Vertices, Edges
      <4>3. \A a : a \in Seen(graph, request[k], local.hidden) <=>
                      \E place \in DOMAIN request[k].ids :
                         \E row \in RowsNamed(graph, request[k], request[k].ids[place]) \ local.hidden :
                            a = <<row, place>>
        BY DEF Seen
      <4>4. \A row, place : Fetched(k, <<row, place>>) = [request |-> k, row |-> row, place |-> place]
        BY DEF Fetched
      <4>5. \A x : x \in RowsFetched(graph, request, local.hidden, k) <=>
                      \E a \in Seen(graph, request[k], local.hidden) : x = Fetched(k, a)
        BY DEF RowsFetched
      <4>6. \A x : x \in RowsFetched(graph, request, local.hidden, k) <=> x \in AskedRows(k)
        <5>1. ASSUME NEW x \in RowsFetched(graph, request, local.hidden, k) PROVE x \in AskedRows(k)
          <6>1. PICK a \in Seen(graph, request[k], local.hidden) : x = Fetched(k, a)
            BY <4>5
          <6>2. PICK place \in DOMAIN request[k].ids :
                   \E row \in RowsNamed(graph, request[k], request[k].ids[place]) \ local.hidden : a = <<row, place>>
            BY <4>3
          <6>3. PICK row \in RowsNamed(graph, request[k], request[k].ids[place]) \ local.hidden : a = <<row, place>>
            BY <6>2
          <6>4. x = [request |-> k, row |-> row, place |-> place]
            BY <4>4, <6>1, <6>3
          <6> QED
            BY <4>2, <6>4
        <5>2. ASSUME NEW x \in AskedRows(k) PROVE x \in RowsFetched(graph, request, local.hidden, k)
          <6>1. PICK place \in DOMAIN request[k].ids :
                   \E row \in RowsNamed(graph, request[k], request[k].ids[place]) \ local.hidden :
                      x = [request |-> k, row |-> row, place |-> place]
            BY <4>2
          <6>2. PICK row \in RowsNamed(graph, request[k], request[k].ids[place]) \ local.hidden :
                   x = [request |-> k, row |-> row, place |-> place]
            BY <6>1
          <6>3. <<row, place>> \in Seen(graph, request[k], local.hidden)
            BY <4>3
          <6> QED
            BY <4>4, <4>5, <6>2, <6>3
        <5> QED
          BY <5>1, <5>2
      <4> QED
        BY <4>6
    <3>5. FetchedTo(graph, request, local.hidden, Len(request)) = all
      BY <3>2, <3>4 DEF FetchedTo
    <3> HIDE DEF all
    <3>6. IsInjective(output) /\ ToSet(output) = all
      BY <2>1, <3>3, <3>5
    <3> QED
      BY <2>3, <3>6 DEF all
  <2> QED
    BY <2>2, <2>3
<1> QED
  BY <1>1, <1>2, <1>3, PTL DEF Spec
=============================================================================
