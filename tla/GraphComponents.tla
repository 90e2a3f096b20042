--------------------------- MODULE GraphComponents ---------------------------
(***************************************************************************)
(* The procedures of gql_algorithms.cpp that read the whole graph before   *)
(* they return a row: connected components, degrees, triangles, clustering *)
(* and closeness.                                                          *)
(* Each is one step, on the subgraph of a vertex label and an edge label   *)
(* (Null when not given): a request is a call [what, vertexLabel,          *)
(* edgeLabel], what being "wcc", "scc", "degree", "triangles", "lcc" or,   *)
(* by direction, "closeness_out", "closeness_in" or "closeness_both".      *)
(***************************************************************************)
EXTENDS GraphReader

ComponentsLocal == [op |-> "components", at |-> 1]

Size == lease.snapshot.size

(* InVertexProjection, in the order of the ordinals. *)
Mask(call) ==
    IF call.vertexLabel = Null THEN DOMAIN lease.snapshot.ids
    ELSE MaskByPostings(lease.snapshot, call.vertexLabel)

InOrder(vertices) == SetToSortSeq(vertices, <)

(* VisitRange inside the projection: the neighbors of a vertex in one direction. *)
Along(call, vertex, outgoing) ==
    LET mask == Mask(call)
        kept == SelectSeq(BaseEdges(lease, vertex, outgoing),
                          LAMBDA e : /\ e.neighbor \in mask
                                     /\ call.edgeLabel # Null =>
                                            e.label \in FindLabel(lease.snapshot.dict, call.edgeLabel))
    IN  [k \in DOMAIN kept |-> kept[k].neighbor]

(* The arcs of the projection, parallel ones as often as there are. *)
Arcs(call) ==
    FoldLeft(LAMBDA arcs, v : LET targets == Along(call, v, TRUE)
                              IN  arcs \o [j \in DOMAIN targets |-> <<v, targets[j]>>],
             <<>>, InOrder(Mask(call)))

-----------------------------------------------------------------------------
(* Weakly connected components: union by size, paths compressed at each find. *)
Root(parents, v) ==
    LET root[u \in DOMAIN parents] == IF parents[u] = u THEN u ELSE root[parents[u]]
    IN  root[v]

PathTo(parents, v) ==
    LET path[u \in DOMAIN parents] == IF parents[u] = u THEN {} ELSE {u} \cup path[parents[u]]
    IN  path[v]

Compress(parents, v) ==
    FoldSet(LAMBDA u, compressed : [compressed EXCEPT ![u] = Root(parents, v)], parents, PathTo(parents, v))

Union(forest, u, v) ==
    LET parents == Compress(Compress(forest.parents, u), v)
        from == Root(parents, u)
        to == Root(parents, v)
        large == IF forest.sizes[from] < forest.sizes[to] THEN to ELSE from
        small == IF large = from THEN to ELSE from
    IN  IF from = to THEN [forest EXCEPT !.parents = parents]
        ELSE [parents |-> [parents EXCEPT ![small] = large],
              sizes |-> [forest.sizes EXCEPT ![large] = @ + forest.sizes[small]]]

(* A component is named by the smallest id in it. *)
ComponentRow(v, members) ==
    [vertex |-> lease.snapshot.ids[v], component |-> Min({lease.snapshot.ids[m] : m \in members}),
     size |-> Cardinality(members)]

Wcc(call) ==
    LET forest == FoldLeft(LAMBDA f, arc : Union(f, arc[1], arc[2]),
                           [parents |-> [v \in DOMAIN lease.snapshot.ids |-> v],
                            sizes |-> [v \in DOMAIN lease.snapshot.ids |-> 1]],
                           Arcs(call))
    IN  {ComponentRow(v, {u \in Mask(call) : Root(forest.parents, u) = Root(forest.parents, v)}) :
            v \in Mask(call)}

-----------------------------------------------------------------------------
(* Strongly connected components: the vertices in the order a depth-first search along
   the arcs finishes them; then, last first, all that is met against the arcs. *)
Finish(call, start, vertex) ==
    LET finish[search \in [visited : SUBSET Nat, order : Seq(Nat)], v \in Nat] ==
            IF v \in search.visited THEN search
            ELSE LET below == FoldLeft(LAMBDA s, n : finish[s, n],
                                       [search EXCEPT !.visited = @ \cup {v}], Along(call, v, TRUE))
                 IN  [below EXCEPT !.order = Append(@, v)]
    IN  finish[start, vertex]

(* One vertex off the stack, and the new ones against its arcs onto it. *)
Gathered(call, s) ==
    LET new == SelectSeq(Along(call, Last(s.stack), FALSE), LAMBDA n : n \notin s.visited)
    IN  IF s.stack = <<>> THEN s
        ELSE [stack |-> Front(s.stack) \o new, visited |-> s.visited \cup ToSet(new)]

(* An arc puts a vertex on the stack once at most. *)
Gather(call, v, visited) ==
    Repeat(LAMBDA s : Gathered(call, s), [stack |-> <<v>>, visited |-> visited \cup {v}],
           Len(Arcs(call)) + 1).visited

(* Mutant of LastFirst: the second pass goes over the vertices as they were finished. *)
FirstFirst(order) == order

LastFirst(order) == Reverse(order)

Scc(call) ==
    LET search == FoldLeft(LAMBDA s, v : Finish(call, s, v), [visited |-> {}, order |-> <<>>],
                           InOrder(Mask(call)))
        gathered ==
            FoldLeft(LAMBDA acc, v :
                         IF v \in acc.visited THEN acc
                         ELSE LET visited == Gather(call, v, acc.visited)
                              IN  [visited |-> visited,
                                   components |-> acc.components \cup {visited \ acc.visited}],
                     [visited |-> {}, components |-> {}], LastFirst(search.order))
    IN  UNION {{ComponentRow(v, c) : v \in c} : c \in gathered.components}

-----------------------------------------------------------------------------
(* The distinct pairs of neighbors, and how many each vertex has. *)
DistinctArcs(call) == {a \in ToSet(Arcs(call)) : a[1] # a[2]}

(* Mutant of Undirected: opposite arcs stay two pairs. *)
UndirectedAsGiven(call) == DistinctArcs(call)

Undirected(call) ==
    {<<Min({a[1], a[2]}), Max({a[1], a[2]})>> : a \in DistinctArcs(call)}

Degree(pairs, v) == Cardinality({p \in pairs : v \in {p[1], p[2]}})

IsLowerRank(pairs, u, v) ==
    \/ Degree(pairs, u) < Degree(pairs, v)
    \/ Degree(pairs, u) = Degree(pairs, v) /\ u < v

(* Each pair is kept at its end of lower rank. *)
Forward(pairs) ==
    [v \in DOMAIN lease.snapshot.ids |->
        {IF p[1] = v THEN p[2] ELSE p[1] :
            p \in {p \in pairs : v = IF IsLowerRank(pairs, p[1], p[2]) THEN p[1] ELSE p[2]}}]

(* ComputeTriangleCounts: a pair and a common forward neighbor of its two ends. *)
Triangles(call) ==
    LET pairs == Undirected(call)
        forward == Forward(pairs)
        found == UNION {UNION {{<<v, m, t>> : t \in forward[m] \cap forward[v]} : m \in forward[v]} :
                           v \in Mask(call)}
    IN  {[vertex |-> lease.snapshot.ids[v], degree |-> Degree(pairs, v),
          triangles |-> Cardinality({f \in found : v \in ToSet(f)}), global |-> Cardinality(found)] :
            v \in Mask(call)}

(* ComputeLcc: each distinct arc counts for the common neighbors of its two ends. *)
Lcc(call) ==
    LET pairs == Undirected(call)
        neighbors(v) == {u \in Mask(call) : {<<u, v>>, <<v, u>>} \cap pairs # {}}
    IN  {[vertex |-> lease.snapshot.ids[v], degree |-> Degree(pairs, v),
          arcs |-> Cardinality({a \in DistinctArcs(call) : v \in neighbors(a[1]) \cap neighbors(a[2])})] :
            v \in Mask(call)}

(* ComputeDegrees: without labels the offsets tell. *)
Degrees(call) ==
    LET whole == call.vertexLabel = Null /\ call.edgeLabel = Null
        count(v, outgoing) ==
            IF whole THEN Side(lease, outgoing).offsets[v + 1] - Side(lease, outgoing).offsets[v]
            ELSE Len(Along(call, v, outgoing))
    IN  {[vertex |-> lease.snapshot.ids[v], out |-> count(v, TRUE), in |-> count(v, FALSE)] :
            v \in Mask(call)}

(* ComputeCloseness: a breadth-first search from each vertex, which adds up the distances
   of those it meets.  The score is a quotient of the two numbers. *)
Toward(call, v) ==
    (IF call.what = "closeness_in" THEN <<>> ELSE Along(call, v, TRUE))
        \o (IF call.what = "closeness_out" THEN <<>> ELSE Along(call, v, FALSE))

Closer(call, search) ==
    LET v == Head(search.queue)
        meet(s, n) ==
            IF n \in DOMAIN s.distances THEN s
            ELSE [distances |-> (n :> s.distances[v] + 1) @@ s.distances,
                  queue |-> Append(s.queue, n), sum |-> s.sum + s.distances[v] + 1]
    IN  IF search.queue = <<>> THEN search
        ELSE FoldLeft(meet, [search EXCEPT !.queue = Tail(@)], Toward(call, v))

Closeness(call) ==
    {LET search == Repeat(LAMBDA s : Closer(call, s),
                          [distances |-> (v :> 0), queue |-> <<v>>, sum |-> 0], Size)
     IN  [vertex |-> lease.snapshot.ids[v], reachable |-> Cardinality(DOMAIN search.distances) - 1,
          sum |-> search.sum] :
        v \in Mask(call)}

ComponentsNext ==
    /\ local.op = "components" /\ Acquired /\ ~Answered
    /\ \/ Now.what = "wcc" /\ Answer(Wcc(Now))
       \/ Now.what = "scc" /\ Answer(Scc(Now))
       \/ Now.what = "triangles" /\ Answer(Triangles(Now))
       \/ Now.what = "lcc" /\ Answer(Lcc(Now))
       \/ Now.what = "degree" /\ Answer(Degrees(Now))
       \/ Now.what \in {"closeness_out", "closeness_in", "closeness_both"} /\ Answer(Closeness(Now))
    /\ local' = [local EXCEPT !.at = @ + 1]
    /\ Step

-----------------------------------------------------------------------------
(* The subgraph a call is about, from the rows of the tables. *)
Members(call) == {id \in VertexIds : call.vertexLabel \in {Null} \cup LabelsOf(id)}

Subgraph(call) ==
    LET members == Members(call)
    IN  {e \in Edges : /\ {e.source, e.target} \subseteq members
                       /\ call.edgeLabel \in {Null, e.label}}

Links(call) == {<<e.source, e.target>> : e \in Subgraph(call)}

(* Either direction, between two vertices. *)
Joined(call) ==
    LET links == {l \in Links(call) : l[1] # l[2]}
    IN  links \cup {<<l[2], l[1]>> : l \in links}

Reach(links, from) ==
    Repeat(LAMBDA met : met \cup {l[2] : l \in {l \in links : l[1] \in met}}, from,
           Cardinality(VertexIds))

(* One row for each vertex, of the component that has a walk there and back. *)
ComponentRows(call, links) ==
    LET walks == UNION {{v} \X Reach(links, {v}) : v \in Members(call)}
        members(v) == {u \in Members(call) : {<<u, v>>, <<v, u>>} \subseteq walks}
    IN  {[vertex |-> v, component |-> Min(members(v)), size |-> Cardinality(members(v))] :
            v \in Members(call)}

(* Two vertices are in one weak component exactly if they are joined by a walk of the
   projection in either direction, in one strong component exactly if each reaches the
   other; the component's size and smallest id are its own (ComputeWcc, ComputeScc). *)
ComponentsExact ==
    local.op = "components" /\ output # <<>> =>
        LET call == request[Len(output)]
        IN  /\ call.what = "wcc" => Last(output) = ComponentRows(call, Joined(call))
            /\ call.what = "scc" => Last(output) = ComponentRows(call, Links(call))

(* The distances a call measures, by the number of rounds that reach a vertex. *)
RoundsTo(call, from, to) ==
    LET links == UNION {(IF call.what = "closeness_in" THEN {} ELSE {l})
                            \cup (IF call.what = "closeness_out" THEN {} ELSE {<<l[2], l[1]>>}) :
                            l \in Links(call)}
        within[n \in Nat] ==
            IF n = 0 THEN {from}
            ELSE within[n - 1] \cup {l[2] : l \in {l \in links : l[1] \in within[n - 1]}}
    IN  {n \in 1..Cardinality(VertexIds) : to \in within[n] \ within[n - 1]}

(* What is counted at a vertex is what the rows of the tables say.  Each triangle of
   distinct, mutually joined vertices counts once at each of its corners, parallel and
   opposite edges notwithstanding, and a vertex counts the arcs among its neighbors with
   their directions (ComputeTriangleCounts, ComputeLcc); degrees count every edge, those
   to the vertex itself twice in all, by the offsets as by the labels (ComputeDegrees); the
   vertices in reach and their distances are those of shortest walks (ComputeCloseness). *)
CountsExact ==
    local.op = "components" /\ output # <<>> =>
        LET call == request[Len(output)]
            joined == Joined(call)
            near(v) == {u \in Members(call) : <<u, v>> \in joined}
            corners == {c \in SUBSET Members(call) :
                           /\ Cardinality(c) = 3
                           /\ \A u, v \in c : u # v => <<u, v>> \in joined}
        IN  /\ call.what = "triangles" =>
                   Last(output) = {[vertex |-> v, degree |-> Cardinality(near(v)),
                                 triangles |-> Cardinality({c \in corners : v \in c}),
                                 global |-> Cardinality(corners)] : v \in Members(call)}
            /\ call.what = "lcc" =>
                   Last(output) = {[vertex |-> v, degree |-> Cardinality(near(v)),
                                 arcs |-> Cardinality({l \in Links(call) :
                                              l[1] # l[2] /\ {l[1], l[2]} \subseteq near(v)})] :
                                   v \in Members(call)}
            /\ call.what = "degree" =>
                   Last(output) = {[vertex |-> v,
                                 out |-> Cardinality({e \in Subgraph(call) : e.source = v}),
                                 in |-> Cardinality({e \in Subgraph(call) : e.target = v})] :
                                   v \in Members(call)}
            /\ call.what \notin {"wcc", "scc", "degree", "triangles", "lcc"} =>
                   Last(output) = {[vertex |-> v,
                                 reachable |-> Cardinality({u \in Members(call) : RoundsTo(call, v, u) # {}}),
                                 sum |-> SumFunction([u \in Members(call) |->
                                             FoldSet(+, 0, RoundsTo(call, v, u))])] :
                                   v \in Members(call)}
=============================================================================
