--------------------------- MODULE GraphTraversals ---------------------------
(***************************************************************************)
(* The traversal procedures of gql_algorithms.cpp that return a row per    *)
(* vertex as they go: breadth-first and depth-first search and weighted    *)
(* shortest paths.                                                         *)
(*                                                                         *)
(* A request is a call [starts, target, direction, edgeLabel, vertexLabel, *)
(* most]: starts is the one vertex of a table function or the frontier a   *)
(* MATCH hands to a CALL, in any order; direction is "out", "in" or        *)
(* "both", a label is Null when it is not given, target too, and most is   *)
(* max_depth.                                                              *)
(***************************************************************************)
EXTENDS GraphReader

CONSTANT LargestDistance \* the largest finite double, in units of weight

ASSUME TraversalsAssumption == LargestDistance \in Nat

Infinity == LargestDistance + 1
InvalidWeight == -1 \* negative, infinite or NULL
NoParent == [vertex |-> Null, edge |-> Null]

Error(name) == [op |-> "failed", error |-> name]

(* InVertexProjection of BuildVertexMask *)
Projected(vertexLabel) ==
    IF vertexLabel = Null THEN DOMAIN lease.snapshot.ids
    ELSE MaskByPostings(lease.snapshot, vertexLabel)

(* RequireProjectedVertex *)
Required(id, call) == BaseOrdinal(lease.snapshot, id) \cap Projected(call.vertexLabel)

(* The distinct starts, in order, or none if one of them or the target is not of the
   projection. *)
StartsOf(call) ==
    LET ids == SetToSortSeq(ToSet(call.starts), <)
        ends == ToSet(ids) \cup ({call.target} \ {Null})
    IN  IF \E id \in ends : Required(id, call) = {} THEN {}
        ELSE {[k \in DOMAIN ids |-> CHOOSE o \in Required(ids[k], call) : TRUE]}

(* VisitNeighbors: out of a vertex first, then into it. *)
Visited(vertex, call) ==
    LET projected == Projected(call.vertexLabel)
        along(outgoing) ==
            SelectSeq(BaseEdges(lease, vertex, outgoing),
                      LAMBDA e : /\ e.neighbor \in projected
                                 /\ call.edgeLabel # Null =>
                                        e.label \in FindLabel(lease.snapshot.dict, call.edgeLabel))
    IN  (IF call.direction = "in" THEN <<>> ELSE along(TRUE))
            \o (IF call.direction = "out" THEN <<>> ELSE along(FALSE))

(* A row of the output: where the vertex was met from, and over which edge. *)
VisitRow(vertex, distance, parent) ==
    [vertex |-> lease.snapshot.ids[vertex], distance |-> distance,
     parent |-> IF parent = NoParent THEN Null ELSE lease.snapshot.ids[parent.vertex],
     edge |-> parent.edge]

IsTarget(call, vertex) == call.target # Null /\ vertex \in BaseOrdinal(lease.snapshot, call.target)

-----------------------------------------------------------------------------
BfsLocal == [op |-> "bfs", at |-> 1, ready |-> FALSE, visited |-> {}, queue |-> <<>>, head |-> 1]

Searches == local.op = "bfs" /\ Acquired /\ ~Answered

(* InitializeBfs, InitializePipelineBfs *)
BfsBegin ==
    /\ Searches /\ ~local.ready
    /\ \/ StartsOf(Now) = {} /\ local' = Error("vertex")
       \/ \E starts \in StartsOf(Now) :
             local' = [local EXCEPT !.ready = TRUE, !.visited = ToSet(starts),
                           !.queue = [k \in DOMAIN starts |->
                                         [vertex |-> starts[k], depth |-> 0, parent |-> NoParent]]]
    /\ Step /\ UNCHANGED output

(* A neighbor not met yet is met here. *)
Discover(met, row, edge) ==
    IF edge.neighbor \in met.visited THEN met
    ELSE [met EXCEPT !.visited = @ \cup {edge.neighbor},
                     !.queue = Append(@, [vertex |-> edge.neighbor, depth |-> row.depth + 1,
                                          parent |-> [vertex |-> row.vertex, edge |-> edge.id]])]

(* Mutant of DepthLeft: the vertices at the maximal depth are expanded too. *)
DepthReached(row) == row.depth <= Now.most

DepthLeft(row) == row.depth < Now.most

(* One vertex off the queue; the call is over at the target or at the queue's end. *)
BfsVisit ==
    /\ Searches /\ local.ready /\ local.head <= Len(local.queue)
    /\ LET row == local.queue[local.head]
           taken == [local EXCEPT !.head = @ + 1]
           met == FoldLeft(LAMBDA acc, edge : Discover(acc, row, edge),
                           [visited |-> local.visited, queue |-> local.queue],
                           Visited(row.vertex, Now))
       IN  /\ Answer(VisitRow(row.vertex, row.depth, row.parent))
           /\ local' = IF IsTarget(Now, row.vertex) THEN [taken EXCEPT !.at = @ + 1]
                       ELSE IF DepthLeft(row)
                       THEN [taken EXCEPT !.visited = met.visited, !.queue = met.queue]
                       ELSE taken
    /\ Step

BfsEnd ==
    /\ Searches /\ local.ready /\ local.head > Len(local.queue)
    /\ local' = [local EXCEPT !.at = @ + 1]
    /\ Step /\ UNCHANGED output

-----------------------------------------------------------------------------
DfsLocal == [op |-> "dfs", at |-> 1, ready |-> FALSE, frontier |-> <<>>, visited |-> {}, stack |-> <<>>]

Descending == local.op = "dfs" /\ Acquired /\ ~Answered

(* InitializeDfs, InitializePipelineDfs *)
DfsBegin ==
    /\ Descending /\ ~local.ready
    /\ \/ StartsOf(Now) = {} /\ local' = Error("vertex")
       \/ \E starts \in StartsOf(Now) :
             local' = [local EXCEPT !.ready = TRUE, !.frontier = starts]
    /\ Step /\ UNCHANGED output

(* A vertex is met: its row is returned, and the search goes on at its edges. *)
Enter(l, vertex, depth, parent) ==
    /\ Answer(VisitRow(vertex, depth, parent))
    /\ local' = [l EXCEPT !.visited = @ \cup {vertex},
                          !.stack = Append(@, [vertex |-> vertex, depth |-> depth, cursor |-> 0]),
                          !.at = IF IsTarget(Now, vertex) THEN @ + 1 ELSE @]

(* A start that no search before has met. *)
DfsStart ==
    /\ Descending /\ local.ready /\ local.stack = <<>> /\ local.frontier # <<>>
    /\ LET start == Head(local.frontier)
           rest == [local EXCEPT !.frontier = Tail(@)]
       IN  \/ start \in local.visited /\ local' = rest /\ UNCHANGED output
           \/ start \notin local.visited /\ Enter(rest, start, 0, NoParent)
    /\ Step

(* The edges of a frame that lead on: NextDfsNeighbor, passing over visited vertices. *)
Unvisited(frame, edges) ==
    {k \in (frame.cursor + 1)..Len(edges) : edges[k].neighbor \notin local.visited}

(* Down the next edge of the frame on top, or back from it. *)
DfsMove ==
    /\ Descending /\ local.ready /\ local.stack # <<>>
    /\ LET frame == Last(local.stack)
           edges == Visited(frame.vertex, Now)
           ahead == IF DepthLeft(frame) THEN Unvisited(frame, edges) ELSE {}
       IN  \/ ahead = {} /\ local' = [local EXCEPT !.stack = Front(@)] /\ UNCHANGED output
           \/ /\ ahead # {}
              /\ Enter([local EXCEPT !.stack[Len(local.stack)].cursor = Min(ahead)],
                       edges[Min(ahead)].neighbor, frame.depth + 1,
                       [vertex |-> frame.vertex, edge |-> edges[Min(ahead)].id])
    /\ Step

DfsEnd ==
    /\ Descending /\ local.ready /\ local.stack = <<>> /\ local.frontier = <<>>
    /\ local' = [local EXCEPT !.at = @ + 1]
    /\ Step /\ UNCHANGED output

-----------------------------------------------------------------------------
SsspLocal == [op |-> "sssp", at |-> 1, ready |-> FALSE, state |-> Null]

(* WeightedSsspState: an indexed binary heap, its root at 0 in the code and at 1 here;
   position is 0 for a vertex that is not on it. *)
FirstState(count, start) ==
    [settled |-> {}, distances |-> [v \in count |-> IF v = start THEN 0 ELSE Infinity],
     parents |-> [v \in count |-> NoParent], heap |-> <<>>, positions |-> [v \in count |-> 0],
     overflow |-> FALSE]

Relaxes == local.op = "sssp" /\ Acquired /\ ~Answered

Less(s, left, right) ==
    \/ s.distances[left] < s.distances[right]
    \/ s.distances[left] = s.distances[right] /\ left < right

Swap(s, i, j) ==
    [s EXCEPT !.heap = [@ EXCEPT ![i] = s.heap[j], ![j] = s.heap[i]],
              !.positions = [@ EXCEPT ![s.heap[j]] = i, ![s.heap[i]] = j]]

(* One round of sifting a vertex up from its place on the heap. *)
Raised(sift) ==
    IF sift.at > 1 /\ Less(sift.of, sift.of.heap[sift.at], sift.of.heap[sift.at \div 2])
    THEN [of |-> Swap(sift.of, sift.at, sift.at \div 2), at |-> sift.at \div 2]
    ELSE sift

SiftUp(s, i) == Repeat(Raised, [of |-> s, at |-> i], i).of

(* Mutant of SmallerChild: the right child is never considered. *)
LeftChild(s, i) == 2 * i

SmallerChild(s, i) ==
    IF 2 * i + 1 <= Len(s.heap) /\ Less(s, s.heap[2 * i + 1], s.heap[2 * i])
    THEN 2 * i + 1 ELSE 2 * i

Lowered(sift) ==
    LET child == SmallerChild(sift.of, sift.at)
    IN  IF 2 * sift.at <= Len(sift.of.heap) /\ Less(sift.of, sift.of.heap[child], sift.of.heap[sift.at])
        THEN [of |-> Swap(sift.of, sift.at, child), at |-> child]
        ELSE sift

SiftDown(s, i) == Repeat(Lowered, [of |-> s, at |-> i], Len(s.heap)).of

Decrease(s, vertex) ==
    IF s.positions[vertex] # 0 THEN SiftUp(s, s.positions[vertex])
    ELSE SiftUp([s EXCEPT !.heap = Append(@, vertex), !.positions[vertex] = Len(s.heap) + 1],
                Len(s.heap) + 1)

Pop(s) ==
    LET swapped == Swap(s, 1, Len(s.heap))
    IN  SiftDown([swapped EXCEPT !.heap = Front(@), !.positions[s.heap[1]] = 0], 1)

(* InitializeWeightedSssp: every weight of the projection is looked at before a row
   is returned, those out of reach too. *)
SsspBegin ==
    /\ Relaxes /\ ~local.ready
    /\ LET count == DOMAIN lease.snapshot.ids
           invalid == \E v \in Projected(Now.vertexLabel) :
                          \E e \in ToSet(Visited(v, Now)) : e.weight = InvalidWeight
       IN  \/ StartsOf(Now) = {} /\ local' = Error("vertex")
           \/ StartsOf(Now) # {} /\ invalid /\ local' = Error("weight")
           \/ \E starts \in StartsOf(Now) :
                 /\ ~invalid
                 /\ local' = [local EXCEPT !.ready = TRUE,
                                           !.state = Decrease(FirstState(count, starts[1]), starts[1])]
    /\ Step /\ UNCHANGED output

Finite(distance) == distance <= LargestDistance

Relax(s, vertex, edge) ==
    IF s.overflow \/ edge.neighbor \in s.settled THEN s
    ELSE LET distance == s.distances[vertex] + edge.weight
         IN  IF ~Finite(distance) THEN [s EXCEPT !.overflow = TRUE]
             ELSE IF distance < s.distances[edge.neighbor]
             THEN Decrease([s EXCEPT !.distances[edge.neighbor] = distance,
                                     !.parents[edge.neighbor] = [vertex |-> vertex, edge |-> edge.id]],
                           edge.neighbor)
             ELSE s

(* One vertex off the heap.  The rows of a call that fails are not returned. *)
SsspSettle ==
    /\ Relaxes /\ local.ready /\ local.state.heap # <<>>
    /\ LET state == local.state
           vertex == state.heap[1]
           popped == [Pop(state) EXCEPT !.settled = @ \cup {vertex}]
           relaxed == FoldLeft(LAMBDA s, edge : Relax(s, vertex, edge), popped, Visited(vertex, Now))
           settles == Answer(VisitRow(vertex, state.distances[vertex], state.parents[vertex]))
       IN  IF IsTarget(Now, vertex)
           THEN settles /\ local' = [local EXCEPT !.state = popped, !.at = @ + 1]
           ELSE IF relaxed.overflow THEN local' = Error("overflow") /\ UNCHANGED output
           ELSE settles /\ local' = [local EXCEPT !.state = relaxed]
    /\ Step

SsspEnd ==
    /\ Relaxes /\ local.ready /\ local.state.heap = <<>>
    /\ local' = [local EXCEPT !.at = @ + 1]
    /\ Step /\ UNCHANGED output

TraversalsNext ==
    \/ BfsBegin \/ BfsVisit \/ BfsEnd
    \/ DfsBegin \/ DfsStart \/ DfsMove \/ DfsEnd
    \/ SsspBegin \/ SsspSettle \/ SsspEnd

-----------------------------------------------------------------------------
Call == request[1]

ProjectedIds == {id \in VertexIds : Call.vertexLabel = Null \/ Call.vertexLabel \in LabelsOf(id)}

(* The moves of a call along the rows of the edge table. *)
Moves ==
    LET ids == ProjectedIds
        edges == {e \in Edges : /\ {e.source, e.target} \subseteq ids
                                /\ Call.edgeLabel \in {Null, e.label}}
    IN  {[from |-> Near(e, outgoing), to |-> Far(e, outgoing), edge |-> e.id, weight |-> e.weight] :
            e \in edges, outgoing \in {o \in BOOLEAN : Call.direction \in {"both", IF o THEN "out" ELSE "in"}}}

(* All but weighted shortest paths count the edges. *)
Cost(m) == IF local.op = "sssp" THEN m.weight ELSE 1

(* The shortest distance to each vertex in reach, by a round for each edge of a path. *)
Nearer(moves, distances) ==
    LET all == distances \cup UNION {{<<m.to, d[2] + Cost(m)>> :
                                         m \in {m \in moves : m.from = d[1]}} : d \in distances}
    IN  {d \in all : \A other \in all : other[1] = d[1] => d[2] <= other[2]}

Nearest(moves, distances) ==
    Repeat(LAMBDA found : Nearer(moves, found), distances, Cardinality(VertexIds))

(* One row for each vertex, a start or met from a row before it over an edge that accounts
   for the difference of their distances. *)
IsForest(moves) ==
    /\ IsInjective([k \in DOMAIN output |-> output[k].vertex])
    /\ \A k \in DOMAIN output :
           \/ /\ output[k].parent = Null /\ output[k].edge = Null
              /\ output[k].vertex \in ToSet(Call.starts) /\ output[k].distance = 0
           \/ \E j \in 1..(k - 1) : \E m \in moves :
                  /\ output[k].parent = output[j].vertex
                  /\ m.from = output[j].vertex /\ m.to = output[k].vertex
                  /\ m.edge = output[k].edge
                  /\ output[k].distance = output[j].distance + Cost(m)

Ascending == \A k \in (DOMAIN output) \ {1} : output[k - 1].distance <= output[k].distance

Rows == {<<output[k].vertex, output[k].distance>> : k \in DOMAIN output}

Roots == {<<start, 0>> : start \in ToSet(Call.starts)}

(* The search goes on to the target, if it has one in reach. *)
EndsAtTarget == output # <<>> /\ Last(output).vertex = Call.target

(* The rows before the k-th include all that one edge leads to from the j-th. *)
Exhausted(moves, j, k) ==
    output[j].distance < Call.most =>
        {m.to : m \in {m \in moves : m.from = output[j].vertex}} \subseteq {output[i].vertex : i \in 1..(k - 1)}

(* The place of the row a row was met from, 0 for a start. *)
MetFrom(k) == IF output[k].parent = Null THEN 0
              ELSE CHOOSE j \in DOMAIN output : output[j].vertex = output[k].parent

(* A search stops only at its target, and stays within the projection by labels, the
   direction asked for and max_depth.  Breadth-first search returns each vertex in reach
   once, at its shortest depth from any of its starts and in the order of the depths;
   depth-first search returns to a vertex for its next edge, or takes its next start,
   only when all met since then has no way on (BfsFunction, DfsFunction). *)
SearchesExact ==
    /\ local.op = "bfs" /\ Answered =>
           LET depths == {d \in Nearest(Moves, Roots) : d[2] <= Call.most}
           IN  /\ Rows \subseteq depths
               /\ IsForest(Moves) /\ Ascending
               /\ ~EndsAtTarget => Rows = depths
    /\ local.op = "dfs" /\ Answered =>
           /\ IsForest(Moves)
           /\ \A k \in DOMAIN output : \A j \in (MetFrom(k) + 1)..(k - 1) : Exhausted(Moves, j, k)
           /\ ~EndsAtTarget =>
                  /\ \A j \in DOMAIN output : Exhausted(Moves, j, Len(output) + 1)
                  /\ ToSet(Call.starts) \subseteq {output[k].vertex : k \in DOMAIN output}

(* A vertex taken off the heap has its final distance, however often the distance was
   improved while it waited there: rows are exact and ascending, and all of the vertices
   in reach are returned unless the search stops at its target (WeightedSsspFunction). *)
SettledIsMinimal ==
    local.op = "sssp" /\ Answered =>
        LET distances == Nearest(Moves, Roots)
        IN  /\ Rows \subseteq distances
            /\ IsForest(Moves) /\ Ascending
            /\ ~EndsAtTarget => Rows = distances
=============================================================================
