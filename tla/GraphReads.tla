------------------------------ MODULE GraphReads ------------------------------
(***************************************************************************)
(* The table functions that read a graph through its CSR: each case gives  *)
(* one of them a graph and the requests it is to answer.  Readers share no *)
(* state but the snapshot, which none of them writes, so that one at a     *)
(* time is enough; what they share with the writers is in CsrStorage and   *)
(* CsrPages.                                                               *)
(***************************************************************************)
EXTENDS CsrNeighbors, CsrElements, CsrExpand, CsrPathExpand, CsrShortest, GraphPathLength, GraphComponents

CONSTANT Cases \* for each kind of reader, the records [graph, request, local] to start from

(* A reader starts with the local state of a new statement, on a graph a CSR can be built of. *)
ASSUME CasesAssumption ==
    \A kind \in DOMAIN Cases : \A case \in Cases[kind] :
        /\ IsGraph(case.graph)
        /\ "op" \in DOMAIN case.local
        /\ case.local.op = "neighbors" => case.local = NeighborsLocal /\ case.request \in Seq(NeighborsCall)
        /\ case.local.op = "expand" => case.local = ExpandLocal /\ case.request \in Seq(Seq(ExpandRow))
        /\ case.local.op = "labelled" => case.local = LabelledLocal /\ case.request \in Seq(STRING)
        /\ case.local.op = "fetch" => IsFetch(case.graph, case.request, case.local)

Init ==
    /\ \E kind \in DOMAIN Cases :
           \E case \in Cases[kind] : /\ graph = case.graph
                                     /\ request = case.request
                                     /\ local = case.local
    /\ lease = NoLease
    /\ output = <<>>

Next ==
    \/ Acquire
    \/ NeighborsNext
    \/ ElementsNext
    \/ ExpandNext
    \/ TrailsNext
    \/ ShortestNext
    \/ TraversalsNext
    \/ LengthNext
    \/ ComponentsNext

Spec == Init /\ [][Next]_vars

(* A reader's state points into its lease and its request: the positions it has reached
   are ordinals, rows and edges that are there. *)
TypeOK ==
    /\ local.op # "failed" => local.at \in 1..(Len(request) + 1)
    /\ Acquired => DOMAIN lease.snapshot.ids = 0..(lease.snapshot.size - 1)
    /\ local.op = "expand" /\ local.active =>
           /\ local.current \in DOMAIN Now
           /\ local.cursor \in 0..(Len(EdgesOf(lease, local.vertex, local.out)) - 1)
           /\ Len(local.chunk) <= VectorSize
    /\ local.op = "trails" /\ local.active =>
           /\ Len(local.frames) - Len(local.trail) \in {0, 1}
           /\ \A k \in DOMAIN local.frames : local.frames[k].cursor <= local.frames[k].degree
           /\ local.indexed => local.members = ToSet(local.trail)
    /\ local.op = "sssp" /\ local.ready =>
           LET state == local.state
           IN  /\ \A k \in DOMAIN state.heap : state.positions[state.heap[k]] = k
               /\ ToSet(state.heap) = {v \in DOMAIN state.positions : state.positions[v] # 0}
               /\ ToSet(state.heap) \cap state.settled = {}
=============================================================================
