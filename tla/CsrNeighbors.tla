----------------------------- MODULE CsrNeighbors -----------------------------
(***************************************************************************)
(* gql_csr_neighbors: the edges of one vertex in one direction, read from  *)
(* a lease of the full CSR.  A request is a call [vertex, out].            *)
(*                                                                         *)
(* The module also states what every reader of a lease relies on: that the *)
(* snapshot and its delta together describe the committed rows.            *)
(***************************************************************************)
EXTENDS GraphReader

NeighborsCall == [vertex : Nat, out : BOOLEAN]

NeighborsLocal == [op |-> "neighbors", at |-> 1]

(* NeighborsFunction *)
NeighborsNext ==
    /\ local.op = "neighbors" /\ Acquired /\ ~Answered
    /\ Answer([rows |-> UNION {{<<VertexIdIn(lease, e.neighbor), e.id>> :
                                    e \in ToSet(EdgesOf(lease, o, Now.out))} :
                                  o \in OrdinalIn(lease, Now.vertex)}])
    /\ local' = [local EXCEPT !.at = @ + 1]
    /\ Step

-----------------------------------------------------------------------------
Fresh == local = NeighborsLocal /\ Acquired

Ordinals == 0..(lease.snapshot.size + Len(lease.delta.ids) - 1)

EdgesByTable(id, outgoing) ==
    {[far |-> Far(e, outgoing), id |-> e.id, label |-> e.label] :
        e \in {e \in Edges : Near(e, outgoing) = id}}

EdgesByLease(ordinal, outgoing) ==
    {[far |-> VertexIdIn(lease, e.neighbor), id |-> e.id, label |-> lease.snapshot.dict[e.label]] :
        e \in ToSet(EdgesOf(lease, ordinal, outgoing))}

(* The lookups find every vertex of the tables at an ordinal of its own and no other
   vertex, by id or by row id, whether the ids are dense, interpolated or the delta's;
   and the edges at its ordinal are the edges of the tables at the vertex, once each,
   with their labels, in both directions (GqlTryGetCsrOrdinal, CsrForEachEdge).  So a call
   returns the edges of its vertex. *)
TopologyDescribesGraph ==
    /\ local.op = "neighbors" =>
           \A k \in DOMAIN output :
               output[k].rows = {<<e.far, e.id>> : e \in EdgesByTable(request[k].vertex, request[k].out)}
    /\ Fresh =>
        LET probes == {0} \cup UNION {{id, id + 1} : id \in VertexIds}
        IN  /\ Cardinality(Ordinals) = Cardinality(VertexIds)
            /\ \A id \in probes \ VertexIds : OrdinalIn(lease, id) = {}
            /\ \A id \in VertexIds : Cardinality(OrdinalIn(lease, id)) = 1
            /\ \A o \in Ordinals : OrdinalIn(lease, VertexIdIn(lease, o)) = {o}
            /\ \A v \in Vertices, o \in Ordinals :
                   v.id = VertexIdIn(lease, o) =>
                       /\ OrdinalOfRow(lease.snapshot, v.row) = {o} \cap DOMAIN lease.snapshot.ids
                       /\ OrdinalOfRow(lease.snapshot, v.row + 1) # {o}
            /\ \A o \in Ordinals, outgoing \in BOOLEAN :
                   /\ EdgesByLease(o, outgoing) = EdgesByTable(VertexIdIn(lease, o), outgoing)
                   /\ Len(EdgesOf(lease, o, outgoing)) = Cardinality(EdgesByLease(o, outgoing))

(* The vertices of a label: its posting range and the delta's list of it, the labels
   kept at each vertex, and the rows of the table name the same vertices; a vertex that
   carries a label twice is one entry (BuildVertexMask has a path for each). *)
PostingsDescribeLabels ==
    Fresh =>
        \A label \in {e.label : e \in Edges} \cup UNION {LabelsOf(id) : id \in VertexIds} :
            LET ids == FindLabel(lease.snapshot.dict, label)
                posted == UNION {{VertexIdIn(lease, o) : o \in ToSet(PostingRange(lease.snapshot, id))} :
                                    id \in ids}
                inserted == UNION {ToSet(At(lease.delta.byLabel, id)) : id \in ids}
            IN  /\ posted \cup inserted = {id \in VertexIds : label \in LabelsOf(id)}
                /\ posted \cap inserted = {}
                /\ \A id \in ids : IsInjective(PostingRange(lease.snapshot, id))
                /\ MaskByPostings(lease.snapshot, label) = MaskByScan(lease.snapshot, label)
                /\ \A o \in Ordinals :
                       CsrVertexHasLabels(lease, o, ids) <=> label \in LabelsOf(VertexIdIn(lease, o))

(* The rows the snapshot was built from: all, unless it was caught up by a delta. *)
BuiltEdges == IF lease.delta = NoDelta THEN Edges
              ELSE ToSet(SubSeq(graph.edges, 1, graph.old.edges))

(* The fanout statistics say how many edges of a label the vertices of a label have, and
   how many of the vertices have one, exactly, and a pair that is missing means none; or
   there are none at all, "rather than treating a missing pair in a partial map as zero
   degree" (gql_csr.cpp, collect_degree_stats). *)
FanoutExactOrAbsent ==
    Fresh =>
        LET fanout == lease.snapshot.fanout
            dict == lease.snapshot.dict
            counted(way, pair) ==
                {e \in BuiltEdges : /\ e.label = dict[pair[2]]
                                    /\ dict[pair[1]] \in LabelsOf(Near(e, way = "out"))}
            known(pair) == IF pair \in DOMAIN fanout.pairs THEN fanout.pairs[pair] ELSE NoCounts
        IN  IF ~fanout.has THEN DOMAIN fanout.pairs = {}
            ELSE \A pair \in (DOMAIN dict) \X (DOMAIN dict), way \in {"out", "in"} :
                     /\ known(pair).edges[way] = Cardinality(counted(way, pair))
                     /\ known(pair).vertices[way]
                            = Cardinality({Near(e, way = "out") : e \in counted(way, pair)})
=============================================================================
