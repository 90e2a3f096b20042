------------------------------ MODULE CsrExpand ------------------------------
(***************************************************************************)
(* gql_csr_expand: the edges of one label and direction at each vertex of  *)
(* its input chunks.  A call fills an output chunk across input rows and   *)
(* stops where the chunk is full or the edge label changes; the next call  *)
(* goes on from its local state.                                           *)
(*                                                                         *)
(* A request is a chunk: a sequence of rows [given, vertex, out, label,    *)
(* neighbor].  given is FALSE for a NULL struct, vertex may be Null, and   *)
(* neighbor is the sequence of labels the neighbor must have, <<>> for     *)
(* NULL.                                                                   *)
(***************************************************************************)
EXTENDS GraphReader

ExpandRow ==
    [given : BOOLEAN, vertex : Nat \cup {Null}, out : BOOLEAN, label : STRING, neighbor : Seq(STRING)]

ExpandLocal ==
    [op |-> "expand", at |-> 1, ready |-> FALSE, next |-> 1, active |-> FALSE,
     current |-> 0, vertex |-> 0, id |-> 0, cursor |-> 0, out |-> TRUE,
     label |-> Null, labelId |-> 0,
     neighbor |-> <<>>, filter |-> FALSE, neighborExists |-> TRUE, neighborIds |-> {},
     chunk |-> <<>>, labelChanged |-> FALSE]

Expanding == local.op = "expand" /\ Acquired

(* What is left of the current row: its range, then its delta edges. *)
HasMore(l) == l.cursor < Len(EdgesOf(lease, l.vertex, l.out))

ChunkFull == Len(local.chunk) = VectorSize

(* CsrExpandFunction meets a new input chunk. *)
ExpandInput ==
    /\ Expanding /\ ~local.ready /\ ~Answered
    /\ local' = [local EXCEPT !.ready = TRUE, !.next = 1, !.active = FALSE]
    /\ Step /\ UNCHANGED output

(* The rows of one output chunk share one label, its constant type column. *)
LabelChanges(row) == local.chunk # <<>> /\ row.label # local.label

WithEdgeLabel(l, row) ==
    IF row.label = l.label THEN l
    ELSE LET found == FindLabel(lease.snapshot.dict, row.label)
         IN  [l EXCEPT !.label = row.label,
                       !.labelId = IF found = {} THEN 0 ELSE CHOOSE id \in found : TRUE]

(* Mutant of WithNeighborLabels: a row without a neighbor label keeps the last one's. *)
WithLastNeighborLabels(l, row) ==
    IF row.neighbor \in {<<>>, l.neighbor} THEN l
    ELSE LET found(label) == FindLabel(lease.snapshot.dict, label)
         IN  [l EXCEPT !.neighbor = row.neighbor, !.filter = TRUE,
                       !.neighborExists = \A label \in ToSet(row.neighbor) : found(label) # {},
                       !.neighborIds = UNION {found(label) : label \in ToSet(row.neighbor)}]

WithNeighborLabels(l, row) ==
    IF row.neighbor = <<>>
    THEN [l EXCEPT !.neighbor = <<>>, !.filter = FALSE, !.neighborExists = TRUE]
    ELSE WithLastNeighborLabels(l, row)

WithRange(l, row) ==
    IF row.vertex = Null \/ OrdinalIn(lease, row.vertex) = {} THEN [l EXCEPT !.next = @ + 1]
    ELSE LET o == CHOOSE o \in OrdinalIn(lease, row.vertex) : TRUE
             begun == [l EXCEPT !.next = @ + 1, !.current = l.next, !.vertex = o,
                                !.id = row.vertex, !.cursor = 0]
         IN  [begun EXCEPT !.active = l.labelId # 0 /\ (l.filter => l.neighborExists)
                                        /\ HasMore(begun)]

(* BeginCsrExpansionRow: the label of a chunk that has rows may not change. *)
ExpandBegin ==
    /\ Expanding /\ local.ready
    /\ ~local.active /\ ~local.labelChanged /\ ~ChunkFull
    /\ local.next <= Len(Now)
    /\ LET row == Now[local.next]
       IN  \/ /\ ~row.given
              /\ local' = [local EXCEPT !.next = @ + 1]
           \/ /\ row.given /\ LabelChanges(row)
              /\ local' = [local EXCEPT !.labelChanged = TRUE]
           \/ /\ row.given /\ ~LabelChanges(row)
              /\ local' = WithRange(WithNeighborLabels(
                                       WithEdgeLabel([local EXCEPT !.out = row.out], row), row), row)
    /\ Step /\ UNCHANGED output

(* One edge of the current row, emitted unless a label keeps it out. *)
ExpandEdge ==
    /\ Expanding /\ local.active /\ ~ChunkFull
    /\ LET edge == EdgesOf(lease, local.vertex, local.out)[local.cursor + 1]
           other == VertexIdIn(lease, edge.neighbor)
           matches == /\ edge.label = local.labelId
                      /\ local.filter => CsrVertexHasLabels(lease, edge.neighbor, local.neighborIds)
           row == [chunk |-> local.at, row |-> local.current, edge |-> edge.id,
                   source |-> IF local.out THEN local.id ELSE other,
                   target |-> IF local.out THEN other ELSE local.id]
           moved == [local EXCEPT !.cursor = @ + 1,
                                  !.chunk = IF matches THEN Append(@, row) ELSE @]
       IN  local' = [moved EXCEPT !.active = HasMore(moved)]
    /\ Step /\ UNCHANGED output

(* Mutant of InputLeft: a call that filled its chunk inside the last row ends the input. *)
RowsLeft(l) == l.labelChanged \/ l.next <= Len(Now)

(* HAVE_MORE_OUTPUT rather than NEED_MORE_INPUT *)
InputLeft(l) == l.labelChanged \/ l.active \/ l.next <= Len(Now)

ExpandReturn ==
    /\ Expanding /\ local.ready
    /\ ChunkFull \/ local.labelChanged \/ (~local.active /\ local.next > Len(Now))
    /\ output' = IF local.chunk = <<>> THEN output
                 ELSE Append(output, [label |-> local.label, rows |-> local.chunk])
    /\ local' = IF InputLeft(local) THEN [local EXCEPT !.chunk = <<>>, !.labelChanged = FALSE]
                ELSE [local EXCEPT !.chunk = <<>>, !.ready = FALSE, !.at = @ + 1]
    /\ Step

ExpandNext == ExpandInput \/ ExpandBegin \/ ExpandEdge \/ ExpandReturn

-----------------------------------------------------------------------------
(* The rows an input row asks for. *)
Matches(c, r) ==
    LET row == request[c][r]
    IN  IF ~row.given THEN {}
        ELSE {[chunk |-> c, row |-> r, edge |-> e.id, source |-> e.source, target |-> e.target] :
                 e \in {e \in Edges : /\ Near(e, row.out) = row.vertex
                                      /\ e.label = row.label
                                      /\ ToSet(row.neighbor) \subseteq LabelsOf(Far(e, row.out))}}

(* Every edge an input row asks for is returned once, whatever chunks its rows are
   cut into and whatever the rows before it left in the local state; no other edge
   is; and the rows of a chunk have the chunk's label (CsrExpandFunction). *)
ExpansionExact ==
    local.op = "expand" =>
        LET rows == FlattenSeq([k \in DOMAIN output |-> output[k].rows])
            asked == UNION {UNION {Matches(c, r) : r \in DOMAIN request[c]} : c \in DOMAIN request}
        IN  /\ ToSet(rows) \subseteq asked
            /\ IsInjective(rows)
            /\ \A k \in DOMAIN output : \A x \in ToSet(output[k].rows) :
                   request[x.chunk][x.row].label = output[k].label
            /\ Answered => ToSet(rows) = asked
=============================================================================
