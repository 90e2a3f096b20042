---------------------------- MODULE CsrPathExpand ----------------------------
(***************************************************************************)
(* gql_csr_path_expand: the trails (walks that repeat no edge) of one      *)
(* label and direction from a vertex, of bounded or unbounded length, one  *)
(* output row for each.  A depth-first search with a stack of frames that  *)
(* suspends wherever an output chunk is full.                              *)
(*                                                                         *)
(* A request is an input row [vertex, out, label, min, max, unbounded],    *)
(* whose vertex may be Null; InitializeCsrPathExpansion refuses a bounded  *)
(* range that is empty or starts at 0, which is no request here.           *)
(***************************************************************************)
EXTENDS GraphReader

CONSTANT MembershipThreshold \* EDGE_MEMBERSHIP_THRESHOLD

ASSUME TrailsAssumption == MembershipThreshold \in Nat

FreshInput ==
    [ready |-> FALSE, active |-> FALSE, zero |-> FALSE, frames |-> <<>>, trail |-> <<>>,
     members |-> {}, indexed |-> FALSE, out |-> TRUE, min |-> 1, max |-> 1, unbounded |-> FALSE,
     start |-> 0, end |-> 0]

TrailsLocal ==
    FreshInput @@ [op |-> "trails", at |-> 1, label |-> Null, labelId |-> 0, chunk |-> <<>>]

Walking == local.op = "trails" /\ Acquired

RoomInChunk == Len(local.chunk) < VectorSize

(* MakeCsrPathFrame; a frame at the maximal depth has no edges. *)
Frame(l, ordinal) == [vertex |-> ordinal, cursor |-> 0,
                      degree |-> Len(EdgesOf(lease, ordinal, l.out))]
LeafFrame(ordinal) == [vertex |-> ordinal, cursor |-> 0, degree |-> 0]

(* ResetCsrPathExpansionInput keeps the label and what it was found to be. *)
ResetInput(l) == [field \in DOMAIN l |-> IF field \in DOMAIN FreshInput THEN FreshInput[field] ELSE l[field]]

(* InitializeCsrPathExpansion *)
TrailsInput ==
    /\ Walking /\ ~local.ready /\ ~Answered
    /\ LET row == Now
           found == FindLabel(lease.snapshot.dict, row.label)
           begun == [local EXCEPT !.ready = TRUE, !.out = row.out, !.min = row.min,
                                  !.max = row.max, !.unbounded = row.unbounded,
                                  !.label = row.label,
                                  !.labelId = IF found = {} THEN 0 ELSE CHOOSE id \in found : TRUE]
       IN  IF row.vertex = Null THEN local' = begun
           ELSE LET started == [begun EXCEPT !.start = row.vertex, !.zero = row.min = 0]
                IN  IF OrdinalIn(lease, row.vertex) = {} THEN local' = started
                    ELSE local' = [started EXCEPT
                                       !.frames = <<Frame(begun, CHOOSE o \in
                                                             OrdinalIn(lease, row.vertex) : TRUE)>>,
                                       !.active = begun.labelId # 0]
    /\ Step /\ UNCHANGED output

(* The row of the current path: its last edge and its endpoints. *)
PathRow(l) ==
    [request |-> l.at, edge |-> IF l.trail = <<>> THEN 0 ELSE Last(l.trail),
     source |-> IF l.out THEN l.start ELSE l.end, target |-> IF l.out THEN l.end ELSE l.start]

TrailsZero ==
    /\ Walking /\ local.active /\ local.zero /\ RoomInChunk
    /\ LET found == [local EXCEPT !.zero = FALSE, !.end = local.start]
       IN  local' = [found EXCEPT !.chunk = Append(@, PathRow(found))]
    /\ Step /\ UNCHANGED output

Searching == Walking /\ local.active /\ ~local.zero /\ RoomInChunk /\ local.frames # <<>>

Top == Last(local.frames)

(* Mutant of ForgetEdge: backtracking leaves the edge in the membership set. *)
KeepMember(l) == [l EXCEPT !.trail = Front(@)]

ForgetEdge(l) == [l EXCEPT !.members = IF l.indexed THEN @ \ {Last(l.trail)} ELSE @,
                           !.trail = Front(@)]

(* The vertex is exhausted: back along the edge that led to it. *)
TrailsPop ==
    /\ Searching
    /\ Top.cursor >= Top.degree
    /\ LET popped == [local EXCEPT !.frames = Front(@)]
       IN  local' = IF popped.trail # <<>> /\ Len(popped.trail) >= Len(popped.frames)
                    THEN ForgetEdge(popped) ELSE popped
    /\ Step /\ UNCHANGED output

(* A long trail looks its edges up in a set rather than along itself. *)
Indexed(l) ==
    IF ~l.indexed /\ Len(l.trail) >= MembershipThreshold
    THEN [l EXCEPT !.members = @ \cup ToSet(l.trail), !.indexed = TRUE] ELSE l

OnTrail(l, edge) == IF l.indexed THEN edge \in l.members ELSE Contains(l.trail, edge)

Descends(l) == l.unbounded \/ Len(l.trail) < l.max

(* The next edge of the vertex: passed over if it has another label or is on the
   trail, else a path, reported from the minimal length on. *)
TrailsEdge ==
    /\ Searching
    /\ Top.cursor < Top.degree
    /\ LET edge == EdgesOf(lease, Top.vertex, local.out)[Top.cursor + 1]
           moved == [local EXCEPT !.frames[Len(local.frames)].cursor = @ + 1]
           looked == Indexed(moved)
       IN  IF edge.label # local.labelId THEN local' = moved
           ELSE IF OnTrail(looked, edge.id) THEN local' = looked
           ELSE LET longer == [looked EXCEPT
                                   !.members = IF looked.indexed THEN @ \cup {edge.id} ELSE @,
                                   !.trail = Append(@, edge.id),
                                   !.end = VertexIdIn(lease, edge.neighbor)]
                    deeper == [longer EXCEPT
                                   !.frames = Append(@, IF Descends(longer)
                                                        THEN Frame(longer, edge.neighbor)
                                                        ELSE LeafFrame(edge.neighbor))]
                IN  local' = IF Len(longer.trail) < longer.min THEN deeper
                             ELSE [deeper EXCEPT !.chunk = Append(@, PathRow(deeper))]
    /\ Step /\ UNCHANGED output

(* A call returns a full chunk or the last rows; the call after it finds none and
   asks for the next input row. *)
TrailsReturn ==
    /\ Walking /\ local.ready
    /\ ~local.active \/ ~RoomInChunk \/ (~local.zero /\ local.frames = <<>>)
    /\ IF local.active /\ local.chunk # <<>>
       THEN output' = output \o local.chunk /\ local' = [local EXCEPT !.chunk = <<>>]
       ELSE local' = [ResetInput(local) EXCEPT !.at = @ + 1] /\ UNCHANGED output
    /\ Step

TrailsNext == TrailsInput \/ TrailsZero \/ TrailsPop \/ TrailsEdge \/ TrailsReturn

-----------------------------------------------------------------------------
(* The trails a request asks for, as sequences of edges. *)
Trails(row) ==
    LET edges == {e \in Edges : e.label = row.label}
        most == IF row.unbounded \/ row.max > Cardinality(edges) THEN Cardinality(edges) ELSE row.max
    IN  {t \in UNION {[1..n -> edges] : n \in row.min..most} :
            /\ IsInjective(t)
            /\ t # <<>> => Near(t[1], row.out) = row.vertex
            /\ \A k \in 1..(Len(t) - 1) : Far(t[k], row.out) = Near(t[k + 1], row.out)}

LabelKnown(label) == label \in {e.label : e \in Edges} \cup UNION {ToSet(v.labels) : v \in Vertices}

TrailRow(k, t) ==
    LET row == request[k]
        end == IF t = <<>> THEN row.vertex ELSE Far(Last(t), row.out)
    IN  [request |-> k, edge |-> IF t = <<>> THEN 0 ELSE Last(t).id,
         source |-> IF row.out THEN row.vertex ELSE end,
         target |-> IF row.out THEN end ELSE row.vertex]

AskedTrails(k) ==
    IF request[k].vertex \in VertexIds /\ LabelKnown(request[k].label) THEN Trails(request[k]) ELSE {}

(* A request is answered with one row for each of its trails, as often as trails
   share their last edge and end, however the search was cut into chunks and
   whichever side of the membership threshold its trails are; and the rows of the
   requests before it do not change the answer (NextCsrPath and its caller).  A
   label no element has is answered with nothing, not even the path of length 0. *)
TrailsExact ==
    local.op = "trails" /\ Answered =>
        /\ Len(output) = SumFunction([k \in DOMAIN request |-> Cardinality(AskedTrails(k))])
        /\ \A k \in DOMAIN request :
               \A row \in {TrailRow(k, t) : t \in AskedTrails(k)} :
                   Cardinality({i \in DOMAIN output : output[i] = row})
                       = Cardinality({t \in AskedTrails(k) : TrailRow(k, t) = row})
=============================================================================
