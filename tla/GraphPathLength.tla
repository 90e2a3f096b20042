--------------------------- MODULE GraphPathLength ---------------------------
(***************************************************************************)
(* shortest_path_length, a procedure called on the rows of a MATCH: the    *)
(* number of edges of a shortest path between the one source and the one   *)
(* target its rows name, by a search from both ends.  Each step of the     *)
(* search advances one side by a whole layer, the side whose frontier has  *)
(* fewer edges.                                                            *)
(*                                                                         *)
(* A request is a call [rows, direction, edgeLabel, vertexLabel]: rows is  *)
(* a sequence of pairs of ids, either of which may be Null, and the        *)
(* direction is always "out".                                              *)
(***************************************************************************)
EXTENDS GraphTraversals

LengthLocal == [op |-> "length", at |-> 1, ready |-> FALSE, sides |-> <<>>]

Measures == local.op = "length" /\ Acquired /\ ~Answered

(* AlgorithmCallInput passes over a row with a NULL. *)
Pairing(call) == SelectSeq(call.rows, LAMBDA row : Null \notin {row[1], row[2]})
SourceIds(call) == {row[1] : row \in ToSet(Pairing(call))}
TargetIds(call) == {row[2] : row \in ToSet(Pairing(call))}

(* The edges at a frontier, those the labels exclude too: the work of its next layer. *)
Volume(vertices, reverse) ==
    SumFunction([v \in vertices |-> Len(BaseEdges(lease, v, ~reverse))])

SideFrom(vertex, reverse) ==
    [frontier |-> {vertex}, visited |-> {vertex}, depth |-> 0, work |-> Volume({vertex}, reverse)]

Finds(length) ==
    /\ Answer(length)
    /\ local' = [local EXCEPT !.ready = FALSE, !.at = @ + 1]

(* ComputeShortestPathLength up to its loop *)
LengthBegin ==
    /\ Measures /\ ~local.ready
    /\ LET oneEach == Cardinality(SourceIds(Now)) = 1 /\ Cardinality(TargetIds(Now)) = 1
           sources == UNION {Required(id, Now) : id \in SourceIds(Now)}
           targets == UNION {Required(id, Now) : id \in TargetIds(Now)}
       IN  \/ /\ ~oneEach
              /\ local' = Error("ends") /\ UNCHANGED output
           \/ /\ oneEach /\ {} \in {sources, targets}
              /\ local' = Error("vertex") /\ UNCHANGED output
           \/ /\ oneEach /\ sources = targets /\ sources # {}
              /\ Finds(0)
           \/ /\ oneEach
              /\ \E source \in sources, target \in targets :
                    /\ source # target
                    /\ local' = [local EXCEPT !.ready = TRUE,
                                              !.sides = <<SideFrom(source, FALSE), SideFrom(target, TRUE)>>]
              /\ UNCHANGED output
    /\ Step

(* Mutant of LayerDirection: both sides follow the edges. *)
LayerForward(reverse) == "out"

LayerDirection(reverse) == IF reverse THEN "in" ELSE "out"

(* All that one more edge leads to from a side's frontier. *)
LayerOf(side, reverse) ==
    UNION {{e.neighbor : e \in ToSet(Visited(v, [Now EXCEPT !.direction = LayerDirection(reverse)]))} :
              v \in side.frontier}

(* One layer of one side.  The first edge into the other side is on a shortest path. *)
LengthLayer ==
    /\ Measures /\ local.ready
    /\ \A i \in 1..2 : local.sides[i].frontier # {}
    /\ LET reverse == local.sides[2].work < local.sides[1].work
           i == IF reverse THEN 2 ELSE 1
           layer == LayerOf(local.sides[i], reverse)
           next == layer \ local.sides[i].visited
       IN  IF layer \cap local.sides[3 - i].visited # {}
           THEN Finds(local.sides[1].depth + local.sides[2].depth + 1)
           ELSE /\ local' = [local EXCEPT !.sides[i] =
                                 [frontier |-> next, visited |-> @.visited \cup next,
                                  depth |-> @.depth + 1, work |-> Volume(next, reverse)]]
                /\ UNCHANGED output
    /\ Step

(* One side has reached all it can and not met the other. *)
LengthEnd ==
    /\ Measures /\ local.ready
    /\ \E i \in 1..2 : local.sides[i].frontier = {}
    /\ Finds(-1)
    /\ Step

LengthNext == LengthBegin \/ LengthLayer \/ LengthEnd

-----------------------------------------------------------------------------
(* The length found is that of a shortest path from the source to the target within the
   projection, or -1 where there is none, whichever side advanced at each step:
   ComputeShortestPathLength says that "the first connecting edge gives forward_depth +
   backward_depth + 1, regardless of which side advances". *)
LengthExact ==
    local.op = "length" /\ Answered =>
        LET source == CHOOSE id \in SourceIds(Call) : TRUE
            target == CHOOSE id \in TargetIds(Call) : TRUE
            found == {d[2] : d \in {d \in Nearest(Moves, {<<source, 0>>}) : d[1] = target}}
        IN  output = <<IF found = {} THEN -1 ELSE Min(found)>>
=============================================================================
