----------------------------- MODULE CsrShortest -----------------------------
(***************************************************************************)
(* gql_csr_shortest_expand and gql_csr_all_shortest: breadth-first         *)
(* searches along the edges of one label and direction.                    *)
(*                                                                         *)
(* The first reports the length of a shortest walk to each vertex, or to   *)
(* one target, and keeps the distances of a full search for the targets    *)
(* to come; the second reports every shortest walk to a target.            *)
(*                                                                         *)
(* A request is an input row [all, vertex, target, out, label, min, max,   *)
(* unbounded].  vertex may be Null, and target too unless all is TRUE.     *)
(* The rows of one operator agree in all but vertex and target.            *)
(***************************************************************************)
EXTENDS GraphReader

ShortestLocal ==
    [op |-> "shortest", at |-> 1, searching |-> FALSE,
     distancesStart |-> {}, distances |-> {}, targetedStart |-> {},
     start |-> 0, target |-> {}, wanted |-> {}, frontier |-> <<>>, settled |-> {}, depth |-> 0,
     reached |-> <<>>]

Seeking == local.op = "shortest" /\ Acquired

LabelIn(row) == FindLabel(lease.snapshot.dict, row.label)

Neighbors(vertex, row) ==
    LET edges == EdgesOfLabel(lease, vertex, row.out, CHOOSE l \in LabelIn(row) : TRUE)
    IN  [k \in DOMAIN edges |-> edges[k].neighbor]

Pairs(reached) == {<<VertexIdIn(lease, r[1]), r[2]>> : r \in ToSet(reached)}

AnswerPairs(reached) ==
    Answer([request |-> local.at, rows |-> Len(reached), pairs |-> Pairs(reached)])

(* Mutant of Remembered: the distances are taken for any start. *)
RememberedAnyStart(start) == local.distancesStart # {}

(* The distances from this start are there. *)
Remembered(start) == local.distancesStart = {start}

Answers(reached) ==
    /\ AnswerPairs(reached)
    /\ local' = [local EXCEPT !.at = @ + 1]

DistanceTo(distances, target) == SetToSeq({d \in distances : d[1] \in target})

(* SearchCsrShortest up to its loop.  Only the first target of a start is searched
   for alone: a second is many to come. *)
ShortestBegin ==
    /\ Seeking /\ ~local.searching /\ ~Answered /\ ~Now.all
    /\ LET row == Now
           starts == IF row.vertex = Null THEN {} ELSE OrdinalIn(lease, row.vertex)
           targets == IF row.target = Null THEN {} ELSE OrdinalIn(lease, row.target)
       IN  IF starts = {} \/ LabelIn(row) = {} \/ (row.target # Null /\ targets = {})
           THEN Answers(<<>>)
           ELSE LET start == CHOOSE s \in starts : TRUE
                IN  IF targets # {} /\ Remembered(start)
                    THEN Answers(DistanceTo(local.distances, targets))
                    ELSE /\ local' = [local EXCEPT
                                !.searching = TRUE, !.start = start, !.wanted = targets,
                                !.target = IF local.targetedStart = {start} THEN {} ELSE targets,
                                !.targetedStart = {start}, !.frontier = <<start>>,
                                !.settled = {}, !.depth = 0, !.reached = <<>>]
                         /\ UNCHANGED output
    /\ Step

(* Below the minimal length a vertex is met, but not settled. *)
Settled(l, next, depth) == IF depth >= Now.min THEN l.settled \cup ToSet(next) ELSE l.settled

(* One neighbor met on a level. *)
Meet(acc, neighbor, depth) ==
    IF acc.found \/ neighbor \in local.settled \/ Contains(acc.next, neighbor) THEN acc
    ELSE LET reports == depth >= Now.min /\ (local.target = {} \/ neighbor \in local.target)
         IN  [next |-> Append(acc.next, neighbor),
              reached |-> IF reports THEN Append(acc.reached, <<neighbor, depth>>) ELSE acc.reached,
              found |-> reports /\ local.target # {}]

ShortestLevel ==
    /\ Seeking /\ local.searching
    /\ local.frontier # <<>> /\ (Now.unbounded \/ local.depth < Now.max)
    /\ LET depth == local.depth + 1
           level == FoldLeft(LAMBDA acc, vertex :
                                 FoldLeft(LAMBDA inner, n : Meet(inner, n, depth),
                                          acc, Neighbors(vertex, Now)),
                             [next |-> <<>>, reached |-> local.reached, found |-> FALSE],
                             local.frontier)
       IN  IF level.found
           THEN /\ AnswerPairs(level.reached)
                /\ local' = [local EXCEPT !.searching = FALSE, !.at = @ + 1, !.frontier = <<>>,
                                          !.settled = {}, !.reached = <<>>]
           ELSE /\ local' = [local EXCEPT !.depth = depth, !.frontier = level.next,
                                          !.settled = Settled(local, level.next, depth),
                                          !.reached = level.reached]
                /\ UNCHANGED output
    /\ Step

(* The search is over; one that was wanted for a target and made for all is kept. *)
ShortestEnd ==
    /\ Seeking /\ local.searching
    /\ local.frontier = <<>> \/ (~Now.unbounded /\ local.depth >= Now.max)
    /\ LET ended == [local EXCEPT !.searching = FALSE, !.at = @ + 1, !.frontier = <<>>,
                                  !.settled = {}, !.reached = <<>>]
           kept == ToSet(local.reached)
       IN  IF local.wanted # {} /\ local.target = {}
           THEN /\ local' = [ended EXCEPT !.distances = kept, !.distancesStart = {local.start}]
                /\ AnswerPairs(DistanceTo(kept, local.wanted))
           ELSE local' = ended /\ AnswerPairs(local.reached)
    /\ Step

-----------------------------------------------------------------------------
(* SearchCsrAllShortest: each vertex keeps the edges that lead to it from the level
   before the one it is met on. *)
NoSteps == [v \in {} |-> {}]

LevelFrom(frontier, predecessors, row) ==
    LET label == CHOOSE l \in LabelIn(row) : TRUE
        steps == UNION {{[vertex |-> v, edge |-> e] :
                            e \in ToSet(EdgesOfLabel(lease, v, row.out, label))} : v \in frontier}
        met == {s.edge.neighbor : s \in steps} \ DOMAIN predecessors
    IN  [v \in met |-> {s \in steps : s.edge.neighbor = v}]

NextLevel(search, target, row) ==
    LET level == LevelFrom(search.frontier, search.predecessors, row)
    IN  IF \/ target \in DOMAIN search.predecessors
           \/ search.frontier = {}
           \/ ~row.unbounded /\ search.depth >= row.max
        THEN search
        ELSE [frontier |-> DOMAIN level, predecessors |-> level @@ search.predecessors,
              depth |-> search.depth + 1]

(* Every level but the last meets a vertex. *)
LevelsTo(start, predecessors, target, row) ==
    Repeat(LAMBDA search : NextLevel(search, target, row),
           [frontier |-> {start}, predecessors |-> predecessors, depth |-> 0],
           lease.snapshot.size + Len(lease.delta.ids) + 1)

(* Back from the target: the walks of as many edges as the target's level. *)
WalksBack(target, length, start, predecessors) ==
    LET back[vertex \in Nat, level \in 0..length] ==
            IF level = 0 THEN IF vertex = start THEN {<<>>} ELSE {}
            ELSE UNION {{Append(walk, s.edge.id) : walk \in back[s.vertex, level - 1]} :
                           s \in IF vertex \in DOMAIN predecessors THEN predecessors[vertex] ELSE {}}
    IN  back[target, length]

(* Mutant of FirstPredecessors: the start is settled, and cannot be its own target. *)
StartSettled(start) == (start :> {})

(* The start is not settled, so that it can be its own target through a cycle. *)
FirstPredecessors(start) == NoSteps

AllShortest ==
    /\ Seeking /\ ~local.searching /\ ~Answered /\ Now.all
    /\ LET row == Now
           walks == IF row.vertex = Null \/ LabelIn(row) = {} THEN {}
                    ELSE UNION {LET search == LevelsTo(s, FirstPredecessors(s), t, row)
                                IN  IF t \in DOMAIN search.predecessors
                                    THEN WalksBack(t, search.depth, s, search.predecessors)
                                    ELSE {} :
                                    s \in OrdinalIn(lease, row.vertex),
                                    t \in OrdinalIn(lease, row.target)}
       IN  Answer([request |-> local.at, walks |-> walks])
    /\ local' = [local EXCEPT !.at = @ + 1]
    /\ Step

ShortestNext == ShortestBegin \/ ShortestLevel \/ ShortestEnd \/ AllShortest

-----------------------------------------------------------------------------
(* Where the walks of each length end. *)
EndsAfter(row) ==
    LET ends[n \in Nat] ==
            IF n = 0 THEN {row.vertex} \cap VertexIds
            ELSE {Far(e, row.out) : e \in {e \in Edges : e.label = row.label
                                                         /\ Near(e, row.out) \in ends[n - 1]}}
    IN  ends

Lengths(row) ==
    LET low == IF row.min > 1 THEN row.min ELSE 1
    IN  low..(IF row.unbounded THEN low + Cardinality(VertexIds) ELSE row.max)

(* The shortest lengths a request asks for. *)
Distances(row) ==
    LET ends == EndsAfter(row)
        lengths(v) == {n \in Lengths(row) : v \in ends[n]}
        wanted == IF row.target = Null THEN VertexIds ELSE VertexIds \cap {row.target}
    IN  {<<v, Min(lengths(v))>> : v \in {v \in wanted : lengths(v) # {}}}

(* A request is answered with the length of a shortest walk of at least the minimal
   length to each vertex it asks for, once each, whether the search stopped at the
   target, covered the graph, or was made for an earlier request (SearchCsrShortest). *)
ShortestExact ==
    local.op = "shortest" /\ Answered =>
        \A k \in DOMAIN output :
            ~request[k].all =>
                /\ output[k].request = k
                /\ output[k].pairs = Distances(request[k])
                /\ output[k].rows = Cardinality(output[k].pairs)

EdgeOfId(id) == CHOOSE e \in Edges : e.id = id

(* A request for all shortest walks is answered with every walk of the shortest length
   and with no other, cycles back to the start included (SearchCsrAllShortest). *)
AllShortestExact ==
    local.op = "shortest" /\ Answered =>
        \A k \in DOMAIN output :
            request[k].all =>
                LET row == request[k]
                    edges == {e.id : e \in {e \in Edges : e.label = row.label}}
                    shortest == {d[2] : d \in Distances(row)}
                IN  output[k].walks =
                        {w \in UNION {[1..n -> edges] : n \in shortest} :
                            /\ Near(EdgeOfId(w[1]), row.out) = row.vertex
                            /\ Far(EdgeOfId(Last(w)), row.out) = row.target
                            /\ \A i \in 1..(Len(w) - 1) :
                                   Far(EdgeOfId(w[i]), row.out) = Near(EdgeOfId(w[i + 1]), row.out)}
=============================================================================
