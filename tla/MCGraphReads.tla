----------------------------- MODULE MCGraphReads -----------------------------
(* The cases of graph_reads: every small graph of a family, for every reader. *)
EXTENDS GraphReads

Vertex(id, row, labels) == [id |-> id, row |-> row, labels |-> labels]
P == <<"P">>
Q == <<"Q">>
PQ == <<"P", "Q">>

(* Ids without gaps and in the order of the rows, and others; labels repeated or none. *)
Dense(labels) == <<Vertex(1, 0, labels[1]), Vertex(2, 1, labels[2]), Vertex(3, 2, labels[3])>>
Sparse(labels) == <<Vertex(2, 1, labels[1]), Vertex(9, 0, labels[2]), Vertex(4, 3, labels[3])>>

(* The subsets of at most n elements. *)
UpTo(n, set) == {{}} \cup {ToSet(s) : s \in [1..n -> set]}

(* Edges from a set of arcs [from, to, label], between positions of the vertices. *)
EdgeRows(vertices, arcs, weight) ==
    LET order == FoldSet(LAMBDA arc, rows : Append(rows, arc), <<>>, arcs)
    IN  [k \in DOMAIN order |->
            [id |-> k, source |-> vertices[order[k].from].id, target |-> vertices[order[k].to].id,
             label |-> order[k].label, weight |-> weight]]

Arc(n, labels) == [from : 1..n, to : 1..n, label : labels]

Whole(vertices, edges) ==
    [vertices |-> vertices, edges |-> edges,
     old |-> [vertices |-> Len(vertices), edges |-> Len(edges)]]

(* The graph as it was with the first vertices and edges, and the rest inserted since. *)
CaughtUp(vertices, edges) ==
    {[vertices |-> vertices, edges |-> edges, old |-> old] :
        old \in {o \in [vertices : 1..Len(vertices), edges : 0..Len(edges)] :
                    \A k \in 1..o.edges :
                        {edges[k].source, edges[k].target} \subseteq {vertices[v].id : v \in 1..o.vertices}}}

Case(graph0, request0, local0) == [graph |-> graph0, request |-> request0, local |-> local0]

-----------------------------------------------------------------------------
Both(id) == <<[vertex |-> id, out |-> TRUE], [vertex |-> id, out |-> FALSE]>>

Labelings == {<<P, Q, PQ>>, <<PQ, PQ, PQ>>, <<<<>>, P, <<"P", "P">>>>}

(* The ids of a search that interpolates and halves in turn. *)
IdSets == kSubset(5, 1..8) \cup {{1, 2, 3, 40}, {1, 38, 39, 40}, {10, 11, 12, 13, 14, 40}}

NeighborCases ==
    {Case(g, Both(g.vertices[3].id), NeighborsLocal) :
        g \in UNION {CaughtUp(vs, EdgeRows(vs, arcs, 1)) :
                        vs \in UNION {{Dense(l), Sparse(l)} : l \in Labelings},
                        arcs \in UpTo(2, Arc(3, {"a", "b"}))}}
    \cup {LET order == SetToSeq(ids)
          IN  Case(Whole([k \in 1..Len(order) |-> Vertex(order[k], k, P)], <<>>), <<>>, NeighborsLocal) :
             ids \in IdSets}

-----------------------------------------------------------------------------
Asks(vertex, out, label, neighbor) ==
    [given |-> TRUE, vertex |-> vertex, out |-> out, label |-> label, neighbor |-> neighbor]

ExpandRows ==
    {[Asks(Null, TRUE, "a", <<>>) EXCEPT !.given = FALSE], Asks(Null, TRUE, "a", <<>>),
     Asks(1, TRUE, "a", <<>>), Asks(1, FALSE, "a", P), Asks(1, TRUE, "b", <<>>),
     Asks(1, TRUE, "a", Q), Asks(2, TRUE, "a", PQ), Asks(1, TRUE, "a", <<"R">>), Asks(8, TRUE, "a", P)}

Hub == EdgeRows(Dense(<<P, Q, PQ>>),
                {[from |-> 1, to |-> 1, label |-> "a"], [from |-> 1, to |-> 2, label |-> "a"],
                 [from |-> 1, to |-> 2, label |-> "b"], [from |-> 1, to |-> 3, label |-> "a"],
                 [from |-> 2, to |-> 3, label |-> "a"]}, 1)

ExpandCases ==
    {Case(g, <<<<r[1], r[2]>>, <<r[3]>>>>, ExpandLocal) :
        g \in {g \in CaughtUp(Dense(<<P, Q, PQ>>), Hub) : g.old.edges # 1},
        r \in [1..3 -> ExpandRows]}

-----------------------------------------------------------------------------
ElementCases ==
    {Case(g, <<"P", "Q", "R">>, LabelledLocal) :
        g \in UNION {CaughtUp(vs, <<>>) : vs \in UNION {{Dense(l), Sparse(l)} : l \in Labelings}}}
    \cup
    {Case(g, <<[vertex |-> TRUE, ids |-> ids], [vertex |-> TRUE, ids |-> <<9, 2>>]>>, FetchLocal(hidden)) :
        g \in CaughtUp(Sparse(<<P, PQ, P>>), <<>>), ids \in [1..2 -> {2, 4, 9, 5, Null}],
        hidden \in SUBSET {0, 1, 3}}
    \cup
    {Case(g, <<[vertex |-> FALSE, ids |-> ids]>>, FetchLocal(hidden)) :
        g \in CaughtUp(Dense(<<P, Q, PQ>>), SubSeq(Hub, 1, 2)), ids \in [1..2 -> {0, 1, 2, Null}],
        hidden \in SUBSET {0, 1}}

-----------------------------------------------------------------------------
Path(vertex, out, min, max, unbounded) ==
    [vertex |-> vertex, out |-> out, label |-> "a", min |-> min, max |-> max, unbounded |-> unbounded]

OneLabel == {EdgeRows(Dense(<<P, Q, PQ>>), arcs, 1) : arcs \in UpTo(4, Arc(3, {"a"}))}

TrailsCases ==
    {Case(Whole(Dense(<<P, Q, PQ>>), es), <<first, second>>, TrailsLocal) :
        es \in {es \in OneLabel : Len(es) >= 3},
        first \in {Path(1, TRUE, 1, 2, FALSE), Path(1, TRUE, 0, 0, TRUE)},
        second \in {Path(1, TRUE, 1, 0, TRUE), Path(2, FALSE, 2, 3, FALSE)}}
    \cup {Case(g, <<Path(v, TRUE, 1, 0, TRUE), [Path(1, TRUE, 0, 0, TRUE) EXCEPT !.label = label]>>,
                  TrailsLocal) :
             g \in CaughtUp(Dense(<<P, Q, PQ>>), Hub), v \in {1, 2, 8, Null}, label \in {"a", "b", "z"}}

-----------------------------------------------------------------------------
Pair(all, vertex, target, out, min, max, unbounded) ==
    [all |-> all, vertex |-> vertex, target |-> target, out |-> out, label |-> "a",
     min |-> min, max |-> max, unbounded |-> unbounded]

ShortestCases ==
    {Case(Whole(Dense(<<P, Q, PQ>>), es),
          [k \in 1..4 |-> Pair(FALSE, p[k][1], p[k][2], TRUE, range[1], range[2], range[3])], ShortestLocal) :
        es \in {es \in OneLabel : Len(es) = 3},
        range \in {<<1, 2, FALSE>>, <<2, 0, TRUE>>},
        p \in {<<<<1, 2>>, <<1, 3>>, <<1, 1>>, <<2, 3>>>>, <<<<1, 3>>, <<1, 2>>, <<2, 1>>, <<1, 3>>>>,
               <<<<1, 1>>, <<1, Null>>, <<1, 3>>, <<8, 1>>>>, <<<<2, 1>>, <<2, 2>>, <<2, 3>>, <<2, 8>>>>}}
    \cup
    {Case(Whole(Dense(<<P, Q, PQ>>), es),
          [k \in 1..9 |-> Pair(TRUE, (k - 1) \div 3 + 1, ((k - 1) % 3) + 1, out, 1, 0, TRUE)], ShortestLocal) :
        es \in OneLabel, out \in BOOLEAN}
    \cup
    {Case(g, <<Pair(FALSE, 1, 2, TRUE, 1, 0, TRUE), Pair(FALSE, 1, 3, TRUE, 1, 0, TRUE),
               Pair(TRUE, 1, 3, TRUE, 1, 3, FALSE)>>, ShortestLocal) :
        g \in CaughtUp(Dense(<<P, Q, PQ>>), Hub)}

-----------------------------------------------------------------------------
Goes(starts, target, direction, edgeLabel, vertexLabel, most) ==
    [starts |-> starts, target |-> target, direction |-> direction, edgeLabel |-> edgeLabel,
     vertexLabel |-> vertexLabel, most |-> most]

(* A fan of five vertices, whose middle ones wait together on the heap. *)
Five == [k \in 1..5 |-> Vertex(k, k - 1, P)]

Fan(weights) ==
    [k \in 1..7 |->
        IF k <= 4 THEN [id |-> k, source |-> 1, target |-> k + 1, label |-> "a", weight |-> weights[k]]
        ELSE [id |-> k, source |-> k - 3, target |-> (IF k = 7 THEN 2 ELSE k - 2), label |-> "a",
              weight |-> weights[k - 3]]]

Weighted(weights) ==
    [k \in 1..4 |-> [id |-> k, source |-> <<1, 1, 2, 3>>[k], target |-> <<2, 3, 3, 2>>[k],
                     label |-> <<"a", "a", "b", "a">>[k], weight |-> weights[k]]]

TraversalCases ==
    {Case(Whole(Sparse(<<P, Q, PQ>>), es), <<Goes(starts, target, direction, Null, label, most)>>, search) :
        es \in {EdgeRows(Sparse(<<P, Q, PQ>>), arcs, 1) : arcs \in kSubset(3, Arc(3, {"a"}))},
        search \in {BfsLocal, DfsLocal}, target \in {Null, 4}, direction \in {"out", "both"},
        starts \in {<<2>>, <<4, 9, 4>>}, label \in {Null, "P"}, most \in {1, 9}}
    \cup {Case(Whole(Sparse(<<P, Q, PQ>>), es), <<Goes(starts, Null, "in", Null, Null, 9)>>, search) :
             es \in {EdgeRows(Sparse(<<P, Q, PQ>>), arcs, 1) : arcs \in kSubset(3, Arc(3, {"a"}))},
             search \in {BfsLocal, DfsLocal}, starts \in {<<2>>, <<>>}}
    \cup {Case(Whole(Five, Fan(weights)), <<Goes(<<1>>, target, "out", Null, Null, 99)>>, SsspLocal) :
             weights \in [1..4 -> 0..3], target \in {Null, 3}}
    \cup {Case(Whole(Dense(<<P, P, PQ>>), Weighted(weights)),
               <<Goes(<<1>>, Null, direction, label, "P", 99)>>, SsspLocal) :
             weights \in [1..4 -> {-1, 0, 2, 4}], direction \in {"out", "both"}, label \in {Null, "a"}}

PairsOf(set) == {{x, y} : x, y \in set}

(* Four vertices in a row, and an edge or two anywhere. *)
Row == <<Vertex(1, 0, P), Vertex(2, 1, PQ), Vertex(3, 2, Q), Vertex(4, 3, P)>>

Along4 == {[from |-> k, to |-> k + 1, label |-> "a"] : k \in 1..3}

LengthCases ==
    {Case(Whole(Row, EdgeRows(Row, arcs, 1)),
          <<[rows |-> rows, direction |-> "out", edgeLabel |-> edgeLabel, vertexLabel |-> vertexLabel]>>,
          LengthLocal) :
        arcs \in {Along4 \cup more : more \in PairsOf(Arc(4, {"a", "b"}))},
        rows \in {<<<<1, 4>>, <<1, Null>>, <<1, 4>>>>, <<<<4, 2>>>>, <<<<3, 3>>, <<Null, 1>>>>, <<<<1, 8>>>>},
        edgeLabel \in {Null, "a"}, vertexLabel \in {Null}}
    \cup
    {Case(Whole(Row, EdgeRows(Row, Along4 \cup arcs, 1)),
          <<[rows |-> rows, direction |-> "out", edgeLabel |-> Null, vertexLabel |-> "P"]>>, LengthLocal) :
        arcs \in PairsOf(Arc(4, {"a"})), rows \in {<<<<1, 4>>>>, <<<<4, 1>>, <<4, 2>>>>, <<>>}}

-----------------------------------------------------------------------------
Calls ==
    [k \in 1..12 |-> [what |-> <<"wcc", "scc", "triangles", "lcc">>[((k - 1) % 4) + 1],
                      vertexLabel |-> IF k > 8 THEN "P" ELSE Null,
                      edgeLabel |-> IF k \in 5..8 THEN "a" ELSE Null]]
    \o <<[what |-> "degree", vertexLabel |-> Null, edgeLabel |-> Null],
         [what |-> "degree", vertexLabel |-> "P", edgeLabel |-> "a"],
         [what |-> "closeness_out", vertexLabel |-> Null, edgeLabel |-> "a"],
         [what |-> "closeness_in", vertexLabel |-> "P", edgeLabel |-> Null],
         [what |-> "closeness_both", vertexLabel |-> Null, edgeLabel |-> Null]>>

Four == <<Vertex(1, 0, PQ), Vertex(5, 1, P), Vertex(3, 2, Q), Vertex(4, 3, P)>>

ComponentCases ==
    {Case(Whole(Four, EdgeRows(Four, arcs, 1)), Calls, ComponentsLocal) :
        arcs \in UpTo(4, {a \in Arc(4, {"a"}) : a.from # a.to})}
    \cup {Case(Whole(Dense(<<P, Q, PQ>>), EdgeRows(Dense(<<P, Q, PQ>>), arcs, 1)), Calls, ComponentsLocal) :
             arcs \in UpTo(3, Arc(3, {"a", "b"}))}

MCCases ==
    <<NeighborCases, ElementCases, ExpandCases, TrailsCases, ShortestCases, TraversalCases, LengthCases, ComponentCases>>
=============================================================================
