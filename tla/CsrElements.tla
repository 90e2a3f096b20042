----------------------------- MODULE CsrElements -----------------------------
(***************************************************************************)
(* The vertices of a label, and elements by their ids.                     *)
(*                                                                         *)
(* gql_csr_vertices returns the ids of a label's vertices: its range of    *)
(* the postings, then its vertices of the delta.  A request is a label.    *)
(*                                                                         *)
(* gql_vertex_fetch and gql_edge_fetch return the table row of each id of  *)
(* a chunk, beside the columns of the input row that asked for it.  A      *)
(* request is a chunk [vertex, ids]: vertex tells the two apart, an id may *)
(* be Null.  DuckDB fetches rows by row id, and skips those the            *)
(* transaction does not see.                                               *)
(***************************************************************************)
EXTENDS GraphReader

LabelledLocal == [op |-> "labelled", at |-> 1, ready |-> FALSE, cursor |-> 0, deltaCursor |-> 0]

ElementsCall == [vertex : BOOLEAN, ids : Seq(Nat \cup {Null})]

FetchLocal(hidden) == [op |-> "fetch", at |-> 1, emitted |-> FALSE, hidden |-> hidden]

(* Edges are fetched only where their ids are those of their rows; a row that is not in the
   table is one the transaction does not see. *)
IsFetch(of, calls, state) ==
    /\ calls \in Seq(ElementsCall)
    /\ "hidden" \in DOMAIN state /\ state.hidden \in SUBSET Nat /\ state = FetchLocal(state.hidden)
    /\ \A k \in DOMAIN calls :
           ~calls[k].vertex =>
               /\ \A i \in DOMAIN of.edges : of.edges[i].id = i
               /\ \A id \in ToSet(calls[k].ids) \ {0, Null} : id \in DOMAIN of.edges \/ id - 1 \in state.hidden

-----------------------------------------------------------------------------
Lists == local.op = "labelled" /\ Acquired /\ ~Answered

Postings == {PostingRange(lease.snapshot, id) : id \in FindLabel(lease.snapshot.dict, Now)}
Posted == IF Postings = {} THEN <<>> ELSE CHOOSE range \in Postings : TRUE

Inserts == {At(lease.delta.byLabel, id) : id \in FindLabel(lease.snapshot.dict, Now)}
Inserted == IF Inserts = {} THEN <<>> ELSE CHOOSE list \in Inserts : TRUE

(* CsrVerticesInit *)
LabelledBegin ==
    /\ Lists /\ ~local.ready
    /\ local' = [local EXCEPT !.ready = TRUE, !.cursor = 0, !.deltaCursor = 0]
    /\ Step /\ UNCHANGED output

(* CsrVerticesFunction: one chunk, which the delta fills up where the postings end.  The
   scan is over at a call that returns nothing. *)
LabelledChunk ==
    /\ Lists /\ local.ready
    /\ LET count == Min({VectorSize, Len(Posted) - local.cursor})
           more == Min({VectorSize - count, Len(Inserted) - local.deltaCursor})
           chunk == [k \in 1..count |-> lease.snapshot.ids[Posted[local.cursor + k]]]
                        \o SubSeq(Inserted, local.deltaCursor + 1, local.deltaCursor + more)
       IN  IF chunk = <<>>
           THEN local' = [local EXCEPT !.ready = FALSE, !.at = @ + 1] /\ UNCHANGED output
           ELSE /\ output' = output \o [k \in DOMAIN chunk |-> [request |-> local.at, vertex |-> chunk[k]]]
                /\ local' = [local EXCEPT !.cursor = @ + count, !.deltaCursor = @ + more]
    /\ Step

-----------------------------------------------------------------------------
Fetches == local.op = "fetch" /\ Acquired /\ ~Answered

Before(a, b) == a[1] < b[1] \/ (a[1] = b[1] /\ a[2] < b[2])

(* The row id an element's id leads to. *)
RowsOf(id) == IF Now.vertex THEN {RowIdIn(lease, o) : o \in OrdinalIn(lease, id)} ELSE {id - 1} \ {-1}

(* The row ids to fetch, sorted, each with the place of the input row it is for. *)
FetchRequests ==
    LET asked == UNION {{<<row, place>> : row \in RowsOf(Now.ids[place])} :
                           place \in {p \in DOMAIN Now.ids : Now.ids[p] # Null}}
    IN  [k \in 1..Cardinality(asked) |->
            CHOOSE a \in asked : Cardinality({b \in asked : Before(b, a)}) = k - 1]

(* What is left of a list without some of its elements, in its order. *)
Without(list, dropped) ==
    FoldLeft(LAMBDA kept, x : IF x \in dropped THEN kept ELSE Append(kept, x), <<>>, list)

(* storage.Fetch: the rows that are visible, packed. *)
FetchRows(rows) == Without(rows, local.hidden)

(* Mutant of BesidePlaces: the packed rows are taken to be those asked for first. *)
BesideFirstPlaces(asked, rows) == [k \in DOMAIN rows |-> <<rows[k], asked[k][2]>>]

(* Each fetched row beside the place it was asked from.  Where rows are missing the packed
   ones cannot be told apart, and each is fetched again by itself. *)
BesidePlaces(asked, rows) ==
    IF Len(rows) = Len(asked) THEN [k \in DOMAIN rows |-> <<rows[k], asked[k][2]>>]
    ELSE Without(asked, {a \in ToSet(asked) : FetchRows(<<a[1]>>) = <<>>})

(* ElementFetchFunction.  Every chunk of rows is followed by an empty one, which ends the
   input. *)
Fetch ==
    /\ Fetches
    /\ LET asked == FetchRequests
           found == BesidePlaces(asked, FetchRows([k \in DOMAIN asked |-> asked[k][1]]))
       IN  IF local.emitted \/ found = <<>>
           THEN local' = [local EXCEPT !.emitted = FALSE, !.at = @ + 1] /\ UNCHANGED output
           ELSE /\ output' = output \o [k \in DOMAIN found |->
                                            [request |-> local.at, row |-> found[k][1], place |-> found[k][2]]]
                /\ local' = [local EXCEPT !.emitted = TRUE]
    /\ Step

ElementsNext == LabelledBegin \/ LabelledChunk \/ Fetch

-----------------------------------------------------------------------------
(* The rows of the tables a chunk asks for and its transaction sees, with their places. *)
AskedRows(k) ==
    LET chunk == request[k]
        rowsOf(id) == IF chunk.vertex THEN {v.row : v \in {v \in Vertices : v.id = id}}
                      ELSE {e.id - 1 : e \in {e \in Edges : e.id = id}}
    IN  UNION {{[request |-> k, row |-> row, place |-> place] :
                   row \in rowsOf(chunk.ids[place]) \ local.hidden} : place \in DOMAIN chunk.ids}

(* A scan returns each vertex of its label once, wherever the chunks end between postings
   and delta; a fetch returns for each input row the row of its own element, once, also
   where the rows of others are not visible to the transaction ("Fetch packs its result
   ... which loses the row-to-seed alignment", ElementFetchFunction). *)
ElementsExact ==
    local.op \in {"labelled", "fetch"} /\ Answered =>
        /\ IsInjective(output)
        /\ ToSet(output) =
               UNION {IF local.op = "fetch" THEN AskedRows(k)
                      ELSE {[request |-> k, vertex |-> id] :
                               id \in {id \in VertexIds : request[k] \in LabelsOf(id)}} :
                         k \in DOMAIN request}
=============================================================================
