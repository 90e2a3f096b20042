--------------------------- MODULE ReferencedMaps ---------------------------
(***************************************************************************)
(* The key maps of referenced (DuckLake) graphs (gql_referenced.cpp).  A   *)
(* MATCH over such a graph numbers the rows of its source tables at one    *)
(* snapshot: every bind of gql_referenced_keys acquires the map of one     *)
(* table from ReferencedMaps, which the connections of the instance share. *)
(*                                                                         *)
(* The maps of one graph at one snapshot form a generation                 *)
(* (ReferencedGraphMaps).  storage->graphs holds the current generation of *)
(* a graph; sessions that entered with another one go on with theirs.  One *)
(* session builds a map, the others wait on storage->changed.              *)
(*                                                                         *)
(* The tables of a snapshot never change, so a query of them is a constant *)
(* here.  DuckLake and the graph's catalog entries are external.           *)
(***************************************************************************)
EXTENDS Integers, FiniteSets

CONSTANTS
    Sessions,    \* connections that bind gql_referenced_keys
    Graphs,      \* referenced graphs
    Snapshots,   \* snapshots of their source catalog
    TableCount,  \* element tables of one kind in a graph, in the order of their ids
    Rows,        \* Rows[i, s]: rows of table i at snapshot s
    MapLimit,    \* graphs with a current generation (4 in the code)
    Invalid,     \* DConstants::INVALID_INDEX
    AskLimit,    \* maps acquired in all
    VersionLimit \* versions until no graph changes any more

Tables == 1..TableCount

ASSUME MapsAssumption ==
    /\ Graphs # {} /\ Snapshots # {}
    /\ IsFiniteSet(Sessions) /\ IsFiniteSet(Graphs)
    /\ TableCount \in Nat \ {0}
    /\ Rows \in [Tables \X Snapshots -> Nat]
    /\ MapLimit \in Nat \ {0}
    /\ Invalid \in Nat \ {0}
    /\ AskLimit \in Nat /\ VersionLimit \in Nat

(* Names for generations, more than sessions and storage->graphs can hold. *)
Names == 1..(Cardinality(Sessions) + Cardinality(Graphs) + 1)

None == 0

VARIABLES
    version,  \* graph_version and database_oid of a graph, as one number
    current,  \* storage->graphs: the name of a graph's generation, or None
    gens,     \* the generations by name; one that nobody holds is Freed
    spc,      \* where a session's Acquire stands
    request,  \* its arguments, and the version it read for its token
    held,     \* the generation it entered with (maps)
    table,    \* the sibling it counts next
    offset,   \* result->offset
    leases,   \* the maps the session's statement holds
    asked     \* maps asked for so far, in all

vars == <<version, current, gens, spc, request, held, table, offset, leases, asked>>

(* A slot of ReferencedGraphMaps::tables: building, and value as {} or {map}. *)
EmptySlot == [building |-> FALSE, value |-> {}]

Generation(g, token) ==
    [graph |-> g, token |-> token, counts |-> [i \in Tables |-> {}],
     slots |-> [i \in Tables |-> EmptySlot]]

AnyGraph == CHOOSE g \in Graphs : TRUE
AnySnapshot == CHOOSE s \in Snapshots : TRUE

NoRequest == [graph |-> AnyGraph, table |-> 1, snapshot |-> AnySnapshot, version |-> 0]

Freed == Generation(AnyGraph, <<0, AnySnapshot>>)

Init ==
    /\ version = [g \in Graphs |-> 0]
    /\ current = [g \in Graphs |-> None]
    /\ gens = [n \in Names |-> Freed]
    /\ spc = [s \in Sessions |-> "idle"]
    /\ request = [s \in Sessions |-> NoRequest]
    /\ held = [s \in Sessions |-> None]
    /\ table = [s \in Sessions |-> 1]
    /\ offset = [s \in Sessions |-> 0]
    /\ leases = [s \in Sessions |-> {}]
    /\ asked = 0

To(s, label) == spc' = [spc EXCEPT ![s] = label]

Graph(s) == request[s].graph
Table(s) == request[s].table

(* Mutant of Token: a generation serves every snapshot of its graph. *)
TokenWithoutSnapshot(s) == <<request[s].version, AnySnapshot>>

(* The token of the generation the session needs. *)
Token(s) == <<request[s].version, request[s].snapshot>>

Reachable(cur, holds) == {cur[g] : g \in Graphs} \cup {holds[s] : s \in Sessions}

(* shared_ptr: what neither storage->graphs nor an Acquire holds is gone. *)
Owned(all, cur, holds) ==
    [n \in Names |-> IF n \in Reachable(cur, holds) THEN all[n] ELSE Freed]

-----------------------------------------------------------------------------
(* A mutation, DDL or a reattached catalog between two binds. *)
Advance(g) ==
    /\ \A h \in Graphs : version[h] < VersionLimit
    /\ version' = [version EXCEPT ![g] = @ + 1]
    /\ UNCHANGED <<current, gens, spc, request, held, table, offset, leases, asked>>

(* One bind of gql_referenced_keys.  The binds of one statement name one graph
   and the snapshot it was planned at. *)
Ask(s, g, i, snapshot) ==
    /\ spc[s] = "idle"
    /\ asked < AskLimit
    /\ \A l \in leases[s] : l.graph = g /\ l.snapshot = snapshot /\ l.table # i
    /\ asked' = asked + 1
    /\ request' = [request EXCEPT ![s] = [graph |-> g, table |-> i, snapshot |-> snapshot,
                                          version |-> 0]]
    /\ To(s, "identify")
    /\ UNCHANGED <<version, current, gens, held, table, offset, leases>>

(* The graph's identity, read by a query of its own. *)
Identify(s) ==
    /\ spc[s] = "identify"
    /\ request' = [request EXCEPT ![s].version = version[Graph(s)]]
    /\ To(s, "reuse")
    /\ UNCHANGED <<version, current, gens, held, table, offset, leases, asked>>

CurrentFits(s) ==
    /\ current[Graph(s)] # None
    /\ gens[current[Graph(s)]].token = Token(s)

(* The first critical section: the current generation, if it is the one. *)
Reuse(s) ==
    /\ spc[s] = "reuse"
    /\ CurrentFits(s)
    /\ held' = [held EXCEPT ![s] = current[Graph(s)]]
    /\ To(s, "enter")
    /\ UNCHANGED <<version, current, gens, request, table, offset, leases, asked>>

(* Otherwise, or for a pinned graph, GqlTryLoadTableGraph reads the graph and its
   version again. *)
Load(s) ==
    /\ spc[s] = "reuse"
    /\ ~CurrentFits(s)
    /\ request' = [request EXCEPT ![s].version = version[Graph(s)]]
    /\ To(s, "choose")
    /\ UNCHANGED <<version, current, gens, held, table, offset, leases, asked>>

(* The graph is gone, or pinned to another snapshot. *)
Refuse(s) ==
    /\ spc[s] = "reuse"
    /\ ~CurrentFits(s)
    /\ To(s, "idle")
    /\ UNCHANGED <<version, current, gens, request, held, table, offset, leases, asked>>

-----------------------------------------------------------------------------
(* The second critical section chooses a generation, unless the first did, and
   looks at its slot.  The choice and the look are two actions, because a session
   whose generation the first section chose enters here without a choice: what
   others do in between is what they do between the two sections. *)

(* Keep a current generation of at most MapLimit graphs. *)
Evict(cur, g) ==
    LET others == {h \in Graphs \ {g} : cur[h] # None}
    IN  IF Cardinality(others) + 1 > MapLimit
        THEN {[cur EXCEPT ![h] = None] : h \in others}
        ELSE {cur}

(* Mutant of Evicted: the graph is counted before its entry is made. *)
EvictedLate(cur, g) ==
    IF Cardinality({h \in Graphs \ {g} : cur[h] # None}) > MapLimit THEN Evict(cur, g) ELSE {cur}

Evicted(cur, g) == Evict(cur, g)

ChooseCurrent(s) ==
    /\ spc[s] = "choose"
    /\ CurrentFits(s)
    /\ held' = [held EXCEPT ![s] = current[Graph(s)]]
    /\ To(s, "enter")
    /\ UNCHANGED <<version, current, gens, request, table, offset, leases, asked>>

(* Replace the generation of the graph, which those who hold it keep. *)
ChooseNew(s) ==
    /\ spc[s] = "choose"
    /\ ~CurrentFits(s)
    /\ LET new == CHOOSE n \in Names : n \notin Reachable(current, held)
       IN  /\ \E cur \in Evicted(current, Graph(s)) :
                 current' = [cur EXCEPT ![Graph(s)] = new]
           /\ held' = [held EXCEPT ![s] = new]
           /\ gens' = Owned([gens EXCEPT ![new] = Generation(Graph(s), Token(s))],
                            current', held')
    /\ To(s, "enter")
    /\ UNCHANGED <<version, request, table, offset, leases, asked>>

Slot(s) == gens[held[s]].slots[Table(s)]

(* What a session writes to the generation it holds. *)
WithSlot(all, n, i, slot) == [all EXCEPT ![n].slots[i] = slot]
WithCount(all, n, i, count) == [all EXCEPT ![n].counts[i] = {count}]

(* Acquire returns or throws: of its generation at most the map stays owned. *)
Return(s) ==
    /\ held' = [held EXCEPT ![s] = None]
    /\ gens' = Owned(gens, current, held')
    /\ request' = [request EXCEPT ![s].version = 0]

Share(s) ==
    /\ spc[s] = "enter"
    /\ \E map \in Slot(s).value : leases' = [leases EXCEPT ![s] = @ \cup {map}]
    /\ Return(s)
    /\ To(s, "idle")
    /\ UNCHANGED <<version, current, table, offset, asked>>

(* Mutant of SlotFree: a session that finds no map builds one. *)
SlotUnbuilt(s) == Slot(s).value = {}

SlotFree(s) == Slot(s).value = {} /\ ~Slot(s).building

Claim(s) ==
    /\ spc[s] = "enter"
    /\ SlotFree(s)
    /\ gens' = WithSlot(gens, held[s], Table(s), [Slot(s) EXCEPT !.building = TRUE])
    /\ table' = [table EXCEPT ![s] = 1]
    /\ offset' = [offset EXCEPT ![s] = 0]
    /\ To(s, "count")
    /\ UNCHANGED <<version, current, request, held, leases, asked>>

(* storage->changed.wait *)
Wait(s) ==
    /\ spc[s] = "enter"
    /\ Slot(s).value = {} /\ Slot(s).building
    /\ To(s, "wait")
    /\ UNCHANGED <<version, current, gens, request, held, table, offset, leases, asked>>

-----------------------------------------------------------------------------
(* The build, outside the lock but for counts and slots. *)

(* Rows of a sibling: counted once per generation. *)
CountOf(s, i) ==
    LET known == gens[held[s]].counts[i]
    IN  IF known = {} THEN Rows[i, request[s].snapshot] ELSE CHOOSE n \in known : TRUE

(* Mutant of Fits: the range may end at the invalid index. *)
FitsInclusive(n, start) == n <= Invalid - start

(* Identities follow offset and stay below the invalid index. *)
Fits(n, start) == n <= Invalid - start - 1

(* Mutant of MoreSiblings: the table counts itself. *)
MoreSiblingsInclusive(s) == table[s] <= Table(s)

MoreSiblings(s) == table[s] < Table(s)

CountSibling(s) ==
    /\ spc[s] = "count"
    /\ MoreSiblings(s)
    /\ LET n == CountOf(s, table[s])
       IN  /\ Fits(n, offset[s])
           /\ gens' = WithCount(gens, held[s], table[s], n)
           /\ offset' = [offset EXCEPT ![s] = @ + n]
    /\ table' = [table EXCEPT ![s] = @ + 1]
    /\ UNCHANGED <<version, current, spc, request, held, leases, asked>>

(* The keys are read, found unique, and published. *)
Publish(s) ==
    /\ spc[s] = "count"
    /\ ~MoreSiblings(s)
    /\ LET n == Rows[Table(s), request[s].snapshot]
           map == [graph |-> Graph(s), table |-> Table(s), snapshot |-> request[s].snapshot,
                   offset |-> offset[s], count |-> n]
       IN  /\ Fits(n, offset[s])
           /\ gens' = WithSlot(WithCount(gens, held[s], Table(s), n), held[s], Table(s),
                               [building |-> FALSE, value |-> {map}])
           /\ leases' = [leases EXCEPT ![s] = @ \cup {map}]
    /\ To(s, "notify")
    /\ UNCHANGED <<version, current, request, held, table, offset, asked>>

SlotAfterFailure(slot) == [slot EXCEPT !.building = FALSE]

(* Anything in the build throws: a query, the memory, a key that is not unique,
   an identity out of range. *)
Fail(s) ==
    /\ spc[s] = "count"
    /\ gens' = WithSlot(gens, held[s], Table(s), SlotAfterFailure(Slot(s)))
    /\ To(s, "notify")
    /\ UNCHANGED <<version, current, request, held, table, offset, leases, asked>>

(* Mutant of Woken: nobody is notified. *)
StillAsleep(label) == label

Woken(label) == IF label = "wait" THEN "enter" ELSE label

(* storage->changed.notify_all, after the lock is gone; Acquire returns or rethrows. *)
Notify(s) ==
    /\ spc[s] = "notify"
    /\ spc' = [t \in Sessions |-> IF t = s THEN "idle" ELSE Woken(spc[t])]
    /\ Return(s)
    /\ table' = [table EXCEPT ![s] = 1]
    /\ offset' = [offset EXCEPT ![s] = 0]
    /\ UNCHANGED <<version, current, leases, asked>>

(* The statement ends, or a bind of it failed. *)
End(s) ==
    /\ spc[s] = "idle"
    /\ leases[s] # {}
    /\ leases' = [leases EXCEPT ![s] = {}]
    /\ request' = [request EXCEPT ![s] = NoRequest]
    /\ UNCHANGED <<version, current, gens, spc, held, table, offset, asked>>

Acquire(s) ==
    \/ Identify(s) \/ Reuse(s) \/ Load(s) \/ Refuse(s)
    \/ ChooseCurrent(s) \/ ChooseNew(s)
    \/ Share(s) \/ Claim(s) \/ Wait(s)
    \/ CountSibling(s) \/ Publish(s) \/ Fail(s)
    \/ Notify(s)

Bind(s) == \E g \in Graphs, i \in Tables, snapshot \in Snapshots : Ask(s, g, i, snapshot)

Next ==
    \/ \E g \in Graphs : Advance(g)
    \/ \E s \in Sessions : Bind(s) \/ Acquire(s) \/ End(s)

(* A session that runs goes on running; one that waits is woken by Notify alone. *)
Fairness == \A s \in Sessions : WF_vars(Acquire(s))

Spec == Init /\ [][Next]_vars /\ Fairness

-----------------------------------------------------------------------------
Map == [graph : Graphs, table : Tables, snapshot : Snapshots, offset : Nat, count : Nat]

SlotType == [building : BOOLEAN, value : SUBSET Map]

GenerationType ==
    [graph : Graphs, token : Nat \X Snapshots, counts : [Tables -> SUBSET Nat],
     slots : [Tables -> SlotType]]

Labels == {"idle", "identify", "reuse", "choose", "enter", "wait", "count", "notify"}

(* The sessions that work on a generation hold it: ReferencedGraphMaps is shared,
   replaced and evicted under the eyes of its holders. *)
TypeOK ==
    /\ version \in [Graphs -> 0..VersionLimit]
    /\ current \in [Graphs -> Names \cup {None}]
    /\ gens \in [Names -> GenerationType]
    /\ spc \in [Sessions -> Labels]
    /\ request \in [Sessions -> [graph : Graphs, table : Tables, snapshot : Snapshots,
                                 version : 0..VersionLimit]]
    /\ held \in [Sessions -> Names \cup {None}]
    /\ \A s \in Sessions : spc[s] \in {"enter", "wait", "count", "notify"} => held[s] # None
    /\ table \in [Sessions -> Tables] /\ offset \in [Sessions -> Nat]
    /\ leases \in [Sessions -> SUBSET Map]
    /\ asked \in 0..AskLimit

(* The generations storage->graphs keeps are bounded (Acquire: "Keep only the
   current map generation per graph"), for whatever sequence of graphs and
   snapshots the sessions ask. *)
GenerationsBounded == Cardinality({g \in Graphs : current[g] # None}) <= MapLimit

Builds(s, n, i) == spc[s] = "count" /\ held[s] = n /\ Table(s) = i

(* A slot says it is building exactly while one session builds it, and it has no
   map while it is building, although its generation may have been replaced or
   evicted in the meantime and builds fail at any point.  A slot that said so
   with nobody building it would make its waiters wait for ever. *)
OneBuilder ==
    \A n \in Names, i \in Tables :
        /\ \A s, t \in Sessions : Builds(s, n, i) /\ Builds(t, n, i) => s = t
        /\ gens[n].slots[i].building <=> \E s \in Sessions : Builds(s, n, i)
        /\ gens[n].slots[i].building => gens[n].slots[i].value = {}

Leases == UNION {leases[s] : s \in Sessions}

(* The identities of a snapshot: maps of one graph at one snapshot number its
   tables one after the other, whichever sessions built them, in which order and
   from which counts.  Two rows of a graph never get one __gql_id, and a row keeps
   its id in every session (KeysScan adds the row number to the offset). *)
IdentitiesTile ==
    \A l, m \in Leases :
        l.graph = m.graph /\ l.snapshot = m.snapshot =>
            /\ l.table < m.table => l.offset + l.count <= m.offset
            /\ l.table = m.table => l = m
            /\ l.offset + l.count < Invalid

(* A statement's maps are of the graph and the snapshot it asked for, whatever
   generation it was given them from. *)
LeasesAsAsked ==
    \A s \in Sessions : \A l \in leases[s] :
        /\ l.graph = Graph(s) /\ l.snapshot = request[s].snapshot
        /\ l.count = Rows[l.table, l.snapshot]

(* Every bind gets its map or an error. *)
BindsEnd == \A s \in Sessions : spc[s] # "idle" ~> spc[s] = "idle"
=============================================================================
