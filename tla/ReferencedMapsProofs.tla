------------------------ MODULE ReferencedMapsProofs ------------------------
(***************************************************************************)
(* Properties of ReferencedMaps for every number of sessions, graphs,      *)
(* tables and snapshots: types, one builder for a slot, bounded            *)
(* generations, maps of the graph and snapshot a session asked for, and    *)
(* identities that tile a snapshot.                                        *)
(***************************************************************************)
EXTENDS ReferencedMaps, FiniteSetTheorems, TLAPS

LEMMA SomeGraphAndSnapshot == AnyGraph \in Graphs /\ AnySnapshot \in Snapshots
  BY MapsAssumption DEF AnyGraph, AnySnapshot

LEMMA FirstTable == 1 \in Tables /\ Tables \subseteq Nat
  BY MapsAssumption DEF Tables

LEMMA NoneIsNoName == None \notin Names
  BY DEF None, Names

LEMMA NewGeneration ==
  ASSUME NEW g \in Graphs, NEW token \in Nat \X Snapshots
  PROVE  /\ Generation(g, token) \in GenerationType
         /\ \A i \in Tables : Generation(g, token).slots[i] = EmptySlot
  BY DEF Generation, GenerationType, SlotType, EmptySlot

LEMMA FreedGeneration ==
  Freed \in GenerationType /\ \A i \in Tables : Freed.slots[i] = EmptySlot
  BY NewGeneration, SomeGraphAndSnapshot DEF Freed

(* What is left of a typed function of generations is typed. *)
LEMMA OwnedType ==
  ASSUME NEW all \in [Names -> GenerationType], NEW cur, NEW holds
  PROVE  Owned(all, cur, holds) \in [Names -> GenerationType]
  BY FreedGeneration DEF Owned

(* The generations are of the graphs and snapshots they were of. *)
SameOrigin(after, before) ==
  \A n \in Names : after[n].graph = before[n].graph /\ after[n].token = before[n].token

(* One slot, or one count, of one generation changes. *)
LEMMA SlotChanged ==
  ASSUME NEW all \in [Names -> GenerationType], NEW m \in Names, NEW i \in Tables,
         NEW x \in SlotType
  PROVE  /\ WithSlot(all, m, i, x) \in [Names -> GenerationType]
         /\ \A n \in Names, j \in Tables :
               WithSlot(all, m, i, x)[n].slots[j] = IF n = m /\ j = i THEN x ELSE all[n].slots[j]
         /\ SameOrigin(WithSlot(all, m, i, x), all)
<1> DEFINE g == all[m]
           h == [g EXCEPT !.slots = [g.slots EXCEPT ![i] = x]]
           result == [all EXCEPT ![m] = h]
<1>1. g \in GenerationType
  OBVIOUS
<1>2. [g.slots EXCEPT ![i] = x] \in [Tables -> SlotType]
  BY <1>1 DEF GenerationType
<1>3. /\ h \in GenerationType /\ h.slots = [g.slots EXCEPT ![i] = x]
      /\ h.graph = g.graph /\ h.token = g.token
  <2> HIDE DEF g
  <2> QED
    BY <1>1, <1>2 DEF GenerationType
<1>4. \A j \in Tables : h.slots[j] = IF j = i THEN x ELSE g.slots[j]
  <2> HIDE DEF g, h
  <2> QED
    BY <1>1, <1>3 DEF GenerationType
<1>5. /\ result \in [Names -> GenerationType]
      /\ \A n \in Names, j \in Tables :
            result[n].slots[j] = IF n = m /\ j = i THEN x ELSE all[n].slots[j]
      /\ SameOrigin(result, all)
  <2> HIDE DEF h
  <2> QED
    BY <1>3, <1>4 DEF SameOrigin
<1> QED
  BY <1>5 DEF WithSlot

LEMMA CountChanged ==
  ASSUME NEW all \in [Names -> GenerationType], NEW m \in Names, NEW i \in Tables,
         NEW x \in Nat
  PROVE  /\ WithCount(all, m, i, x) \in [Names -> GenerationType]
         /\ \A n \in Names : WithCount(all, m, i, x)[n].slots = all[n].slots
         /\ SameOrigin(WithCount(all, m, i, x), all)
<1> DEFINE g == all[m]
           h == [g EXCEPT !.counts = [g.counts EXCEPT ![i] = {x}]]
           result == [all EXCEPT ![m] = h]
<1>1. g \in GenerationType
  OBVIOUS
<1>2. [g.counts EXCEPT ![i] = {x}] \in [Tables -> SUBSET Nat]
  BY <1>1 DEF GenerationType
<1>3. h \in GenerationType /\ h.slots = g.slots /\ h.graph = g.graph /\ h.token = g.token
  <2> HIDE DEF g
  <2> QED
    BY <1>1, <1>2 DEF GenerationType
<1>4. /\ result \in [Names -> GenerationType]
      /\ \A n \in Names : result[n].slots = all[n].slots
      /\ SameOrigin(result, all)
  <2> HIDE DEF h
  <2> QED
    BY <1>3 DEF SameOrigin
<1> QED
  BY <1>4 DEF WithCount

(* The image of a finite set under a function is no larger than the set. *)
LEMMA ImageIsSmall ==
  ASSUME NEW S, IsFiniteSet(S), NEW f
  PROVE  IsFiniteSet({f[x] : x \in S}) /\ Cardinality({f[x] : x \in S}) <= Cardinality(S)
<1> DEFINE T == {f[x] : x \in S}
           F == [x \in S |-> f[x]]
<1>1. F \in Surjection(S, T)
  BY DEF Surjection
<1>2. IsFiniteSet(T) /\ Cardinality(T) <= Cardinality(S)
  <2> HIDE DEF T, F
  <2> QED
    BY <1>1, FS_Surjection
<1> QED
  BY <1>2

(* There is always a name for one more generation. *)
LEMMA FreeName == \E n \in Names : n \notin Reachable(current, held)
<1> DEFINE C == {current[g] : g \in Graphs}
           H == {held[s] : s \in Sessions}
           R == C \cup H
<1>1. IsFiniteSet(C) /\ Cardinality(C) <= Cardinality(Graphs)
  BY ImageIsSmall, MapsAssumption
<1>2. IsFiniteSet(H) /\ Cardinality(H) <= Cardinality(Sessions)
  BY ImageIsSmall, MapsAssumption
<1>3. Cardinality(Graphs) \in Nat /\ Cardinality(Sessions) \in Nat
  BY MapsAssumption, FS_CardinalityType
<1>4. IsFiniteSet(R) /\ Cardinality(R) <= Cardinality(Graphs) + Cardinality(Sessions)
  <2> HIDE DEF C, H
  <2>1. IsFiniteSet(C \cap H)
    BY <1>1, FS_Subset
  <2>2. Cardinality(C) \in Nat /\ Cardinality(H) \in Nat /\ Cardinality(C \cap H) \in Nat
    BY <1>1, <1>2, <2>1, FS_CardinalityType
  <2>3. /\ IsFiniteSet(C \cup H)
        /\ Cardinality(C \cup H) = Cardinality(C) + Cardinality(H) - Cardinality(C \cap H)
    BY <1>1, <1>2, FS_Union
  <2> QED
    BY <1>1, <1>2, <1>3, <2>2, <2>3
<1>5. Cardinality(Names) = Cardinality(Graphs) + Cardinality(Sessions) + 1
  BY <1>3, FS_Interval DEF Names
<1>6. ~(Names \subseteq R)
  <2> SUFFICES ASSUME Names \subseteq R PROVE FALSE
    OBVIOUS
  <2>1. Cardinality(Names) <= Cardinality(R)
    <3> HIDE DEF R
    <3> QED
      BY <1>4, FS_Subset
  <2>2. Cardinality(R) \in Nat
    <3> HIDE DEF R
    <3> QED
      BY <1>4, FS_CardinalityType
  <2> QED
    BY <1>3, <1>4, <1>5, <2>1, <2>2
<1> QED
  BY <1>6 DEF Reachable

-----------------------------------------------------------------------------
(* Types. *)

LEMMA InitTyped == Init => TypeOK
  BY MapsAssumption, SomeGraphAndSnapshot, FirstTable, FreedGeneration
     DEF Init, TypeOK, NoRequest, Labels, None

LEMMA EvictedTyped ==
  ASSUME NEW cur \in [Graphs -> Names \cup {None}], NEW g, NEW new \in Evicted(cur, g)
  PROVE  new \in [Graphs -> Names \cup {None}]
  BY DEF Evicted, Evict

LEMMA ChooseNewTyped ==
  ASSUME TypeOK, NEW s \in Sessions, ChooseNew(s)
  PROVE  TypeOK'
<1> DEFINE new == CHOOSE n \in Names : n \notin Reachable(current, held)
<1>1. new \in Names
  BY FreeName
<1> HIDE DEF new
<1>2. Graph(s) \in Graphs /\ Token(s) \in Nat \X Snapshots
  BY MapsAssumption DEF TypeOK, Graph, Token
<1>3. PICK cur \in Evicted(current, Graph(s)) : current' = [cur EXCEPT ![Graph(s)] = new]
  BY DEF ChooseNew, new
<1>4. current' \in [Graphs -> Names \cup {None}]
  BY <1>1, <1>3, EvictedTyped DEF TypeOK
<1>5. held' = [held EXCEPT ![s] = new]
  BY DEF ChooseNew, new
<1>6. gens' \in [Names -> GenerationType]
  <2>1. [gens EXCEPT ![new] = Generation(Graph(s), Token(s))] \in [Names -> GenerationType]
    BY <1>1, <1>2, NewGeneration DEF TypeOK
  <2> QED
    BY <2>1, OwnedType DEF ChooseNew, new
<1>7. held' \in [Sessions -> Names \cup {None}] /\ held'[s] # None
  BY <1>1, <1>5, NoneIsNoName DEF TypeOK
<1>8. spc' \in [Sessions -> Labels] /\ spc' = [spc EXCEPT ![s] = "enter"]
  BY DEF TypeOK, ChooseNew, To, Labels
<1>9. \A t \in Sessions : spc'[t] \in {"enter", "wait", "count", "notify"} => held'[t] # None
  BY <1>5, <1>7, <1>8 DEF TypeOK
<1>10. UNCHANGED <<version, request, table, offset, leases, asked>>
  BY DEF ChooseNew
<1> QED
  BY <1>4, <1>6, <1>7, <1>8, <1>9, <1>10 DEF TypeOK

LEMMA ReturnTyped ==
  ASSUME TypeOK, NEW s \in Sessions, Return(s)
  PROVE  /\ gens' \in [Names -> GenerationType]
         /\ held' \in [Sessions -> Names \cup {None}]
         /\ request' \in [Sessions -> [graph : Graphs, table : Tables, snapshot : Snapshots,
                                       version : 0..VersionLimit]]
<1>1. gens' \in [Names -> GenerationType]
  BY OwnedType DEF TypeOK, Return
<1>2. held' \in [Sessions -> Names \cup {None}]
  BY DEF TypeOK, Return
<1>3. request' \in [Sessions -> [graph : Graphs, table : Tables, snapshot : Snapshots,
                                version : 0..VersionLimit]]
  BY MapsAssumption DEF TypeOK, Return
<1> QED
  BY <1>1, <1>2, <1>3

LEMMA ShareTyped ==
  ASSUME TypeOK, NEW s \in Sessions, Share(s)
  PROVE  TypeOK'
<1>1. Slot(s).value \subseteq Map
  BY DEF Share, TypeOK, Slot, Table, GenerationType, SlotType
<1>2. leases' \in [Sessions -> SUBSET Map]
  BY <1>1 DEF Share, TypeOK
<1> QED
  BY <1>2, ReturnTyped DEF Share, TypeOK, To, Labels, Return

(* A map of a graph at a snapshot, with the rows of its table. *)
MapOf(map, g, snapshot) ==
  map.graph = g /\ map.snapshot = snapshot /\ map.count = Rows[map.table, map.snapshot]

(* What the steps of a build do to the slots of the generation held. *)

LEMMA CountSiblingStep ==
  ASSUME TypeOK, NEW s \in Sessions, CountSibling(s)
  PROVE  /\ TypeOK'
         /\ \A n \in Names : gens'[n].slots = gens[n].slots
         /\ SameOrigin(gens', gens)
<1> DEFINE n == CountOf(s, table[s])
<1>1. held[s] \in Names /\ table[s] \in Tables /\ request[s].snapshot \in Snapshots
  BY NoneIsNoName DEF TypeOK, CountSibling
<1>2. gens[held[s]].counts[table[s]] \subseteq Nat
  BY <1>1 DEF TypeOK, GenerationType
<1>3. n \in Nat
  BY <1>1, <1>2, MapsAssumption DEF CountOf
<1> HIDE DEF n
<1>4. gens' = WithCount(gens, held[s], table[s], n)
  BY DEF CountSibling, n
<1>5. /\ gens' \in [Names -> GenerationType] /\ \A m \in Names : gens'[m].slots = gens[m].slots
      /\ SameOrigin(gens', gens)
  <2>1. gens \in [Names -> GenerationType]
    BY <1>3 DEF TypeOK
  <2> QED
    BY <1>1, <1>3, <1>4, <2>1, CountChanged
<1>6. offset' \in [Sessions -> Nat]
  BY <1>3 DEF CountSibling, TypeOK, n
<1>7. Table(s) \in Tables
  BY DEF TypeOK, Table
<1>8. table' \in [Sessions -> Tables]
  BY <1>1, <1>7, MapsAssumption DEF CountSibling, MoreSiblings, TypeOK, Tables
<1> QED
  BY <1>5, <1>6, <1>8 DEF TypeOK, CountSibling

LEMMA PublishStep ==
  ASSUME TypeOK, NEW s \in Sessions, Publish(s)
  PROVE  /\ TypeOK'
         /\ \A n \in Names, i \in Tables :
               IF n = held[s] /\ i = Table(s)
               THEN /\ ~gens'[n].slots[i].building
                    /\ \A m \in gens'[n].slots[i].value : MapOf(m, Graph(s), request[s].snapshot)
               ELSE gens'[n].slots[i] = gens[n].slots[i]
         /\ SameOrigin(gens', gens)
         /\ \A t \in Sessions : \A l \in leases'[t] :
               l \in leases[t] \/ (t = s /\ MapOf(l, Graph(s), request[s].snapshot))
<1> DEFINE n == Rows[Table(s), request[s].snapshot]
           map == [graph |-> Graph(s), table |-> Table(s), snapshot |-> request[s].snapshot,
                   offset |-> offset[s], count |-> n]
           counted == WithCount(gens, held[s], Table(s), n)
           built == [building |-> FALSE, value |-> {map}]
<1>1. held[s] \in Names /\ Table(s) \in Tables /\ request[s].snapshot \in Snapshots
  BY NoneIsNoName DEF TypeOK, Publish, Table
<1>2. n \in Nat
  BY <1>1, MapsAssumption
<1>3. map \in Map
  <2> HIDE DEF n
  <2> QED
    BY <1>1, <1>2 DEF Map, TypeOK, Graph
<1>0. MapOf(map, Graph(s), request[s].snapshot)
  BY DEF MapOf
<1>4. built \in SlotType /\ ~built.building /\ built.value = {map}
  <2> HIDE DEF map
  <2> QED
    BY <1>3 DEF SlotType
<1>5. /\ leases' \in [Sessions -> SUBSET Map]
      /\ \A t \in Sessions : \A l \in leases'[t] : l \in leases[t] \/ (t = s /\ l = map)
  <2>1. leases' = [leases EXCEPT ![s] = leases[s] \cup {map}]
    BY DEF Publish
  <2> HIDE DEF map
  <2>2. leases \in [Sessions -> SUBSET Map]
    BY DEF TypeOK
  <2>3. leases' \in [Sessions -> SUBSET Map]
    BY <1>3, <2>1, <2>2
  <2>4. \A t \in Sessions : leases'[t] = IF t = s THEN leases[s] \cup {map} ELSE leases[t]
    BY <2>1, <2>2
  <2>5. \A t \in Sessions : \A l \in leases'[t] : l \in leases[t] \/ (t = s /\ l = map)
    BY <2>4
  <2> QED
    BY <2>3, <2>5
<1>6. gens' = WithSlot(counted, held[s], Table(s), built)
  BY DEF Publish
<1> HIDE DEF n, map, built
<1>7. /\ counted \in [Names -> GenerationType]
      /\ \A m \in Names : counted[m].slots = gens[m].slots
      /\ SameOrigin(counted, gens)
  <2>1. gens \in [Names -> GenerationType]
    BY <1>2 DEF TypeOK
  <2> QED
    BY <1>1, <1>2, <2>1, CountChanged
<1> HIDE DEF counted
<1>8. /\ gens' \in [Names -> GenerationType]
      /\ \A m \in Names, j \in Tables :
            gens'[m].slots[j] = IF m = held[s] /\ j = Table(s) THEN built ELSE counted[m].slots[j]
      /\ SameOrigin(gens', counted)
  BY <1>1, <1>4, <1>6, <1>7, SlotChanged
<1>9. TypeOK'
  BY <1>5, <1>8 DEF TypeOK, Publish, To, Labels
<1>10. SameOrigin(gens', gens)
  BY <1>7, <1>8 DEF SameOrigin
<1> QED
  BY <1>0, <1>4, <1>5, <1>7, <1>8, <1>9, <1>10

LEMMA ClaimStep ==
  ASSUME TypeOK, NEW s \in Sessions, Claim(s)
  PROVE  /\ TypeOK'
         /\ \A n \in Names, i \in Tables :
               IF n = held[s] /\ i = Table(s)
               THEN gens'[n].slots[i].building /\ gens'[n].slots[i].value = {}
               ELSE gens'[n].slots[i] = gens[n].slots[i]
         /\ SameOrigin(gens', gens)
<1> DEFINE claimed == [Slot(s) EXCEPT !.building = TRUE]
<1>1. held[s] \in Names /\ Table(s) \in Tables
  BY NoneIsNoName DEF TypeOK, Claim, Table
<1>2. Slot(s) \in SlotType
  BY <1>1 DEF TypeOK, Slot, GenerationType
<1>3. claimed \in SlotType /\ claimed.building /\ claimed.value = {}
  BY <1>2 DEF Claim, SlotFree, SlotType
<1>4. gens' = WithSlot(gens, held[s], Table(s), claimed)
  BY DEF Claim, Slot
<1> HIDE DEF claimed
<1>5. /\ gens' \in [Names -> GenerationType]
      /\ \A m \in Names, j \in Tables :
            gens'[m].slots[j] = IF m = held[s] /\ j = Table(s) THEN claimed ELSE gens[m].slots[j]
      /\ SameOrigin(gens', gens)
  <2>1. gens \in [Names -> GenerationType]
    BY DEF TypeOK
  <2> QED
    BY <1>1, <1>3, <1>4, <2>1, SlotChanged
<1>6. TypeOK'
  BY <1>5, FirstTable DEF TypeOK, Claim, To, Labels
<1> QED
  BY <1>3, <1>5, <1>6

LEMMA FailStep ==
  ASSUME TypeOK, NEW s \in Sessions, Fail(s)
  PROVE  /\ TypeOK'
         /\ \A n \in Names, i \in Tables :
               IF n = held[s] /\ i = Table(s)
               THEN ~gens'[n].slots[i].building /\ gens'[n].slots[i].value = gens[n].slots[i].value
               ELSE gens'[n].slots[i] = gens[n].slots[i]
         /\ SameOrigin(gens', gens)
<1> DEFINE given == SlotAfterFailure(Slot(s))
<1>1. held[s] \in Names /\ Table(s) \in Tables
  BY NoneIsNoName DEF TypeOK, Fail, Table
<1>2. Slot(s) \in SlotType
  BY <1>1 DEF TypeOK, Slot, GenerationType
<1>3. given \in SlotType /\ ~given.building /\ given.value = Slot(s).value
  BY <1>2 DEF SlotAfterFailure, SlotType
<1>4. gens' = WithSlot(gens, held[s], Table(s), given)
  BY DEF Fail, Slot
<1> HIDE DEF given
<1>5. /\ gens' \in [Names -> GenerationType]
      /\ \A m \in Names, j \in Tables :
            gens'[m].slots[j] = IF m = held[s] /\ j = Table(s) THEN given ELSE gens[m].slots[j]
      /\ SameOrigin(gens', gens)
  <2>1. gens \in [Names -> GenerationType]
    BY DEF TypeOK
  <2> QED
    BY <1>1, <1>3, <1>4, <2>1, SlotChanged
<1>6. TypeOK'
  BY <1>5 DEF TypeOK, Fail, To, Labels
<1> QED
  BY <1>1, <1>3, <1>5, <1>6 DEF Slot

LEMMA NotifyTyped ==
  ASSUME TypeOK, NEW s \in Sessions, Notify(s)
  PROVE  TypeOK'
<1>1. spc' \in [Sessions -> Labels]
  BY DEF Notify, TypeOK, Woken, Labels
<1>2. \A t \in Sessions : spc'[t] \in {"enter", "wait", "count", "notify"} => held'[t] # None
  BY DEF Notify, TypeOK, Woken, Return
<1> QED
  BY <1>1, <1>2, ReturnTyped, FirstTable DEF TypeOK, Notify

LEMMA NextTyped == TypeOK /\ [Next]_vars => TypeOK'
<1> SUFFICES ASSUME TypeOK, [Next]_vars PROVE TypeOK'
  OBVIOUS
<1>1. ASSUME NEW g \in Graphs, Advance(g) PROVE TypeOK'
  BY <1>1, MapsAssumption DEF Advance, TypeOK
<1>2. ASSUME NEW s \in Sessions, Bind(s) PROVE TypeOK'
  BY <1>2, MapsAssumption DEF Bind, Ask, TypeOK, To, Labels
<1>3. ASSUME NEW s \in Sessions, Acquire(s) PROVE TypeOK'
  <2>1. CASE Identify(s)
    BY <2>1 DEF Identify, TypeOK, To, Labels, Graph
  <2>2. CASE Reuse(s)
    BY <2>2 DEF Reuse, CurrentFits, TypeOK, To, Labels, Graph
  <2>3. CASE Load(s)
    BY <2>3 DEF Load, TypeOK, To, Labels, Graph
  <2>4. CASE Refuse(s)
    BY <2>4 DEF Refuse, TypeOK, To, Labels
  <2>5. CASE ChooseCurrent(s)
    BY <2>5 DEF ChooseCurrent, CurrentFits, TypeOK, To, Labels, Graph
  <2>6. CASE Wait(s)
    BY <2>6 DEF Wait, TypeOK, To, Labels
  <2> QED
    BY <1>3, <2>1, <2>2, <2>3, <2>4, <2>5, <2>6, ChooseNewTyped, ShareTyped, ClaimStep,
       CountSiblingStep, PublishStep, FailStep, NotifyTyped DEF Acquire
<1>4. ASSUME NEW s \in Sessions, End(s) PROVE TypeOK'
  BY <1>4, SomeGraphAndSnapshot, FirstTable, MapsAssumption DEF End, TypeOK, NoRequest
<1>5. CASE UNCHANGED vars
  BY <1>5 DEF vars, TypeOK
<1> QED
  BY <1>1, <1>2, <1>3, <1>4, <1>5 DEF Next

(* The variables keep their types, and a session that works on a generation
   holds it (ReferencedGraphMaps, Acquire). *)
THEOREM TypesKept == Spec => []TypeOK
<1> QED
  BY InitTyped, NextTyped, PTL DEF Spec

-----------------------------------------------------------------------------
(* One builder for one slot. *)

LEMMA InitOneBuilder == Init => OneBuilder
  BY FreedGeneration DEF Init, OneBuilder, Builds, EmptySlot

(* A step that begins and ends no build and writes to no slot. *)
LEMMA NoBuildStep ==
  ASSUME OneBuilder,
         \A n \in Names, i \in Tables : gens'[n].slots[i] = gens[n].slots[i],
         \A n \in Names, i \in Tables, s \in Sessions : Builds(s, n, i)' <=> Builds(s, n, i)
  PROVE  OneBuilder'
  BY DEF OneBuilder

(* A step of a session that neither was nor is building, and leaves the
   generations alone. *)
LEMMA IdleStep ==
  ASSUME TypeOK, OneBuilder, NEW s \in Sessions,
         spc[s] # "count", spc'[s] # "count",
         \A t \in Sessions \ {s} : /\ spc'[t] = "count" <=> spc[t] = "count"
                                   /\ held'[t] = held[t] /\ request'[t] = request[t],
         \A n \in Names, i \in Tables : gens'[n].slots[i] = gens[n].slots[i]
  PROVE  OneBuilder'
<1>1. \A n \in Names, i \in Tables, t \in Sessions : Builds(t, n, i)' <=> Builds(t, n, i)
  BY DEF Builds, Table
<1> QED
  BY <1>1, NoBuildStep

(* What a session gives up is nobody's build: builders hold what they build in. *)
LEMMA OwnedSlots ==
  ASSUME NEW all \in [Names -> GenerationType], NEW cur, NEW holds,
         NEW n \in Names, NEW i \in Tables
  PROVE  Owned(all, cur, holds)[n].slots[i]
            = IF n \in Reachable(cur, holds) THEN all[n].slots[i] ELSE EmptySlot
  BY FreedGeneration DEF Owned

LEMMA ReturnOneBuilder ==
  ASSUME TypeOK, OneBuilder, NEW s \in Sessions, Return(s), UNCHANGED current,
         spc[s] # "count", spc'[s] # "count",
         \A t \in Sessions \ {s} : spc'[t] = "count" <=> spc[t] = "count"
  PROVE  OneBuilder'
<1>1. \A t \in Sessions \ {s} : held'[t] = held[t] /\ request'[t] = request[t]
  BY DEF Return, TypeOK
<1>2. \A n \in Names, i \in Tables, t \in Sessions : Builds(t, n, i)' <=> Builds(t, n, i)
  BY <1>1 DEF Builds, Table
<1>3. gens \in [Names -> GenerationType]
  BY DEF TypeOK
<1> SUFFICES ASSUME NEW n \in Names, NEW i \in Tables
             PROVE  /\ \A t, u \in Sessions : Builds(t, n, i)' /\ Builds(u, n, i)' => t = u
                    /\ gens'[n].slots[i].building <=> \E t \in Sessions : Builds(t, n, i)'
                    /\ gens'[n].slots[i].building => gens'[n].slots[i].value = {}
  BY DEF OneBuilder
<1>4. CASE n \in Reachable(current, held')
  <2>1. gens'[n].slots[i] = gens[n].slots[i]
    BY <1>3, <1>4, OwnedSlots DEF Return
  <2> QED
    BY <1>2, <2>1 DEF OneBuilder
<1>5. CASE n \notin Reachable(current, held')
  <2>1. gens'[n].slots[i] = EmptySlot
    BY <1>3, <1>5, OwnedSlots DEF Return
  <2>2. \A t \in Sessions : ~Builds(t, n, i)'
    BY <1>5 DEF Builds, Reachable
  <2> QED
    BY <2>1, <2>2 DEF EmptySlot
<1> QED
  BY <1>4, <1>5

LEMMA ChooseNewOneBuilder ==
  ASSUME TypeOK, OneBuilder, NEW s \in Sessions, ChooseNew(s)
  PROVE  OneBuilder'
<1> DEFINE new == CHOOSE n \in Names : n \notin Reachable(current, held)
           chosen == Generation(Graph(s), Token(s))
           all == [gens EXCEPT ![new] = chosen]
<1>1. new \in Names /\ new \notin Reachable(current, held)
  BY FreeName
<1>2. held' = [held EXCEPT ![s] = new] /\ gens' = Owned(all, current', held')
  BY DEF ChooseNew
<1> HIDE DEF new
<1>3. chosen \in GenerationType /\ \A i \in Tables : chosen.slots[i] = EmptySlot
  <2>1. Graph(s) \in Graphs /\ Token(s) \in Nat \X Snapshots
    BY MapsAssumption DEF TypeOK, Graph, Token
  <2> QED
    BY <2>1, NewGeneration
<1> HIDE DEF chosen
<1>4. /\ all \in [Names -> GenerationType]
      /\ \A n \in Names : all[n] = IF n = new THEN chosen ELSE gens[n]
  BY <1>1, <1>3 DEF TypeOK
<1> HIDE DEF all
<1>5. \A t \in Sessions \ {s} : /\ held'[t] = held[t]
                                /\ spc'[t] = spc[t] /\ request'[t] = request[t]
  BY <1>2 DEF TypeOK, ChooseNew, To
<1>6. spc[s] # "count" /\ spc'[s] # "count"
  BY DEF TypeOK, ChooseNew, To
<1>7. \A n \in Names, i \in Tables, t \in Sessions : Builds(t, n, i)' <=> Builds(t, n, i)
  BY <1>5, <1>6 DEF Builds, Table
<1> SUFFICES ASSUME NEW n \in Names, NEW i \in Tables
             PROVE  /\ \A t, u \in Sessions : Builds(t, n, i)' /\ Builds(u, n, i)' => t = u
                    /\ gens'[n].slots[i].building <=> \E t \in Sessions : Builds(t, n, i)'
                    /\ gens'[n].slots[i].building => gens'[n].slots[i].value = {}
  BY DEF OneBuilder
<1>8. gens'[n].slots[i] = IF n \in Reachable(current', held') THEN all[n].slots[i] ELSE EmptySlot
  BY <1>2, <1>4, OwnedSlots
<1>9. CASE n \in Reachable(current', held') /\ n # new
  <2>1. gens'[n].slots[i] = gens[n].slots[i]
    BY <1>4, <1>8, <1>9
  <2> QED
    BY <1>7, <2>1 DEF OneBuilder
<1>10. CASE n \notin Reachable(current', held') \/ n = new
  <2>1. gens'[n].slots[i] = EmptySlot
    BY <1>3, <1>4, <1>8, <1>10
  <2>2. \A t \in Sessions : ~Builds(t, n, i)'
    BY <1>1, <1>5, <1>6, <1>7, <1>10 DEF Builds, Reachable
  <2> QED
    BY <2>1, <2>2 DEF EmptySlot
<1> QED
  BY <1>9, <1>10

LEMMA ClaimOneBuilder ==
  ASSUME TypeOK, OneBuilder, NEW s \in Sessions, Claim(s)
  PROVE  OneBuilder'
<1>1. held[s] \in Names /\ Table(s) \in Tables
  BY NoneIsNoName DEF TypeOK, Claim, Table
<1>2. ~gens[held[s]].slots[Table(s)].building
  BY DEF Claim, SlotFree, Slot
<1>3. \A t \in Sessions : ~Builds(t, held[s], Table(s))
  BY <1>1, <1>2 DEF OneBuilder
<1>4. \A t \in Sessions, n \in Names, i \in Tables :
         Builds(t, n, i)' <=> Builds(t, n, i) \/ (t = s /\ n = held[s] /\ i = Table(s))
  BY DEF Builds, Claim, To, TypeOK, Table
<1>5. ASSUME NEW n \in Names, NEW i \in Tables
      PROVE  /\ \A t, u \in Sessions : Builds(t, n, i)' /\ Builds(u, n, i)' => t = u
             /\ gens'[n].slots[i].building <=> \E t \in Sessions : Builds(t, n, i)'
             /\ gens'[n].slots[i].building => gens'[n].slots[i].value = {}
  <2>1. CASE n = held[s] /\ i = Table(s)
    BY <1>3, <1>4, <2>1, ClaimStep
  <2>2. CASE ~(n = held[s] /\ i = Table(s))
    <3>1. gens'[n].slots[i] = gens[n].slots[i]
      BY <2>2, ClaimStep
    <3> QED
      BY <1>4, <2>2, <3>1 DEF OneBuilder
  <2> QED
    BY <2>1, <2>2
<1> QED
  BY <1>5 DEF OneBuilder

(* A build ends: its slot is not building any more, and it was its only builder. *)
LEMMA BuildEnds ==
  ASSUME TypeOK, OneBuilder, NEW s \in Sessions, spc[s] = "count",
         UNCHANGED <<held, request>>, To(s, "notify"),
         \A n \in Names, i \in Tables :
            IF n = held[s] /\ i = Table(s)
            THEN ~gens'[n].slots[i].building
            ELSE gens'[n].slots[i] = gens[n].slots[i]
  PROVE  OneBuilder'
<1>1. held[s] \in Names /\ Table(s) \in Tables
  BY NoneIsNoName DEF TypeOK, Table
<1>2. Builds(s, held[s], Table(s))
  BY DEF Builds
<1>3. \A t \in Sessions : Builds(t, held[s], Table(s)) => t = s
  BY <1>1, <1>2 DEF OneBuilder
<1>4. \A t \in Sessions, n \in Names, i \in Tables :
         Builds(t, n, i)' <=> Builds(t, n, i) /\ t # s
  BY DEF Builds, To, TypeOK, Table
<1>5. ASSUME NEW n \in Names, NEW i \in Tables
      PROVE  /\ \A t, u \in Sessions : Builds(t, n, i)' /\ Builds(u, n, i)' => t = u
             /\ gens'[n].slots[i].building <=> \E t \in Sessions : Builds(t, n, i)'
             /\ gens'[n].slots[i].building => gens'[n].slots[i].value = {}
  <2>1. CASE n = held[s] /\ i = Table(s)
    BY <1>3, <1>4, <2>1
  <2>2. CASE ~(n = held[s] /\ i = Table(s))
    <3>1. gens'[n].slots[i] = gens[n].slots[i]
      BY <2>2
    <3>2. ~Builds(s, n, i)
      BY <2>2 DEF Builds
    <3> QED
      BY <1>4, <3>1, <3>2 DEF OneBuilder
  <2> QED
    BY <2>1, <2>2
<1> QED
  BY <1>5 DEF OneBuilder

LEMMA CountSiblingOneBuilder ==
  ASSUME TypeOK, OneBuilder, NEW s \in Sessions, CountSibling(s)
  PROVE  OneBuilder'
<1>1. \A n \in Names, i \in Tables : gens'[n].slots[i] = gens[n].slots[i]
  BY CountSiblingStep
<1>2. \A n \in Names, i \in Tables, t \in Sessions : Builds(t, n, i)' <=> Builds(t, n, i)
  BY DEF CountSibling, Builds, Table
<1> QED
  BY <1>1, <1>2, NoBuildStep

LEMMA NextOneBuilder == TypeOK /\ OneBuilder /\ [Next]_vars => OneBuilder'
<1> SUFFICES ASSUME TypeOK, OneBuilder, [Next]_vars PROVE OneBuilder'
  OBVIOUS
<1>1. ASSUME NEW g \in Graphs, Advance(g) PROVE OneBuilder'
  BY <1>1 DEF Advance, OneBuilder, Builds, Table
<1>2. ASSUME NEW s \in Sessions, Bind(s) PROVE OneBuilder'
  BY <1>2, IdleStep DEF Bind, Ask, To, TypeOK
<1>3. ASSUME NEW s \in Sessions, Acquire(s) PROVE OneBuilder'
  <2>1. CASE Identify(s)
    BY <2>1, IdleStep DEF Identify, To, TypeOK
  <2>2. CASE Reuse(s)
    BY <2>2, IdleStep DEF Reuse, To, TypeOK
  <2>3. CASE Load(s)
    BY <2>3, IdleStep DEF Load, To, TypeOK
  <2>4. CASE Refuse(s)
    BY <2>4, IdleStep DEF Refuse, To, TypeOK
  <2>5. CASE ChooseCurrent(s)
    BY <2>5, IdleStep DEF ChooseCurrent, To, TypeOK
  <2>6. CASE ChooseNew(s)
    BY <2>6, ChooseNewOneBuilder
  <2>7. CASE Share(s)
    BY <2>7, ReturnOneBuilder DEF Share, To, TypeOK
  <2>8. CASE Claim(s)
    BY <2>8, ClaimOneBuilder
  <2>9. CASE Wait(s)
    BY <2>9, IdleStep DEF Wait, To, TypeOK
  <2>10. CASE CountSibling(s)
    BY <2>10, CountSiblingOneBuilder
  <2>11. CASE Publish(s)
    <3>1. \A n \in Names, i \in Tables :
             IF n = held[s] /\ i = Table(s)
             THEN ~gens'[n].slots[i].building
             ELSE gens'[n].slots[i] = gens[n].slots[i]
      BY <2>11, PublishStep
    <3>2. spc[s] = "count" /\ To(s, "notify") /\ UNCHANGED <<held, request>>
      BY <2>11 DEF Publish
    <3> QED
      BY <3>1, <3>2, BuildEnds
  <2>12. CASE Fail(s)
    BY <2>12, FailStep, BuildEnds DEF Fail
  <2>13. CASE Notify(s)
    BY <2>13, ReturnOneBuilder DEF Notify, Woken, TypeOK
  <2> QED
    BY <1>3, <2>1, <2>2, <2>3, <2>4, <2>5, <2>6, <2>7, <2>8, <2>9, <2>10, <2>11, <2>12, <2>13
       DEF Acquire
<1>4. ASSUME NEW s \in Sessions, End(s) PROVE OneBuilder'
  BY <1>4, IdleStep DEF End, TypeOK
<1>5. CASE UNCHANGED vars
  BY <1>5 DEF vars, OneBuilder, Builds, Table
<1> QED
  BY <1>1, <1>2, <1>3, <1>4, <1>5 DEF Next

(* A slot says that it is being built exactly while one session builds it, for
   every number of sessions and whatever is replaced, evicted or thrown: two
   sessions never build one map side by side, and no waiter waits for a builder
   that is gone (ReferencedMapSlot::building). *)
THEOREM OneBuilderPerSlot == Spec => []OneBuilder
<1>1. Init => TypeOK /\ OneBuilder
  BY InitTyped, InitOneBuilder
<1>2. TypeOK /\ OneBuilder /\ [Next]_vars => (TypeOK /\ OneBuilder)'
  BY NextTyped, NextOneBuilder
<1> QED
  BY <1>1, <1>2, PTL DEF Spec

-----------------------------------------------------------------------------
(* The generations kept. *)

(* The graphs with a current generation. *)
Kept(cur) == {g \in Graphs : cur[g] # None}

LEMMA KeptFinite ==
  ASSUME NEW cur
  PROVE  IsFiniteSet(Kept(cur)) /\ Cardinality(Kept(cur)) \in Nat
  BY MapsAssumption, FS_Subset, FS_CardinalityType DEF Kept

LEMMA ChooseNewBounded ==
  ASSUME TypeOK, GenerationsBounded, NEW s \in Sessions, ChooseNew(s)
  PROVE  GenerationsBounded'
<1> DEFINE g == Graph(s)
           others == Kept(current) \ {g}
<1>1. PICK new \in Names, cur \in Evicted(current, g) : current' = [cur EXCEPT ![g] = new]
  BY FreeName DEF ChooseNew
<1>2. g \in Graphs /\ current \in [Graphs -> Names \cup {None}] /\ new # None /\ g \notin others
  BY NoneIsNoName DEF TypeOK, Graph
<1>3. others = {h \in Graphs \ {g} : current[h] # None}
  BY DEF Kept
<1>4. /\ IsFiniteSet(others) /\ Cardinality(others) \in Nat
      /\ Cardinality(others) <= Cardinality(Kept(current))
  <2> HIDE DEF g
  <2> QED
    BY KeptFinite, FS_Subset, FS_CardinalityType
<1>5. Cardinality(Kept(current)) <= MapLimit /\ MapLimit \in Nat
  BY MapsAssumption DEF GenerationsBounded, Kept
<1> HIDE DEF g, others
<1>6. CASE Cardinality(others) + 1 > MapLimit
  <2>1. PICK h \in others : cur = [current EXCEPT ![h] = None]
    BY <1>1, <1>3, <1>6 DEF Evicted, Evict
  <2>2. Kept(current') = (others \ {h}) \cup {g}
    BY <1>1, <1>2, <1>3, <2>1 DEF Kept
  <2>3. IsFiniteSet(others \ {h}) /\ Cardinality(others \ {h}) = Cardinality(others) - 1
    BY <1>4, <2>1, FS_RemoveElement
  <2>4. Cardinality(Kept(current')) = Cardinality(others)
    <3>1. Cardinality((others \ {h}) \cup {g}) = Cardinality(others \ {h}) + 1
      BY <1>2, <2>3, FS_AddElement
    <3> QED
      BY <1>4, <2>2, <2>3, <3>1
  <2> QED
    BY <1>4, <1>5, <2>4, KeptFinite DEF GenerationsBounded, Kept
<1>7. CASE ~(Cardinality(others) + 1 > MapLimit)
  <2>1. cur = current
    BY <1>1, <1>3, <1>7 DEF Evicted, Evict
  <2>2. Kept(current') = others \cup {g}
    BY <1>1, <1>2, <1>3, <2>1 DEF Kept
  <2>3. Cardinality(Kept(current')) = Cardinality(others) + 1
    BY <1>2, <1>4, <2>2, FS_AddElement
  <2> QED
    BY <1>4, <1>5, <1>7, <2>3 DEF GenerationsBounded, Kept
<1> QED
  BY <1>6, <1>7

(* storage->graphs never keeps more than MapLimit generations, whatever sequence of
   graphs and snapshots the sessions ask for (Acquire: "Keep only the current map
   generation per graph"). *)
THEOREM GenerationsStayBounded == Spec => []GenerationsBounded
<1>1. Init => GenerationsBounded
  <2> SUFFICES ASSUME Init PROVE GenerationsBounded
    OBVIOUS
  <2>1. {g \in Graphs : current[g] # None} = {}
    BY DEF Init
  <2> QED
    BY <2>1, FS_EmptySet, MapsAssumption DEF GenerationsBounded
<1>2. TypeOK /\ GenerationsBounded /\ [Next]_vars => GenerationsBounded'
  <2> SUFFICES ASSUME TypeOK, GenerationsBounded, [Next]_vars PROVE GenerationsBounded'
    OBVIOUS
  <2>1. CASE current' = current
    BY <2>1 DEF GenerationsBounded
  <2>2. CASE \E s \in Sessions : ChooseNew(s)
    BY <2>2, ChooseNewBounded
  <2>3. current' = current \/ \E s \in Sessions : ChooseNew(s)
    BY DEF Next, Advance, Bind, Ask, Acquire, Identify, Reuse, Load, Refuse, ChooseCurrent,
       Share, Claim, Wait, CountSibling, Publish, Fail, Notify, End, vars
  <2> QED
    BY <2>1, <2>2, <2>3
<1> QED
  BY <1>1, <1>2, TypesKept, PTL DEF Spec

-----------------------------------------------------------------------------
(* What the sessions are given. *)

Working == {"enter", "wait", "count", "notify"}

(* The maps of a generation are of its graph and snapshot. *)
MapsFit ==
  \A n \in Names, i \in Tables : \A m \in gens[n].slots[i].value :
     MapOf(m, gens[n].graph, gens[n].token[2])

(* A session works on a generation of the graph and the snapshot it asked for. *)
WorksOn(s) == gens[held[s]].graph = Graph(s) /\ gens[held[s]].token[2] = request[s].snapshot

HeldFits == \A s \in Sessions : spc[s] \in Working => WorksOn(s)

CurrentOfGraph == \A g \in Graphs : current[g] # None => gens[current[g]].graph = g

AskInv == MapsFit /\ HeldFits /\ CurrentOfGraph /\ LeasesAsAsked

LEMMA InitAsk == Init => AskInv
  BY FreedGeneration DEF Init, AskInv, MapsFit, HeldFits, CurrentOfGraph, LeasesAsAsked, Working,
     EmptySlot

(* Sessions keep their maps, but for one that gets what it asked for. *)
LEMMA LeasesKept ==
  ASSUME LeasesAsAsked, NEW s \in Sessions,
         \A t \in Sessions : /\ request'[t].graph = request[t].graph
                             /\ request'[t].snapshot = request[t].snapshot,
         \A t \in Sessions : \A l \in leases'[t] :
            l \in leases[t] \/ (t = s /\ MapOf(l, Graph(s), request[s].snapshot))
  PROVE  LeasesAsAsked'
<1> SUFFICES ASSUME NEW t \in Sessions, NEW l \in leases'[t]
             PROVE  /\ l.graph = request'[t].graph /\ l.snapshot = request'[t].snapshot
                    /\ l.count = Rows[l.table, l.snapshot]
  BY DEF LeasesAsAsked, Graph
<1>1. CASE l \in leases[t]
  BY <1>1 DEF LeasesAsAsked, Graph
<1>2. CASE t = s /\ MapOf(l, Graph(s), request[s].snapshot)
  BY <1>2 DEF MapOf, Graph
<1> QED
  BY <1>1, <1>2

(* A session's step between its sections leaves the generations alone; it goes on with
   one that fits, if with any, and with the graph and the snapshot it asked for. *)
LEMMA BetweenSections ==
  ASSUME TypeOK, AskInv, NEW s \in Sessions, UNCHANGED <<current, gens, leases>>,
         \A t \in Sessions \ {s} : /\ spc'[t] = spc[t] /\ held'[t] = held[t]
                                   /\ request'[t] = request[t],
         request'[s].graph = request[s].graph /\ request'[s].snapshot = request[s].snapshot,
         spc'[s] \in Working => WorksOn(s)'
  PROVE  AskInv'
<1>1. HeldFits'
  BY DEF AskInv, HeldFits, WorksOn, Graph
<1>2. LeasesAsAsked'
  <2>1. \A t \in Sessions : /\ request'[t].graph = request[t].graph
                            /\ request'[t].snapshot = request[t].snapshot
    OBVIOUS
  <2> QED
    BY <2>1, LeasesKept DEF AskInv
<1> QED
  BY <1>1, <1>2 DEF AskInv, MapsFit, CurrentOfGraph

(* The current generation, when it has the token, is of the session's snapshot. *)
LEMMA CurrentWorks ==
  ASSUME TypeOK, AskInv, NEW s \in Sessions, CurrentFits(s)
  PROVE  /\ gens[current[Graph(s)]].graph = Graph(s)
         /\ gens[current[Graph(s)]].token[2] = request[s].snapshot
  BY DEF AskInv, CurrentOfGraph, CurrentFits, Token, TypeOK, Graph

(* The steps of a build change one slot or one count of the generation held. *)
LEMMA BuildStep ==
  ASSUME TypeOK, AskInv, NEW s \in Sessions, SameOrigin(gens', gens),
         UNCHANGED <<current, held, request>>, spc[s] \in Working,
         \A t \in Sessions \ {s} : spc'[t] = spc[t],
         \A n \in Names, i \in Tables : \A m \in gens'[n].slots[i].value :
            \/ m \in gens[n].slots[i].value
            \/ n = held[s] /\ MapOf(m, Graph(s), request[s].snapshot),
         \A t \in Sessions : \A l \in leases'[t] :
            l \in leases[t] \/ (t = s /\ MapOf(l, Graph(s), request[s].snapshot))
  PROVE  AskInv'
<1>1. WorksOn(s)
  BY DEF AskInv, HeldFits
<1>2. MapsFit'
  BY <1>1 DEF AskInv, MapsFit, SameOrigin, WorksOn
<1>3. ASSUME NEW t \in Sessions, spc'[t] \in Working PROVE WorksOn(t)'
  <2>1. spc[t] \in Working
    BY <1>3
  <2>2. held[t] \in Names
    BY <2>1, NoneIsNoName DEF TypeOK, Working
  <2> QED
    BY <2>1, <2>2 DEF AskInv, HeldFits, WorksOn, SameOrigin, Graph
<1>4. CurrentOfGraph'
  BY DEF AskInv, CurrentOfGraph, SameOrigin, TypeOK
<1>5. LeasesAsAsked'
  BY LeasesKept DEF AskInv
<1> QED
  BY <1>2, <1>3, <1>4, <1>5 DEF AskInv, HeldFits

LEMMA OwnedIs ==
  ASSUME NEW all, NEW cur, NEW holds, NEW n \in Names
  PROVE  Owned(all, cur, holds)[n] = IF n \in Reachable(cur, holds) THEN all[n] ELSE Freed
  BY DEF Owned

(* Acquire returns with one map more or none. *)
LEMMA ReturnAsk ==
  ASSUME TypeOK, AskInv, NEW s \in Sessions, Return(s), UNCHANGED current,
         spc'[s] = "idle",
         \A t \in Sessions \ {s} : spc'[t] \in Working => spc[t] \in Working,
         \A t \in Sessions : \A l \in leases'[t] :
            l \in leases[t] \/ (t = s /\ MapOf(l, Graph(s), request[s].snapshot))
  PROVE  AskInv'
<1>1. /\ \A t \in Sessions \ {s} : held'[t] = held[t] /\ request'[t] = request[t]
      /\ request'[s].graph = request[s].graph /\ request'[s].snapshot = request[s].snapshot
  BY DEF Return, TypeOK
<1>2. \A n \in Names : gens'[n] = IF n \in Reachable(current, held') THEN gens[n] ELSE Freed
  BY OwnedIs DEF Return
<1>3. MapsFit'
  BY <1>2, FreedGeneration DEF AskInv, MapsFit, EmptySlot
<1>4. ASSUME NEW t \in Sessions, spc'[t] \in Working PROVE WorksOn(t)'
  <2>1. t # s /\ spc[t] \in Working
    BY <1>4 DEF Working
  <2>2. held[t] \in Names /\ held'[t] = held[t]
    BY <1>1, <2>1, NoneIsNoName DEF TypeOK, Working
  <2>3. gens'[held'[t]] = gens[held[t]]
    BY <1>2, <2>2 DEF Reachable
  <2> QED
    BY <1>1, <2>1, <2>3 DEF AskInv, HeldFits, WorksOn, Graph
<1>5. CurrentOfGraph'
  <2> SUFFICES ASSUME NEW g \in Graphs, current[g] # None PROVE gens'[current[g]].graph = g
    BY DEF CurrentOfGraph
  <2>1. current[g] \in Names /\ current[g] \in Reachable(current, held')
    BY DEF TypeOK, Reachable
  <2> QED
    BY <1>2, <2>1 DEF AskInv, CurrentOfGraph
<1>6. LeasesAsAsked'
  <2>1. \A t \in Sessions : /\ request'[t].graph = request[t].graph
                            /\ request'[t].snapshot = request[t].snapshot
    BY <1>1
  <2> QED
    BY <2>1, LeasesKept DEF AskInv
<1> QED
  BY <1>3, <1>4, <1>5, <1>6 DEF AskInv, HeldFits

LEMMA ChooseNewAsk ==
  ASSUME TypeOK, AskInv, NEW s \in Sessions, ChooseNew(s)
  PROVE  AskInv'
<1> DEFINE new == CHOOSE n \in Names : n \notin Reachable(current, held)
           chosen == Generation(Graph(s), Token(s))
           all == [gens EXCEPT ![new] = chosen]
<1>1. new \in Names /\ new \notin Reachable(current, held)
  BY FreeName
<1>2. held' = [held EXCEPT ![s] = new] /\ gens' = Owned(all, current', held')
  BY DEF ChooseNew
<1>3. PICK cur \in Evicted(current, Graph(s)) : current' = [cur EXCEPT ![Graph(s)] = new]
  BY DEF ChooseNew
<1> HIDE DEF new
<1>4. /\ chosen.graph = Graph(s) /\ chosen.token[2] = request[s].snapshot
      /\ \A i \in Tables : chosen.slots[i] = EmptySlot
  BY DEF Generation, Token
<1> HIDE DEF chosen
<1>5. \A n \in Names : gens'[n] = IF n \notin Reachable(current', held') THEN Freed
                                  ELSE IF n = new THEN chosen ELSE gens[n]
  <2>1. \A n \in Names : all[n] = IF n = new THEN chosen ELSE gens[n]
    BY <1>1 DEF TypeOK
  <2> HIDE DEF all
  <2> QED
    BY <1>2, <2>1, OwnedIs
<1>6. MapsFit'
  BY <1>4, <1>5, FreedGeneration DEF AskInv, MapsFit, EmptySlot
<1>7. /\ spc' = [spc EXCEPT ![s] = "enter"] /\ request' = request /\ leases' = leases
  BY DEF ChooseNew, To
<1>8. ASSUME NEW t \in Sessions, spc'[t] \in Working PROVE WorksOn(t)'
  <2>1. held'[t] \in Names /\ held'[t] \in Reachable(current', held')
    BY <1>1, <1>2, <1>7, <1>8, NoneIsNoName DEF TypeOK, Working, Reachable
  <2>2. CASE t = s
    <3>1. gens'[held'[t]] = chosen
      BY <1>2, <1>5, <2>1, <2>2 DEF TypeOK
    <3> QED
      BY <1>4, <1>7, <2>2, <3>1 DEF WorksOn, Graph
  <2>3. CASE t # s
    <3>1. held'[t] = held[t] /\ held[t] # new /\ spc[t] \in Working
      BY <1>1, <1>2, <1>7, <1>8, <2>3 DEF TypeOK, Reachable
    <3>2. gens'[held'[t]] = gens[held[t]]
      BY <1>5, <2>1, <3>1
    <3> QED
      BY <1>7, <3>1, <3>2 DEF AskInv, HeldFits, WorksOn, Graph
  <2> QED
    BY <2>2, <2>3
<1>9. CurrentOfGraph'
  <2> SUFFICES ASSUME NEW g \in Graphs, current'[g] # None PROVE gens'[current'[g]].graph = g
    BY DEF CurrentOfGraph
  <2>1. cur \in [Graphs -> Names \cup {None}] /\ \A h \in Graphs : cur[h] \in {current[h], None}
    BY <1>3 DEF Evicted, Evict, TypeOK
  <2>2. current'[g] \in Names /\ current'[g] \in Reachable(current', held')
    BY <1>1, <1>3, <2>1 DEF Reachable
  <2>3. CASE g = Graph(s)
    BY <1>3, <1>4, <1>5, <2>1, <2>2, <2>3
  <2>4. CASE g # Graph(s)
    <3>1. current'[g] = current[g]
      BY <1>3, <2>1, <2>4
    <3>2. current[g] # new
      BY <1>1 DEF Reachable
    <3> QED
      BY <1>5, <2>2, <3>1, <3>2 DEF AskInv, CurrentOfGraph
  <2> QED
    BY <2>3, <2>4
<1>10. LeasesAsAsked'
  BY <1>7 DEF AskInv, LeasesAsAsked, Graph
<1> QED
  BY <1>6, <1>8, <1>9, <1>10 DEF AskInv, HeldFits

LEMMA ShareAsk ==
  ASSUME TypeOK, AskInv, NEW s \in Sessions, Share(s)
  PROVE  AskInv'
<1>1. PICK map \in Slot(s).value : leases' = [leases EXCEPT ![s] = @ \cup {map}]
  BY DEF Share
<1>2. held[s] \in Names /\ Table(s) \in Tables /\ spc[s] = "enter"
  BY NoneIsNoName DEF Share, TypeOK, Table
<1>3. MapOf(map, Graph(s), request[s].snapshot)
  BY <1>1, <1>2 DEF AskInv, MapsFit, HeldFits, WorksOn, Slot, Working
<1>4. \A t \in Sessions : \A l \in leases'[t] :
         l \in leases[t] \/ (t = s /\ MapOf(l, Graph(s), request[s].snapshot))
  BY <1>1, <1>3 DEF TypeOK
<1>5. Return(s) /\ current' = current /\ spc' = [spc EXCEPT ![s] = "idle"]
  BY DEF Share, To
<1>6. spc'[s] = "idle" /\ \A t \in Sessions \ {s} : spc'[t] \in Working => spc[t] \in Working
  BY <1>5 DEF TypeOK
<1> QED
  BY <1>4, <1>5, <1>6, ReturnAsk

LEMMA NotifyAsk ==
  ASSUME TypeOK, AskInv, NEW s \in Sessions, Notify(s)
  PROVE  AskInv'
<1>1. Return(s) /\ current' = current /\ leases' = leases
  BY DEF Notify
<1>2. spc'[s] = "idle" /\ \A t \in Sessions \ {s} : spc'[t] \in Working => spc[t] \in Working
  BY DEF Notify, Woken, Working
<1> QED
  BY <1>1, <1>2, ReturnAsk

LEMMA BuildAsk ==
  ASSUME TypeOK, AskInv, NEW s \in Sessions,
         Claim(s) \/ CountSibling(s) \/ Publish(s) \/ Fail(s)
  PROVE  AskInv'
<1>1. /\ UNCHANGED <<current, held, request>> /\ spc[s] \in Working
      /\ \A t \in Sessions \ {s} : spc'[t] = spc[t]
  BY DEF Claim, CountSibling, Publish, Fail, To, Working, TypeOK
<1>2. SameOrigin(gens', gens)
  BY ClaimStep, CountSiblingStep, PublishStep, FailStep
<1>3. \A t \in Sessions : \A l \in leases'[t] :
         l \in leases[t] \/ (t = s /\ MapOf(l, Graph(s), request[s].snapshot))
  <2>1. CASE Publish(s)
    BY <2>1, PublishStep
  <2>2. CASE Claim(s) \/ CountSibling(s) \/ Fail(s)
    BY <2>2 DEF Claim, CountSibling, Fail
  <2> QED
    BY <2>1, <2>2
<1>4. ASSUME NEW n \in Names, NEW i \in Tables, NEW m \in gens'[n].slots[i].value
      PROVE  \/ m \in gens[n].slots[i].value
             \/ n = held[s] /\ MapOf(m, Graph(s), request[s].snapshot)
  <2>1. CASE Claim(s)
    BY <1>4, <2>1, ClaimStep
  <2>2. CASE CountSibling(s)
    BY <1>4, <2>2, CountSiblingStep
  <2>3. CASE Publish(s)
    BY <1>4, <2>3, PublishStep
  <2>4. CASE Fail(s)
    BY <1>4, <2>4, FailStep
  <2> QED
    BY <2>1, <2>2, <2>3, <2>4
<1> QED
  BY <1>1, <1>2, <1>3, <1>4, BuildStep

LEMMA SectionsAsk ==
  ASSUME TypeOK, AskInv, NEW s \in Sessions,
         \/ Identify(s) \/ Reuse(s) \/ Load(s) \/ Refuse(s) \/ ChooseCurrent(s) \/ Wait(s)
  PROVE  AskInv'
<1>1. UNCHANGED <<current, gens, leases>>
  BY DEF Identify, Reuse, Load, Refuse, ChooseCurrent, Wait
<1>2. /\ \A t \in Sessions \ {s} : /\ spc'[t] = spc[t] /\ held'[t] = held[t]
                                   /\ request'[t] = request[t]
      /\ request'[s].graph = request[s].graph /\ request'[s].snapshot = request[s].snapshot
  BY DEF Identify, Reuse, Load, Refuse, ChooseCurrent, Wait, To, TypeOK
<1>3. spc'[s] \in Working => WorksOn(s)'
  <2>1. CASE Identify(s) \/ Load(s) \/ Refuse(s)
    BY <2>1 DEF Identify, Load, Refuse, To, TypeOK, Working
  <2>2. CASE Reuse(s) \/ ChooseCurrent(s)
    <3>1. CurrentFits(s) /\ held' = [held EXCEPT ![s] = current[Graph(s)]] /\ request' = request
      BY <2>2 DEF Reuse, ChooseCurrent
    <3>2. held'[s] = current[Graph(s)]
      BY <3>1 DEF TypeOK
    <3> QED
      BY <1>1, <3>1, <3>2, CurrentWorks DEF WorksOn, Graph
  <2>3. CASE Wait(s)
    BY <1>1, <2>3 DEF Wait, AskInv, HeldFits, WorksOn, Graph, Working
  <2> QED
    BY <2>1, <2>2, <2>3
<1> QED
  BY <1>1, <1>2, <1>3, BetweenSections

(* Between two binds. *)
LEMMA StatementAsk ==
  ASSUME TypeOK, AskInv, NEW s \in Sessions, Bind(s) \/ End(s)
  PROVE  AskInv'
<1>1. /\ UNCHANGED <<current, gens, held>> /\ spc[s] = "idle" /\ spc'[s] \notin Working
      /\ \A t \in Sessions \ {s} : /\ spc'[t] = spc[t] /\ request'[t] = request[t]
                                   /\ leases'[t] = leases[t]
      /\ \A l \in leases'[s] : /\ l \in leases[s] /\ l.graph = request'[s].graph
                               /\ l.snapshot = request'[s].snapshot
  BY DEF Bind, Ask, End, To, TypeOK, Working
<1>2. HeldFits'
  BY <1>1 DEF AskInv, HeldFits, WorksOn, Graph
<1>3. LeasesAsAsked'
  <2> SUFFICES ASSUME NEW t \in Sessions, NEW l \in leases'[t]
               PROVE  /\ l.graph = request'[t].graph /\ l.snapshot = request'[t].snapshot
                      /\ l.count = Rows[l.table, l.snapshot]
    BY DEF LeasesAsAsked, Graph
  <2>1. \A u \in Sessions : \A m \in leases[u] :
           /\ m.graph = request[u].graph /\ m.snapshot = request[u].snapshot
           /\ m.count = Rows[m.table, m.snapshot]
    BY DEF AskInv, LeasesAsAsked, Graph
  <2>2. l \in leases[t]
    BY <1>1
  <2>3. CASE t = s
    BY <1>1, <2>1, <2>2, <2>3
  <2>4. CASE t # s
    BY <1>1, <2>1, <2>2, <2>4
  <2> QED
    BY <2>3, <2>4
<1> QED
  BY <1>1, <1>2, <1>3 DEF AskInv, MapsFit, CurrentOfGraph

LEMMA AskAlways == Spec => [](TypeOK /\ AskInv)
<1>1. TypeOK /\ AskInv /\ [Next]_vars => AskInv'
  <2> SUFFICES ASSUME TypeOK, AskInv, [Next]_vars PROVE AskInv'
    OBVIOUS
  <2>1. CASE UNCHANGED <<current, gens, spc, request, held, leases>>
    BY <2>1 DEF AskInv, MapsFit, HeldFits, CurrentOfGraph, LeasesAsAsked, WorksOn, Graph
  <2>2. UNCHANGED vars \/ (\E g \in Graphs : Advance(g))
        => UNCHANGED <<current, gens, spc, request, held, leases>>
    BY DEF vars, Advance
  <2> QED
    BY <2>1, <2>2, ChooseNewAsk, ShareAsk, NotifyAsk, BuildAsk, SectionsAsk, StatementAsk
       DEF Next, Acquire
<1> QED
  BY <1>1, InitAsk, TypesKept, PTL DEF Spec

(* A statement's maps are of the graph and the snapshot it asked for, with all the rows
   of their tables, whatever generation it was given them from (Acquire). *)
THEOREM LeasesAreAsAsked == Spec => []LeasesAsAsked
<1>1. AskInv => LeasesAsAsked
  BY DEF AskInv
<1> QED
  BY <1>1, AskAlways, PTL

-----------------------------------------------------------------------------
(* Induction along an interval, and the sums a build makes with it. *)

(* A set of numbers below a bound has a greatest one: an endless chain of ever smaller
   sets of larger ones would start at each. *)
LEMMA GreatestNumber ==
  ASSUME NEW S \in SUBSET Nat, S # {}, NEW n \in Nat, \A i \in S : i < n
  PROVE  \E i \in S : \A j \in S : j <= i
<1> DEFINE AboveIt(i) == {j \in S : i < j}
           Uppers == {AboveIt(i) : i \in S}
<1>1. IsFiniteSet(S)
  BY FS_BoundedSetOfNaturals
<1>2. IsWellFoundedOn(StrictSubsetOrdering(S), SUBSET S)
  BY <1>1, FS_FiniteSubsetsOfFinite, FS_StrictSubsetOrderingWellFounded
<1>3. Uppers \subseteq SUBSET S /\ Uppers # {}
  OBVIOUS
<1>4. PICK U \in Uppers : \A V \in Uppers : <<V, U>> \notin StrictSubsetOrdering(S)
  <2> HIDE DEF Uppers
  <2> QED
    BY <1>2, <1>3, WFMin
<1>5. PICK i \in S : U = AboveIt(i)
  BY <1>4
<1>6. SUFFICES ASSUME NEW j \in S, ~(j <= i)
               PROVE  FALSE
  BY <1>5
<1>7. i \in Nat /\ j \in Nat /\ i < j
  BY <1>6
<1>8. AboveIt(j) \subseteq AboveIt(i) /\ j \in AboveIt(i) /\ j \notin AboveIt(j)
  <2>1. \A k \in AboveIt(j) : k \in S /\ k \in Nat /\ i < k
    BY <1>7
  <2>2. j \in AboveIt(i)
    BY <1>7
  <2>3. j \notin AboveIt(j)
    BY <1>7
  <2> QED
    BY <2>1, <2>2, <2>3
<1>9. <<AboveIt(j), U>> \in StrictSubsetOrdering(S)
  BY <1>5, <1>8 DEF StrictSubsetOrdering
<1> QED
  BY <1>4, <1>9

LEMMA Along ==
  ASSUME NEW n \in Nat, NEW S, 0 \in S, \A i \in 0..(n - 1) : i \in S => i + 1 \in S
  PROVE  0..n \subseteq S
<1> DEFINE Reached == {m \in 0..n : 0..m \subseteq S}
<1>1. Reached \in SUBSET Nat /\ n + 1 \in Nat /\ \A m \in Reached : m < n + 1
  OBVIOUS
<1>2. 0 \in Reached
  OBVIOUS
<1>3. PICK m \in Reached : \A k \in Reached : k <= m
  <2> HIDE DEF Reached
  <2> QED
    BY <1>1, <1>2, GreatestNumber
<1>4. m \in 0..n /\ 0..m \subseteq S
  BY <1>3
<1>5. m < n => m + 1 \in Reached
  <2> SUFFICES ASSUME m < n PROVE m + 1 \in Reached
    OBVIOUS
  <2>1. m \in 0..(n - 1) /\ m \in S
    BY <1>4
  <2>2. m + 1 \in S /\ m + 1 \in 0..n
    BY <2>1
  <2>3. \A k \in 0..(m + 1) : k \in 0..m \/ k = m + 1
    BY <1>4
  <2> QED
    BY <1>4, <2>2, <2>3
<1>6. m = n
  <2> HIDE DEF Reached
  <2> QED
    BY <1>3, <1>4, <1>5
<1> QED
  BY <1>4, <1>6

RowsOf(i, snapshot) == Rows[i, snapshot]

LEMMA RowsType ==
  ASSUME NEW i \in Tables, NEW snapshot \in Snapshots
  PROVE  RowsOf(i, snapshot) \in Nat
BY MapsAssumption, Zenon DEF RowsOf

(* f[i] is the number of rows of the first i tables of a snapshot. *)
Sums(f, n, snapshot) ==
  /\ f \in [0..n -> Nat] /\ f[0] = 0
  /\ \A i \in 1..n : f[i] = f[i - 1] + RowsOf(i, snapshot)

Before(snapshot) == CHOOSE f : Sums(f, TableCount, snapshot)

LEMMA SumsExist ==
  ASSUME NEW snapshot \in Snapshots
  PROVE  Sums(Before(snapshot), TableCount, snapshot)
<1> DEFINE S == {n \in 0..TableCount : \E f : Sums(f, n, snapshot)}
<1>0. TableCount \in Nat
  BY MapsAssumption
<1>1. 0 \in S
  <2>1. Sums([i \in 0..0 |-> 0], 0, snapshot)
    BY DEF Sums
  <2> QED
    BY <1>0, <2>1
<1>2. ASSUME NEW n \in 0..(TableCount - 1), n \in S
      PROVE  n + 1 \in S
  <2>1. PICK f : Sums(f, n, snapshot)
    BY <1>2
  <2> DEFINE g == [i \in 0..(n + 1) |-> IF i = n + 1 THEN f[n] + RowsOf(n + 1, snapshot) ELSE f[i]]
  <2>2. n + 1 \in Tables /\ n \in Nat
    BY <1>0 DEF Tables
  <2>3. RowsOf(n + 1, snapshot) \in Nat /\ f[n] \in Nat
    <3>1. RowsOf(n + 1, snapshot) \in Nat
      BY <2>2, RowsType
    <3>2. f \in [0..n -> Nat] /\ n \in 0..n
      BY <2>1, <2>2 DEF Sums
    <3> QED
      BY <3>1, <3>2
  <2>4. Sums(g, n + 1, snapshot)
    <3>1. \A i \in 0..(n + 1) : i = n + 1 \/ i \in 0..n
      BY <2>2
    <3>0. f \in [0..n -> Nat] /\ f[0] = 0 /\ f[n] + RowsOf(n + 1, snapshot) \in Nat
      BY <2>1, <2>3 DEF Sums
    <3>2. g \in [0..(n + 1) -> Nat]
      BY <3>0, <3>1
    <3>3. g[0] = 0
      <4>1. 0 \in 0..(n + 1) /\ 0 # n + 1
        BY <2>2
      <4> QED
        BY <3>0, <4>1
    <3>4. ASSUME NEW i \in 1..(n + 1)
          PROVE  g[i] = g[i - 1] + RowsOf(i, snapshot)
      <4>1. i - 1 \in 0..n /\ i \in 0..(n + 1) /\ i - 1 \in 0..(n + 1) /\ i - 1 # n + 1
        BY <2>2
      <4>2. g[i - 1] = f[i - 1]
        BY <4>1
      <4>3. CASE i = n + 1
        <5>1. i - 1 = n
          BY <2>2, <4>3
        <5> QED
          BY <4>1, <4>2, <4>3, <5>1
      <4>4. CASE i # n + 1
        <5>1. i \in 1..n /\ g[i] = f[i]
          BY <2>2, <4>1, <4>4
        <5> QED
          BY <2>1, <4>2, <5>1 DEF Sums
      <4> QED
        BY <4>3, <4>4
    <3> HIDE DEF g
    <3> QED
      BY <3>2, <3>3, <3>4 DEF Sums
  <2>5. n + 1 \in 0..TableCount
    BY <1>0
  <2> QED
    BY <2>4, <2>5
<1>3. 0..TableCount \subseteq S
  <2> HIDE DEF S
  <2> QED
    BY <1>0, <1>1, <1>2, Along
<1>4. \E f : Sums(f, TableCount, snapshot)
  BY <1>0, <1>3
<1> QED
  BY <1>4 DEF Before

LEMMA SumsGrow ==
  ASSUME NEW snapshot \in Snapshots, NEW i \in 0..TableCount, NEW j \in i..TableCount
  PROVE  Before(snapshot)[i] <= Before(snapshot)[j]
<1> DEFINE f == Before(snapshot)
           S == {d \in 0..(TableCount - i) : f[i] <= f[i + d]}
<1>a. TableCount \in Nat /\ TableCount - i \in Nat
  BY MapsAssumption
<1>0. /\ f \in [0..TableCount -> Nat]
      /\ \A k \in 1..TableCount : f[k] = f[k - 1] + RowsOf(k, snapshot)
  BY SumsExist DEF Sums
<1> HIDE DEF f
<1>1. 0 \in S
  <2>1. f[i] \in Nat /\ i + 0 = i
    BY <1>0
  <2> QED
    BY <1>a, <2>1
<1>2. ASSUME NEW d \in 0..((TableCount - i) - 1), d \in S
      PROVE  d + 1 \in S
  <2>1. /\ i + (d + 1) \in 1..TableCount /\ (i + (d + 1)) - 1 = i + d
        /\ i + d \in 0..TableCount /\ d + 1 \in 0..(TableCount - i)
    BY <1>a
  <2>2. f[i + (d + 1)] = f[i + d] + RowsOf(i + (d + 1), snapshot)
    BY <1>0, <2>1
  <2>3. f[i] \in Nat /\ f[i + d] \in Nat /\ RowsOf(i + (d + 1), snapshot) \in Nat
    <3>1. i + (d + 1) \in Tables
      BY <2>1 DEF Tables
    <3>2. RowsOf(i + (d + 1), snapshot) \in Nat
      BY <3>1, RowsType
    <3> QED
      BY <1>0, <2>1, <3>2
  <2>4. f[i] <= f[i + d]
    BY <1>2
  <2>5. f[i] <= f[i + (d + 1)]
    BY <2>2, <2>3, <2>4
  <2> QED
    BY <2>1, <2>5
<1>4. 0..(TableCount - i) \subseteq S
  <2> HIDE DEF S
  <2> QED
    BY <1>a, <1>1, <1>2, Along
<1>5. j - i \in 0..(TableCount - i) /\ i + (j - i) = j
  BY <1>a
<1> QED
  BY <1>4, <1>5 DEF f

-----------------------------------------------------------------------------
(* The identities of a snapshot. *)

(* A map that begins where the tables before its own end. *)
Tiled(map) ==
  /\ map.offset = Before(map.snapshot)[map.table - 1]
  /\ map.count = RowsOf(map.table, map.snapshot)
  /\ map.offset + map.count < Invalid

MapsTiled ==
  \A n \in Names, i \in Tables :
     /\ \A v \in gens[n].counts[i] : v = RowsOf(i, gens[n].token[2])
     /\ \A m \in gens[n].slots[i].value : Tiled(m)

LeasesTiled == \A s \in Sessions : \A l \in leases[s] : Tiled(l)

(* A build has summed up the rows of the tables before the next one. *)
BuildsTile ==
  \A s \in Sessions : spc[s] = "count" =>
     /\ table[s] <= Table(s)
     /\ offset[s] = Before(request[s].snapshot)[table[s] - 1]

TileInv == MapsTiled /\ LeasesTiled /\ BuildsTile

(* Maps that are tiled do not overlap. *)
LEMMA TiledApart ==
  ASSUME TypeOK, LeasesTiled
  PROVE  IdentitiesTile
<1> SUFFICES ASSUME NEW l \in Leases, NEW m \in Leases, l.graph = m.graph,
                    l.snapshot = m.snapshot
             PROVE  /\ l.table < m.table => l.offset + l.count <= m.offset
                    /\ l.table = m.table => l = m
                    /\ l.offset + l.count < Invalid
  BY DEF IdentitiesTile
<1>1. l \in Map /\ m \in Map /\ Tiled(l) /\ Tiled(m)
  BY DEF TypeOK, Leases, LeasesTiled
<1> DEFINE f == Before(l.snapshot)
<1>2. /\ TableCount \in Nat /\ f \in [0..TableCount -> Nat]
      /\ \A k \in 1..TableCount : f[k] = f[k - 1] + RowsOf(k, l.snapshot)
  BY <1>1, MapsAssumption, SumsExist DEF Sums, Map
<1>3. l.table \in 1..TableCount /\ m.table \in 1..TableCount
  BY <1>1 DEF Map, Tables
<1>4. l.offset + l.count = f[l.table]
  BY <1>1, <1>2, <1>3 DEF Tiled
<1>5. ASSUME l.table < m.table PROVE l.offset + l.count <= m.offset
  <2>0. TableCount \in Nat
    BY MapsAssumption
  <2>1. l.table \in 0..TableCount /\ m.table - 1 \in l.table..TableCount
    BY <2>0, <1>3, <1>5
  <2>2. f[l.table] <= f[m.table - 1]
    BY <1>1, <2>1, SumsGrow DEF Map
  <2> QED
    BY <1>1, <1>4, <2>2 DEF Tiled
<1>6. ASSUME l.table = m.table PROVE l = m
  <2>1. l.offset = m.offset /\ l.count = m.count
    BY <1>1, <1>6 DEF Tiled
  <2> QED
    BY <1>1, <1>6, <2>1 DEF Map
<1> QED
  BY <1>1, <1>5, <1>6 DEF Tiled

(* What the steps do to counts. *)
LEMMA CountsWithSlot ==
  ASSUME NEW all \in [Names -> GenerationType], NEW m \in Names, NEW i, NEW x
  PROVE  \A n \in Names : WithSlot(all, m, i, x)[n].counts = all[n].counts
<1> DEFINE g == all[m]
           slots == [g.slots EXCEPT ![i] = x]
           h == [g EXCEPT !.slots = slots]
<1>1. g \in GenerationType
  OBVIOUS
<1>2. h.counts = g.counts
  <2> HIDE DEF g, slots
  <2> QED
    BY <1>1 DEF GenerationType
<1>3. WithSlot(all, m, i, x) = [all EXCEPT ![m] = h]
  BY DEF WithSlot
<1> HIDE DEF h
<1> QED
  BY <1>2, <1>3

LEMMA CountsWithCount ==
  ASSUME NEW all \in [Names -> GenerationType], NEW m \in Names, NEW i \in Tables,
         NEW x \in Nat
  PROVE  \A n \in Names, j \in Tables : \A v \in WithCount(all, m, i, x)[n].counts[j] :
            v \in all[n].counts[j] \/ (n = m /\ j = i /\ v = x)
<1> DEFINE g == all[m]
           counts == [g.counts EXCEPT ![i] = {x}]
           h == [g EXCEPT !.counts = counts]
<1>1. g \in GenerationType
  OBVIOUS
<1>2. h.counts = counts
  <2> HIDE DEF g, counts
  <2> QED
    BY <1>1 DEF GenerationType
<1>3. \A j \in Tables : \A v \in counts[j] : v \in g.counts[j] \/ (j = i /\ v = x)
  <2> HIDE DEF g
  <2> QED
    BY <1>1 DEF GenerationType
<1>4. WithCount(all, m, i, x) = [all EXCEPT ![m] = h]
  BY DEF WithCount
<1> HIDE DEF h, counts
<1> QED
  BY <1>2, <1>3, <1>4

(* A step that leaves a session's build alone. *)
SameBuild(t) ==
  /\ spc'[t] = "count" <=> spc[t] = "count"
  /\ table'[t] = table[t] /\ offset'[t] = offset[t] /\ request'[t] = request[t]

(* A step that ends the build of a session, if it has one. *)
LEMMA StepTiles ==
  ASSUME TileInv, NEW s \in Sessions, spc'[s] # "count",
         \A t \in Sessions \ {s} : SameBuild(t), MapsTiled', LeasesTiled'
  PROVE  TileInv'
BY DEF TileInv, BuildsTile, SameBuild, Table

(* A new generation is empty. *)
LEMMA NewTile ==
  ASSUME NEW g, NEW token
  PROVE  \A i \in Tables : /\ Generation(g, token).counts[i] = {}
                           /\ Generation(g, token).slots[i].value = {}
BY DEF Generation, EmptySlot

LEMMA FreedTile ==
  \A i \in Tables : Freed.counts[i] = {} /\ Freed.slots[i].value = {}
BY NewTile DEF Freed

LEMMA InitTile == Init => TileInv
BY FreedTile DEF Init, TileInv, MapsTiled, LeasesTiled, BuildsTile

LEMMA OwnedTile ==
  ASSUME NEW all, NEW cur, NEW holds, gens' = Owned(all, cur, holds),
         \A n \in Names, i \in Tables :
            /\ \A v \in all[n].counts[i] : v = RowsOf(i, all[n].token[2])
            /\ \A m \in all[n].slots[i].value : Tiled(m)
  PROVE  MapsTiled'
<1> SUFFICES ASSUME NEW n \in Names, NEW i \in Tables
             PROVE  /\ \A v \in gens'[n].counts[i] : v = RowsOf(i, gens'[n].token[2])
                    /\ \A m \in gens'[n].slots[i].value : Tiled(m)
  BY Zenon DEF MapsTiled, Tiled
<1>1. gens'[n] = all[n] \/ gens'[n] = Freed
  BY OwnedIs, Zenon
<1> QED
  BY <1>1, FreedTile

LEMMA ChooseNewTile ==
  ASSUME TypeOK, TileInv, NEW s \in Sessions, ChooseNew(s)
  PROVE  TileInv'
<1> DEFINE new == CHOOSE n \in Names : n \notin Reachable(current, held)
           chosen == Generation(Graph(s), Token(s))
           all == [gens EXCEPT ![new] = chosen]
<1>1. new \in Names
  BY FreeName
<1>2. gens' = Owned(all, current', held')
  BY DEF ChooseNew
<1> HIDE DEF new
<1>3. \A i \in Tables : chosen.counts[i] = {} /\ chosen.slots[i].value = {}
  BY NewTile
<1> HIDE DEF chosen
<1>4. \A n \in Names : all[n] = IF n = new THEN chosen ELSE gens[n]
  BY <1>1 DEF TypeOK
<1> HIDE DEF all
<1>5. MapsTiled'
  <2>1. \A n \in Names, i \in Tables :
           /\ \A v \in all[n].counts[i] : v = RowsOf(i, all[n].token[2])
           /\ \A m \in all[n].slots[i].value : Tiled(m)
    BY <1>3, <1>4 DEF TileInv, MapsTiled
  <2> QED
    BY <1>2, <2>1, OwnedTile
<1>6. LeasesTiled'
  BY DEF ChooseNew, TileInv, LeasesTiled, Tiled
<1>7. spc'[s] # "count" /\ \A t \in Sessions \ {s} : SameBuild(t)
  BY DEF ChooseNew, To, TypeOK, SameBuild
<1> QED
  BY <1>5, <1>6, <1>7, StepTiles

LEMMA ReturnTile ==
  ASSUME TypeOK, TileInv, NEW s \in Sessions, Share(s) \/ Notify(s)
  PROVE  TileInv'
<1>1. Return(s) /\ gens' = Owned(gens, current, held')
  BY DEF Share, Notify, Return
<1>2. MapsTiled'
  BY <1>1, OwnedTile DEF TileInv, MapsTiled
<1>3. LeasesTiled'
  <2>1. CASE Share(s)
    <3>1. PICK map \in Slot(s).value : leases' = [leases EXCEPT ![s] = @ \cup {map}]
      BY <2>1 DEF Share
    <3>2. held[s] \in Names /\ Table(s) \in Tables
      BY <2>1, NoneIsNoName DEF Share, TypeOK, Table
    <3>3. Tiled(map)
      BY <3>1, <3>2 DEF TileInv, MapsTiled, Slot
    <3> QED
      BY <3>1, <3>3 DEF TileInv, LeasesTiled, TypeOK
  <2>2. CASE Notify(s)
    BY <2>2 DEF Notify, TileInv, LeasesTiled, Tiled
  <2> QED
    BY <2>1, <2>2
<1>4. spc'[s] # "count" /\ \A t \in Sessions \ {s} : SameBuild(t)
  BY <1>1 DEF Share, Notify, Return, Woken, To, TypeOK, SameBuild
<1> QED
  BY <1>2, <1>3, <1>4, StepTiles

LEMMA ClaimTile ==
  ASSUME TypeOK, TileInv, NEW s \in Sessions, Claim(s)
  PROVE  TileInv'
<1>1. held[s] \in Names /\ Table(s) \in Tables /\ request[s].snapshot \in Snapshots
      /\ gens \in [Names -> GenerationType]
  BY NoneIsNoName DEF TypeOK, Claim, Table
<1>2. \A n \in Names : gens'[n].counts = gens[n].counts
  BY <1>1, CountsWithSlot DEF Claim
<1>3. MapsTiled'
  <2> SUFFICES ASSUME NEW n \in Names, NEW i \in Tables
               PROVE  /\ \A v \in gens'[n].counts[i] : v = RowsOf(i, gens'[n].token[2])
                      /\ \A m \in gens'[n].slots[i].value : Tiled(m)
    BY DEF MapsTiled, Tiled
  <2>1. gens'[n].slots[i].value = {} \/ gens'[n].slots[i] = gens[n].slots[i]
    BY ClaimStep
  <2>2. gens'[n].token = gens[n].token
    BY ClaimStep DEF SameOrigin
  <2> QED
    BY <1>2, <2>1, <2>2 DEF TileInv, MapsTiled
<1>4. LeasesTiled'
  BY DEF Claim, TileInv, LeasesTiled, Tiled
<1>5. BuildsTile'
  <2> SUFFICES ASSUME NEW t \in Sessions, spc'[t] = "count"
               PROVE  /\ table'[t] <= request'[t].table
                      /\ offset'[t] = Before(request'[t].snapshot)[table'[t] - 1]
    BY DEF BuildsTile, Table
  <2>1. CASE t = s
    <3>1. table'[s] = 1 /\ offset'[s] = 0 /\ request' = request
      BY DEF Claim, TypeOK
    <3>2. Before(request[s].snapshot)[0] = 0
      BY <1>1, SumsExist DEF Sums
    <3>3. 1 <= request[s].table
      BY <1>1 DEF Tables, Table
    <3>4. 1 - 1 = 0
      OBVIOUS
    <3> QED
      BY <2>1, <3>1, <3>2, <3>3, <3>4
  <2>2. CASE t # s
    BY <2>2 DEF Claim, To, TypeOK, TileInv, BuildsTile, Table
  <2> QED
    BY <2>1, <2>2
<1> QED
  BY <1>3, <1>4, <1>5 DEF TileInv

LEMMA FailTile ==
  ASSUME TypeOK, TileInv, NEW s \in Sessions, Fail(s)
  PROVE  TileInv'
<1>1. held[s] \in Names /\ gens \in [Names -> GenerationType]
  BY NoneIsNoName DEF TypeOK, Fail
<1>2. \A n \in Names : gens'[n].counts = gens[n].counts
  BY <1>1, CountsWithSlot DEF Fail
<1>3. MapsTiled'
  <2> SUFFICES ASSUME NEW n \in Names, NEW i \in Tables
               PROVE  /\ \A v \in gens'[n].counts[i] : v = RowsOf(i, gens'[n].token[2])
                      /\ \A m \in gens'[n].slots[i].value : Tiled(m)
    BY DEF MapsTiled, Tiled
  <2>1. gens'[n].slots[i].value = gens[n].slots[i].value
    BY FailStep
  <2>2. gens'[n].token = gens[n].token
    BY FailStep DEF SameOrigin
  <2> QED
    BY <1>2, <2>1, <2>2 DEF TileInv, MapsTiled
<1>4. LeasesTiled'
  BY DEF Fail, TileInv, LeasesTiled, Tiled
<1>5. spc'[s] # "count" /\ \A t \in Sessions \ {s} : SameBuild(t)
  BY DEF Fail, To, TypeOK, SameBuild
<1> QED
  BY <1>3, <1>4, <1>5, StepTiles

(* The rows a build counts, or finds counted, are those of the snapshot. *)
LEMMA CountIsRows ==
  ASSUME TypeOK, HeldFits, TileInv, NEW s \in Sessions, spc[s] = "count", NEW i \in Tables
  PROVE  CountOf(s, i) = RowsOf(i, request[s].snapshot)
<1>1. held[s] \in Names /\ gens[held[s]].token[2] = request[s].snapshot
  BY NoneIsNoName DEF TypeOK, HeldFits, WorksOn, Working
<1>2. \A v \in gens[held[s]].counts[i] : v = RowsOf(i, request[s].snapshot)
  BY <1>1 DEF TileInv, MapsTiled
<1>3. CASE gens[held[s]].counts[i] = {}
  BY <1>3 DEF CountOf, RowsOf
<1>4. CASE gens[held[s]].counts[i] # {}
  BY <1>2, <1>4 DEF CountOf
<1> QED
  BY <1>3, <1>4

LEMMA CountSiblingTile ==
  ASSUME TypeOK, HeldFits, TileInv, NEW s \in Sessions, CountSibling(s)
  PROVE  TileInv'
<1> DEFINE n == CountOf(s, table[s])
<1>1. /\ held[s] \in Names /\ table[s] \in Tables /\ Table(s) \in Tables
      /\ request[s].snapshot \in Snapshots /\ spc[s] = "count"
      /\ gens \in [Names -> GenerationType] /\ offset \in [Sessions -> Nat]
  BY NoneIsNoName DEF TypeOK, CountSibling, Table
<1>2. n = RowsOf(table[s], request[s].snapshot)
  BY <1>1, CountIsRows
<1>3. n \in Nat
  BY <1>1, <1>2, RowsType
<1> HIDE DEF n
<1>4. /\ gens' = WithCount(gens, held[s], table[s], n)
      /\ offset' = [offset EXCEPT ![s] = @ + n] /\ table' = [table EXCEPT ![s] = @ + 1]
  BY DEF CountSibling, n
<1>5. gens[held[s]].token[2] = request[s].snapshot
  BY <1>1 DEF HeldFits, WorksOn, Working
<1>6. MapsTiled'
  <2> SUFFICES ASSUME NEW m \in Names, NEW i \in Tables
               PROVE  /\ \A v \in gens'[m].counts[i] : v = RowsOf(i, gens'[m].token[2])
                      /\ \A map \in gens'[m].slots[i].value : Tiled(map)
    BY DEF MapsTiled, Tiled
  <2>1. gens'[m].slots = gens[m].slots /\ gens'[m].token = gens[m].token
    BY CountSiblingStep DEF SameOrigin
  <2>2. \A v \in gens'[m].counts[i] : v \in gens[m].counts[i] \/ (m = held[s] /\ i = table[s] /\ v = n)
    BY <1>1, <1>3, <1>4, CountsWithCount
  <2> QED
    BY <1>2, <1>5, <2>1, <2>2 DEF TileInv, MapsTiled
<1>7. LeasesTiled'
  BY DEF CountSibling, TileInv, LeasesTiled, Tiled
<1>8. BuildsTile'
  <2> SUFFICES ASSUME NEW t \in Sessions, spc'[t] = "count"
               PROVE  /\ table'[t] <= request'[t].table
                      /\ offset'[t] = Before(request'[t].snapshot)[table'[t] - 1]
    BY DEF BuildsTile, Table
  <2>0. request' = request /\ spc' = spc /\ table \in [Sessions -> Tables]
    BY DEF CountSibling, TypeOK
  <2>1. CASE t = s
    <3> DEFINE f == Before(request[s].snapshot)
    <3>1. /\ TableCount \in Nat
          /\ \A k \in 1..TableCount : f[k] = f[k - 1] + RowsOf(k, request[s].snapshot)
      BY <1>1, MapsAssumption, SumsExist DEF Sums
    <3>2. offset[s] = f[table[s] - 1]
      BY <1>1 DEF TileInv, BuildsTile
    <3>3. offset'[s] = offset[s] + n /\ table'[s] = table[s] + 1
      BY <1>1, <1>4, <2>0
    <3> HIDE DEF f
    <3>4. offset'[s] = f[table[s]]
      BY <1>1, <1>2, <3>1, <3>2, <3>3 DEF Tables
    <3>5. table'[s] - 1 = table[s] /\ table'[s] <= Table(s)
      BY <1>1, <3>1, <3>3 DEF CountSibling, MoreSiblings, Tables
    <3> QED
      BY <2>0, <2>1, <3>4, <3>5 DEF f, Table
  <2>2. CASE t # s
    <3>1. table'[t] = table[t] /\ offset'[t] = offset[t]
      BY <1>1, <1>4, <2>0, <2>2
    <3> QED
      BY <2>0, <3>1 DEF TileInv, BuildsTile, Table
  <2> QED
    BY <2>1, <2>2
<1> QED
  BY <1>6, <1>7, <1>8 DEF TileInv

LEMMA PublishTile ==
  ASSUME TypeOK, HeldFits, TileInv, NEW s \in Sessions, Publish(s)
  PROVE  TileInv'
<1> DEFINE n == RowsOf(Table(s), request[s].snapshot)
           map == [graph |-> Graph(s), table |-> Table(s), snapshot |-> request[s].snapshot,
                   offset |-> offset[s], count |-> n]
           counted == WithCount(gens, held[s], Table(s), n)
           built == [building |-> FALSE, value |-> {map}]
<1>1. /\ held[s] \in Names /\ table[s] \in Tables /\ Table(s) \in Tables
      /\ request[s].snapshot \in Snapshots /\ spc[s] = "count"
      /\ gens \in [Names -> GenerationType] /\ offset \in [Sessions -> Nat]
  BY NoneIsNoName DEF TypeOK, Publish, Table
<1>2. n \in Nat
  BY <1>1, RowsType
<1>3. Tiled(map)
  <2>1. table[s] = Table(s) /\ offset[s] = Before(request[s].snapshot)[table[s] - 1]
    <3>1. ~MoreSiblings(s)
      BY DEF Publish
    <3>2. table[s] <= Table(s) /\ offset[s] = Before(request[s].snapshot)[table[s] - 1]
      BY <1>1 DEF TileInv, BuildsTile
    <3> QED
      BY <1>1, <3>1, <3>2, MapsAssumption DEF MoreSiblings, Tables
  <2>2. offset[s] + n < Invalid
    <3>1. Fits(n, offset[s])
      BY DEF Publish, RowsOf
    <3> HIDE DEF n
    <3> QED
      BY <1>1, <1>2, <3>1, MapsAssumption DEF Fits
  <2> HIDE DEF n
  <2>3. /\ map.offset = offset[s] /\ map.snapshot = request[s].snapshot
        /\ map.table = Table(s) /\ map.count = n
    OBVIOUS
  <2> QED
    BY <2>1, <2>2, <2>3 DEF Tiled, n
<1>4. gens' = WithSlot(counted, held[s], Table(s), built)
      /\ leases' = [leases EXCEPT ![s] = @ \cup {map}]
  BY DEF Publish, RowsOf
<1>5. built.value = {map}
  BY DEF built
<1> HIDE DEF map, built
<1>6. gens[held[s]].token[2] = request[s].snapshot
  BY <1>1 DEF HeldFits, WorksOn, Working
<1>7. counted \in [Names -> GenerationType]
  BY <1>1, <1>2, CountChanged
<1>8. \A m \in Names, i \in Tables : \A v \in gens'[m].counts[i] :
         v \in gens[m].counts[i] \/ (m = held[s] /\ i = Table(s) /\ v = n)
  <2>1. \A m \in Names, i \in Tables : \A v \in counted[m].counts[i] :
           v \in gens[m].counts[i] \/ (m = held[s] /\ i = Table(s) /\ v = n)
    <3> HIDE DEF n
    <3> QED
      BY <1>1, <1>2, CountsWithCount
  <2> HIDE DEF counted, n
  <2>2. \A m \in Names : gens'[m].counts = counted[m].counts
    BY <1>1, <1>4, <1>7, CountsWithSlot
  <2> QED
    BY <2>1, <2>2
<1>9. \A m \in Names, i \in Tables : \A v \in gens'[m].slots[i].value : Tiled(v)
  <2>1. \A m \in Names : counted[m].slots = gens[m].slots
    BY <1>1, <1>2, CountChanged
  <2>2. \A m \in Names, i \in Tables : \A v \in counted[m].slots[i].value : Tiled(v)
    BY <2>1 DEF TileInv, MapsTiled
  <2> DEFINE g == counted[held[s]]
             slots == [g.slots EXCEPT ![Table(s)] = built]
             h == [g EXCEPT !.slots = slots]
  <2>3. g \in GenerationType
    BY <1>1, <1>7
  <2>4. gens' = [counted EXCEPT ![held[s]] = h]
    BY <1>4 DEF WithSlot
  <2>5. h.slots = slots
    <3> HIDE DEF g, slots
    <3> QED
      BY <2>3 DEF GenerationType
  <2>6. \A i \in Tables : slots[i] = IF i = Table(s) THEN built ELSE g.slots[i]
    <3> HIDE DEF g
    <3> QED
      BY <2>3 DEF GenerationType
  <2>7. \A m \in Names : gens'[m] = IF m = held[s] THEN h ELSE counted[m]
    <3> HIDE DEF h, counted
    <3> QED
      BY <1>7, <2>4
  <2> HIDE DEF h, counted, slots
  <2> QED
    BY <1>3, <1>5, <2>2, <2>5, <2>6, <2>7
<1>10. MapsTiled'
  <2> SUFFICES ASSUME NEW m \in Names, NEW i \in Tables
               PROVE  /\ \A v \in gens'[m].counts[i] : v = RowsOf(i, gens'[m].token[2])
                      /\ \A v \in gens'[m].slots[i].value : Tiled(v)
    BY DEF MapsTiled, Tiled
  <2>1. gens'[m].token = gens[m].token
    BY PublishStep DEF SameOrigin
  <2> QED
    BY <1>6, <1>8, <1>9, <2>1 DEF TileInv, MapsTiled
<1>11. LeasesTiled'
  <2>1. \A t \in Sessions : \A l \in leases'[t] : l \in leases[t] \/ l = map
    BY <1>4 DEF TypeOK
  <2> QED
    BY <1>3, <2>1 DEF TileInv, LeasesTiled, Tiled
<1>12. spc'[s] # "count" /\ \A t \in Sessions \ {s} : SameBuild(t)
  BY DEF Publish, To, TypeOK, SameBuild
<1> QED
  BY <1>10, <1>11, <1>12, StepTiles

(* The steps that leave the generations alone and make no map. *)
LEMMA OtherTile ==
  ASSUME TypeOK, TileInv, NEW s \in Sessions,
         \/ Bind(s) \/ Identify(s) \/ Reuse(s) \/ Load(s) \/ Refuse(s)
         \/ ChooseCurrent(s) \/ Wait(s) \/ End(s)
  PROVE  TileInv'
<1>1. gens' = gens /\ \A t \in Sessions : leases'[t] \subseteq leases[t]
  BY DEF Bind, Ask, Identify, Reuse, Load, Refuse, ChooseCurrent, Wait, End, TypeOK
<1>2. MapsTiled' /\ LeasesTiled'
  BY <1>1 DEF TileInv, MapsTiled, LeasesTiled, Tiled
<1>3. spc'[s] # "count" /\ \A t \in Sessions \ {s} : SameBuild(t)
  BY DEF Bind, Ask, Identify, Reuse, Load, Refuse, ChooseCurrent, Wait, End, To, TypeOK, SameBuild
<1> QED
  BY <1>2, <1>3, StepTiles

(* The maps of one graph at one snapshot number its tables one after the other below the
   invalid index, whichever sessions built them, from counts of their own or of others:
   two rows never get one __gql_id and a row has the same one in every session. *)
THEOREM IdentitiesAreTiled == Spec => []IdentitiesTile
<1>1. TypeOK /\ AskInv /\ TileInv /\ [Next]_vars => TileInv'
  <2> SUFFICES ASSUME TypeOK, AskInv, TileInv, [Next]_vars PROVE TileInv'
    OBVIOUS
  <2>1. CASE UNCHANGED <<gens, spc, request, table, offset, leases>>
    BY <2>1 DEF TileInv, MapsTiled, LeasesTiled, BuildsTile, Tiled, Table
  <2>2. UNCHANGED vars \/ (\E g \in Graphs : Advance(g))
        => UNCHANGED <<gens, spc, request, table, offset, leases>>
    BY DEF vars, Advance
  <2>3. HeldFits
    BY DEF AskInv
  <2> QED
    BY <2>1, <2>2, <2>3, ChooseNewTile, ReturnTile, ClaimTile, FailTile, CountSiblingTile,
       PublishTile, OtherTile DEF Next, Acquire
<1>2. TypeOK /\ TileInv => IdentitiesTile
  BY TiledApart DEF TileInv
<1> QED
  BY <1>1, <1>2, InitTile, AskAlways, PTL DEF Spec
=============================================================================
