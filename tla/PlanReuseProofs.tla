--------------------------- MODULE PlanReuseProofs ---------------------------
(***************************************************************************)
(* Theorems about PlanReuse, for any number of writers and sessions, any   *)
(* kinds of statements and any bounds: what a bind takes from the cache is *)
(* never behind a change its writer was told of, and a plan is kept only   *)
(* if it saw every such change.                                            *)
(***************************************************************************)
EXTENDS PlanReuse, CsrWriteObserverTypes, FiniteSetTheorems, TLAPS

-----------------------------------------------------------------------------
(* What a writer's step does to what the sessions read. *)

(* The log grows at its end, by a state whose version is not lower. *)
LogGrows ==
    \/ log' = log
    \/ /\ Len(log') = Len(log) + 1
       /\ \A k \in 1..Len(log) : log'[k] = log[k]
       /\ log'[Len(log) + 1].version >= Table.version

(* The cached versions are refused only together with the generation. *)
GenMoves ==
    \/ dbGen' = dbGen /\ cacheVersion' = cacheVersion
    \/ dbGen' = dbGen + 1 /\ cacheVersion' = Table.version

(* A writer is told of a change when the generation has moved. *)
AckMoves ==
    \/ acked' = acked
    \/ /\ log' = log
       /\ \E k \in 1..Len(log) : /\ acked' = acked \cup {k}
                                 /\ Changes(k) => dbGen' = dbGen + 1

LEMMA DropMoves ==
    ASSUME ObserverTypeOK, NEW c \in Connections, DropSavedCsrs(c)
    PROVE  log' = log /\ acked' = acked /\ GenMoves
BY DEF DropSavedCsrs, DropCheck, DropSelect, DropFoundNone, DropDelete, InvalidateCache,
       GenMoves, tableVars, genVars

LEMMA WriterMoves ==
    ASSUME ObserverTypeOK, NEW w \in Writers, WriterStep(w)
    PROVE  LogGrows /\ GenMoves /\ AckMoves
<1> USE DEF ObserverTypeOK, tableVars, genVars
<1>1. ASSUME NEW k \in Kinds, PlanTableWrite(w, k)
      PROVE  LogGrows /\ GenMoves /\ AckMoves
  BY <1>1 DEF PlanTableWrite, InvalidateCache, LogGrows, GenMoves, AckMoves
<1>2. CASE PlanPreparedWrite(w)
  BY <1>2 DEF PlanPreparedWrite, InvalidateCache, LogGrows, GenMoves, AckMoves
<1>3. CASE AppendRows(w) \/ Rollback(w) \/ FlushRows(w) \/ AdvancePlanned(w)
  BY <1>3 DEF AppendRows, Rollback, FlushRows, AdvancePlanned, LogGrows, GenMoves, AckMoves
<1>4. CASE CommitRows(w)
  <2>1. PICK entered : /\ log' = Append(log, entered)
                       /\ entered.version \in {Table.version, Table.version + 1}
    BY <1>4 DEF CommitRows
  <2>2. log \in Seq(State) /\ Len(log) \in Nat /\ Table.version \in Nat
    BY TableIsState
  <2>3. /\ Len(log') = Len(log) + 1
        /\ \A k \in 1..Len(log) : log'[k] = log[k]
        /\ log'[Len(log) + 1] = entered
    BY <2>1, <2>2
  <2>4. LogGrows
    BY <2>1, <2>2, <2>3 DEF LogGrows
  <2> QED
    BY <1>4, <2>4 DEF CommitRows, GenMoves, AckMoves
<1>5. CASE InvalidateAfterCommit(w)
  <2>1. log' = log /\ GenMoves
    BY <1>5 DEF InvalidateAfterCommit, InvalidateCache, GenMoves
  <2>2. commitAt[w] \in 1..Len(log) /\ acked' = acked \cup {commitAt[w]}
    BY <1>5, TableIsState DEF InvalidateAfterCommit, WriterTypeOK
  <2>3. Changes(commitAt[w]) => dbGen' = dbGen + 1
    BY <1>5 DEF InvalidateAfterCommit, InvalidateCache, Modified, Changes
  <2> QED
    BY <2>1, <2>2, <2>3 DEF LogGrows, AckMoves
<1>6. CASE DropSavedCsrs(w)
  <2>1. w \in Connections
    BY DEF Connections
  <2> QED
    BY <1>6, <2>1, DropMoves DEF LogGrows, AckMoves
<1> QED
  BY <1>1, <1>2, <1>3, <1>4, <1>5, <1>6 DEF WriterStep, Finishing

(* Nothing the sessions compare with ever shrinks. *)
LEMMA WriterGrows ==
    ASSUME ObserverTypeOK, ObserverTypeOK', LogGrows, GenMoves, AckMoves
    PROVE  /\ dbGen \in Nat /\ dbGen' \in Nat /\ dbGen <= dbGen'
           /\ Len(log) \in Nat \ {0} /\ Len(log') \in Nat /\ Len(log) <= Len(log')
           /\ acked \subseteq acked' /\ acked \subseteq 1..Len(log)
           /\ \A k \in 1..Len(log) : log'[k] = log[k]
<1>1. dbGen \in Nat /\ dbGen' \in Nat /\ acked \subseteq 1..Len(log)
  BY DEF ObserverTypeOK, GenTypeOK, LogTypeOK
<1>2. Len(log) \in Nat \ {0}
  BY TableIsState DEF ObserverTypeOK
<1> QED
  BY <1>1, <1>2 DEF LogGrows, GenMoves, AckMoves

(* Whether a commit changed anything is settled when it is made. *)
LEMMA ChangesKept ==
    ASSUME Len(log) \in Nat, \A k \in 1..Len(log) : log'[k] = log[k],
           NEW k \in 1..Len(log)
    PROVE  Changes(k)' <=> Changes(k)
<1>1. k > 1 => k - 1 \in 1..Len(log)
  OBVIOUS
<1> QED
  BY <1>1 DEF Changes

-----------------------------------------------------------------------------
(* Types. *)

(* The part of TypeOK about the sessions' own variables. *)
SessionTypeOK ==
    /\ entry \subseteq Entry
    /\ Cardinality(entry) <= 1
    /\ spc \in [Sessions -> Labels]
    /\ captured \in [Sessions -> 0..dbGen]
    /\ binding \in [Sessions -> Binding]
    /\ later \in [Sessions -> BOOLEAN]
    /\ base \in [Sessions -> 1..Len(log)] /\ checked \in [Sessions -> 1..Len(log)]
    /\ settings \in [Sessions -> Settings]
    /\ plan \in [Sessions -> SUBSET Plan]
    /\ \A s \in Sessions : Cardinality(plan[s]) <= 1
    /\ told \in [Sessions -> SUBSET acked]
    /\ kept \in [Sessions -> SUBSET [plan : Plan, settings : Settings, told : SUBSET acked]]
    /\ calls \in [Sessions -> 0..CallLimit]

LEMMA TypeParts == TypeOK <=> ObserverTypeOK /\ SessionTypeOK
BY DEF TypeOK, SessionTypeOK

LEMMA AtMostOne ==
    /\ Cardinality({}) <= 1
    /\ \A x : Cardinality({x}) <= 1
BY FS_EmptySet, FS_Singleton

LEMMA InitTypes == Init => TypeOK
<1> SUFFICES ASSUME Init PROVE TypeOK
  OBVIOUS
<1> USE DEF Init, InitObserver
<1>1. Row = Nat \X Nat /\ InitialRows \in Nat
  BY ConstantsAssumption DEF Row
<1>2. {<<i, 0>> : i \in 0..(InitialRows - 1)} \in SUBSET Row
  BY <1>1
<1>3. Len(log) = 1 /\ Table = log[1] /\ log[1].rows = {<<i, 0>> : i \in 0..(InitialRows - 1)}
  BY DEF Table
<1>4. LogTypeOK
  BY <1>1, <1>2, <1>3 DEF LogTypeOK, Ids
<1>5. GenTypeOK /\ SavedTypeOK
  BY DEF GenTypeOK, SavedTypeOK
<1>6. WriterTypeOK
  BY <1>3 DEF WriterTypeOK, Unplanned, PlannedTables
<1>7. settings \in [Sessions -> Settings]
  BY PlanReuseAssumption
<1>8. \A s \in Sessions : Cardinality(plan[s]) <= 1
  BY AtMostOne
<1>9. SessionTypeOK
  BY <1>3, <1>5, <1>7, <1>8, AtMostOne, PlanReuseAssumption
     DEF SessionTypeOK, GenTypeOK, Labels, NoBinding, Binding
<1> QED
  BY <1>4, <1>5, <1>6, <1>9, TypeParts DEF ObserverTypeOK

LEMMA WriterActsTypes ==
    ASSUME TypeOK, WriterActs
    PROVE  TypeOK' /\ LogGrows /\ GenMoves /\ AckMoves
<1>1. PICK w \in Writers : WriterStep(w)
  BY DEF WriterActs
<1>2. ObserverTypeOK /\ ObserverTypeOK' /\ LogGrows /\ GenMoves /\ AckMoves
  BY <1>1, WriterTypes, WriterMoves, TypeParts
<1>3. /\ dbGen \in Nat /\ dbGen' \in Nat /\ dbGen <= dbGen'
      /\ Len(log) \in Nat \ {0} /\ Len(log') \in Nat /\ Len(log) <= Len(log')
      /\ acked \subseteq acked'
  BY <1>2, WriterGrows
<1>4. /\ 0..dbGen \subseteq 0..dbGen'
      /\ 1..Len(log) \subseteq 1..Len(log')
      /\ SUBSET acked \subseteq SUBSET acked'
  BY <1>3
<1>5. Entry \subseteq Entry'
  BY <1>4 DEF Entry
<1>6. Plan \subseteq Plan'
  BY <1>4 DEF Plan
<1>7. entry' \subseteq Entry' /\ Cardinality(entry') <= 1
  BY <1>5, AtMostOne, TypeParts DEF WriterActs, SessionTypeOK
<1>8. later' \in [Sessions -> BOOLEAN]
  BY TypeParts DEF WriterActs, SessionTypeOK, CommitPasses
<1>9. /\ spc' = spc /\ captured' = captured /\ binding' = binding
      /\ base' = base /\ checked' = checked /\ settings' = settings
      /\ plan' = plan /\ told' = told /\ kept' = kept /\ calls' = calls
  BY DEF WriterActs, loadVars, execVars
<1>10. /\ captured \in [Sessions -> 0..dbGen']
       /\ base \in [Sessions -> 1..Len(log')] /\ checked \in [Sessions -> 1..Len(log')]
       /\ told \in [Sessions -> SUBSET acked']
  BY <1>4, TypeParts DEF SessionTypeOK
<1>11. plan \in [Sessions -> SUBSET Plan']
  BY <1>6, TypeParts DEF SessionTypeOK
<1>12. kept \in [Sessions -> SUBSET [plan : Plan', settings : Settings, told : SUBSET acked']]
  BY <1>4, <1>6, TypeParts DEF SessionTypeOK
<1>13. /\ spc \in [Sessions -> Labels] /\ binding \in [Sessions -> Binding]
       /\ settings \in [Sessions -> Settings] /\ calls \in [Sessions -> 0..CallLimit]
       /\ \A s \in Sessions : Cardinality(plan[s]) <= 1
  BY TypeParts DEF SessionTypeOK
<1>14. SessionTypeOK'
  BY <1>7, <1>8, <1>9, <1>10, <1>11, <1>12, <1>13 DEF SessionTypeOK, Labels, Binding
<1> QED
  BY <1>2, <1>14 DEF TypeOK, SessionTypeOK

(* A session's own steps leave the observer's variables alone. *)
LEMMA SessionStepTypes ==
    ASSUME TypeOK, UNCHANGED observerVars, SessionTypeOK'
    PROVE  TypeOK'
BY ObserverSame DEF TypeOK, SessionTypeOK

(* What a statement's end and its beginning leave behind. *)
LEMMA EndTypes ==
    ASSUME TypeOK, NEW s \in Sessions, End(s), UNCHANGED observerVars
    PROVE  /\ spc' \in [Sessions -> Labels]
           /\ captured' \in [Sessions -> 0..dbGen']
           /\ binding' \in [Sessions -> Binding]
           /\ later' \in [Sessions -> BOOLEAN]
           /\ base' \in [Sessions -> 1..Len(log')] /\ checked' \in [Sessions -> 1..Len(log')]
           /\ told' \in [Sessions -> SUBSET acked']
<1>1. dbGen \in Nat /\ Len(log) \in Nat \ {0}
  BY TableIsState DEF TypeOK, ObserverTypeOK, GenTypeOK
<1>2. dbGen' = dbGen /\ log' = log /\ acked' = acked
  BY DEF observerVars, tableVars, genVars
<1>3. NoBinding \in Binding
  BY DEF NoBinding, Binding
<1> QED
  BY <1>1, <1>2, <1>3 DEF End, To, Labels, TypeOK

LEMMA BeginTypes ==
    ASSUME TypeOK, NEW s \in Sessions, NEW label \in Labels, Begin(s, label),
           UNCHANGED observerVars
    PROVE  /\ spc' \in [Sessions -> Labels]
           /\ later' \in [Sessions -> BOOLEAN]
           /\ base' \in [Sessions -> 1..Len(log')]
           /\ calls' \in [Sessions -> 0..CallLimit]
<1>1. Len(log) \in Nat \ {0} /\ log' = log
  BY TableIsState DEF TypeOK, ObserverTypeOK, observerVars, tableVars
<1>2. calls[s] \in Nat /\ calls[s] + 1 \in 0..CallLimit
  BY PlanReuseAssumption DEF Begin, TypeOK
<1> QED
  BY <1>1, <1>2 DEF Begin, To, Labels, TypeOK

LEMMA SessionTypes ==
    ASSUME TypeOK, NEW s \in Sessions, SessionStep(s)
    PROVE  TypeOK' /\ UNCHANGED observerVars
<1>1. UNCHANGED observerVars
  BY DEF SessionStep, Prepare, BindFromCache, StartLoad, LoadVersion, LoadTables, Store, Track,
         Refuse, Capture, Set, Execute, KeepPlan, Rebind
<1>2. /\ dbGen' = dbGen /\ log' = log /\ acked' = acked
      /\ Entry' = Entry /\ Plan' = Plan
  BY <1>1 DEF observerVars, tableVars, genVars, Entry, Plan
<1>3. /\ dbGen \in Nat /\ Len(log) \in Nat \ {0} /\ Table.version \in Nat
      /\ acked \in SUBSET acked
  BY TableIsState DEF TypeOK, ObserverTypeOK, GenTypeOK
<1>4. SUFFICES SessionTypeOK'
  BY <1>1, SessionStepTypes
<1> USE <1>1, <1>2, <1>3, AtMostOne DEF loadVars, startVars, execVars
<1>5. CASE Prepare(s)
  <2>1. /\ spc' \in [Sessions -> Labels] /\ later' \in [Sessions -> BOOLEAN]
        /\ base' \in [Sessions -> 1..Len(log')] /\ calls' \in [Sessions -> 0..CallLimit]
    BY <1>5, BeginTypes DEF Prepare, Labels
  <2>2. /\ plan' \in [Sessions -> SUBSET Plan] /\ \A t \in Sessions : Cardinality(plan'[t]) <= 1
        /\ kept' \in [Sessions -> SUBSET [plan : Plan, settings : Settings, told : SUBSET acked]]
    BY <1>5 DEF Prepare, TypeOK
  <2>3. UNCHANGED <<entry, captured, binding, checked, settings, told>>
    BY <1>5 DEF Prepare
  <2> QED
    BY <2>1, <2>2, <2>3 DEF SessionTypeOK, TypeOK, Labels, Binding
<1>6. CASE BindFromCache(s)
  <2>1. PICK e \in entry : binding' = [binding EXCEPT ![s] = e.binding]
    BY <1>6 DEF BindFromCache, Usable
  <2>2. binding' \in [Sessions -> Binding]
    BY <2>1 DEF TypeOK, Entry
  <2>3. spc' \in [Sessions -> Labels]
    BY <1>6 DEF BindFromCache, To, TypeOK, Labels
  <2>4. UNCHANGED <<entry, captured, later, base, checked, settings, plan, told, kept, calls>>
    BY <1>6 DEF BindFromCache
  <2> QED
    BY <2>2, <2>3, <2>4 DEF SessionTypeOK, TypeOK, Labels, Binding
<1>7. CASE StartLoad(s)
  <2>1. captured' \in [Sessions -> 0..dbGen] /\ spc' \in [Sessions -> Labels]
    BY <1>7 DEF StartLoad, To, TypeOK, Labels
  <2>2. UNCHANGED <<entry, binding, later, base, checked, settings, plan, told, kept, calls>>
    BY <1>7 DEF StartLoad
  <2> QED
    BY <2>1, <2>2 DEF SessionTypeOK, TypeOK, Labels, Binding
<1>8. CASE LoadVersion(s) \/ LoadTables(s)
  <2>1. binding' \in [Sessions -> Binding]
    <3>1. binding \in [Sessions -> Binding] /\ binding[s] \in Binding
      BY DEF TypeOK
    <3>2. PICK read \in Binding : binding' = [binding EXCEPT ![s] = read]
      <4>1. /\ [binding[s] EXCEPT !.version = Table.version] \in Binding
            /\ [binding[s] EXCEPT !.tables = Table.version] \in Binding
        BY <3>1 DEF Binding
      <4> QED
        BY <1>8, <4>1 DEF LoadVersion, LoadTables
    <3> QED
      BY <3>1, <3>2
  <2>2. spc' \in [Sessions -> Labels] /\ later' \in [Sessions -> BOOLEAN]
    BY <1>8 DEF LoadVersion, LoadTables, CommitPasses, To, TypeOK, Labels
  <2>3. UNCHANGED <<entry, captured, base, checked, settings, plan, told, kept, calls>>
    BY <1>8 DEF LoadVersion, LoadTables
  <2> QED
    BY <2>1, <2>2, <2>3 DEF SessionTypeOK, TypeOK, Labels, Binding
<1>9. CASE Store(s)
  <2>1. [generation |-> LoadedAt(s), binding |-> binding[s]] \in Entry
    BY DEF LoadedAt, TypeOK, Entry
  <2>2. entry' \subseteq Entry /\ Cardinality(entry') <= 1
    BY <1>9, <2>1 DEF Store, Stored, TypeOK
  <2>3. spc' \in [Sessions -> Labels]
    BY <1>9 DEF Store, To, TypeOK, Labels
  <2>4. UNCHANGED <<captured, binding, later, base, checked, settings, plan, told, kept, calls>>
    BY <1>9 DEF Store
  <2> QED
    BY <2>2, <2>3, <2>4 DEF SessionTypeOK, TypeOK, Labels, Binding
<1>10. CASE Track(s)
  <2>1. checked' \in [Sessions -> 1..Len(log)] /\ spc' \in [Sessions -> Labels]
    BY <1>10 DEF Track, To, TypeOK, Labels
  <2>2. UNCHANGED <<entry, captured, binding, later, base, settings, plan, told, kept, calls>>
    BY <1>10 DEF Track
  <2> QED
    BY <2>1, <2>2 DEF SessionTypeOK, TypeOK, Labels, Binding
<1>11. ASSUME End(s), UNCHANGED <<entry, settings, calls>>,
              plan' \in [Sessions -> SUBSET Plan],
              \A t \in Sessions : Cardinality(plan'[t]) <= 1,
              kept' \in [Sessions -> SUBSET [plan : Plan, settings : Settings,
                                             told : SUBSET acked]]
       PROVE  SessionTypeOK'
  <2>1. /\ spc' \in [Sessions -> Labels] /\ captured' \in [Sessions -> 0..dbGen']
        /\ binding' \in [Sessions -> Binding] /\ later' \in [Sessions -> BOOLEAN]
        /\ base' \in [Sessions -> 1..Len(log')] /\ checked' \in [Sessions -> 1..Len(log')]
        /\ told' \in [Sessions -> SUBSET acked']
    BY <1>11, EndTypes
  <2> QED
    BY <1>11, <2>1 DEF SessionTypeOK, TypeOK, Labels, Binding
<1>12. CASE Refuse(s)
  <2>1. End(s) /\ UNCHANGED <<entry, settings, calls, plan, kept>>
    BY <1>12 DEF Refuse
  <2> QED
    BY <1>11, <2>1 DEF TypeOK
<1>13. CASE Capture(s)
  <2>1. [token |-> Token(s), base |-> base[s], slipped |-> {k \in acked : k > checked[s]}] \in Plan
    BY DEF Token, TypeOK, Plan
  <2>2. /\ plan' \in [Sessions -> SUBSET Plan]
        /\ \A t \in Sessions : Cardinality(plan'[t]) <= 1
    BY <1>13, <2>1 DEF Capture, TypeOK
  <2>3. End(s) /\ UNCHANGED <<entry, settings, calls, kept>>
    BY <1>13 DEF Capture
  <2> QED
    BY <1>11, <2>2, <2>3 DEF TypeOK
<1>14. ASSUME NEW value \in Settings, Set(s, value)
       PROVE  SessionTypeOK'
  <2>1. /\ settings' \in [Sessions -> Settings]
        /\ kept' \in [Sessions -> SUBSET [plan : Plan, settings : Settings, told : SUBSET acked]]
    BY <1>14 DEF Set, TypeOK
  <2>2. UNCHANGED <<entry, spc, captured, binding, later, base, checked, plan, told, calls>>
    BY <1>14 DEF Set
  <2> QED
    BY <2>1, <2>2 DEF SessionTypeOK, TypeOK, Labels, Binding
<1>15. CASE Execute(s)
  <2>1. /\ spc' \in [Sessions -> Labels] /\ later' \in [Sessions -> BOOLEAN]
        /\ base' \in [Sessions -> 1..Len(log')] /\ calls' \in [Sessions -> 0..CallLimit]
    BY <1>15, BeginTypes DEF Execute, Labels
  <2>2. /\ told' \in [Sessions -> SUBSET acked]
        /\ kept' \in [Sessions -> SUBSET [plan : Plan, settings : Settings, told : SUBSET acked]]
    BY <1>15 DEF Execute, TypeOK
  <2>3. UNCHANGED <<entry, captured, binding, checked, settings, plan>>
    BY <1>15 DEF Execute
  <2> QED
    BY <2>1, <2>2, <2>3 DEF SessionTypeOK, TypeOK, Labels, Binding
<1>16. CASE KeepPlan(s)
  <2>1. PICK p \in plan[s] : kept' = [kept EXCEPT ![s] = {[plan |-> p, settings |-> settings[s],
                                                          told |-> told[s]]}]
    BY <1>16 DEF KeepPlan
  <2>2. kept' \in [Sessions -> SUBSET [plan : Plan, settings : Settings, told : SUBSET acked]]
    BY <2>1 DEF TypeOK
  <2>3. End(s) /\ UNCHANGED <<entry, settings, calls, plan>>
    BY <1>16 DEF KeepPlan
  <2> QED
    BY <1>11, <2>2, <2>3 DEF TypeOK
<1>17. CASE Rebind(s)
  <2>1. /\ plan' \in [Sessions -> SUBSET Plan]
        /\ \A t \in Sessions : Cardinality(plan'[t]) <= 1
    BY <1>17 DEF Rebind, TypeOK
  <2>2. End(s) /\ UNCHANGED <<entry, settings, calls, kept>>
    BY <1>17 DEF Rebind
  <2> QED
    BY <1>11, <2>1, <2>2 DEF TypeOK
<1> QED
  BY <1>5, <1>6, <1>7, <1>8, <1>9, <1>10, <1>12, <1>13, <1>14, <1>15, <1>16, <1>17
     DEF SessionStep

(* PlanReuse keeps its types: there is at most one entry of the graph, and neither it
   nor a plan is dated after the present (GqlTableGraphCache::Entry). *)
THEOREM PlanTypesKept == Spec => []TypeOK
<1>1. Init => TypeOK
  BY InitTypes
<1>2. TypeOK /\ [Next]_vars => TypeOK'
  <2> SUFFICES ASSUME TypeOK, [Next]_vars PROVE TypeOK'
    OBVIOUS
  <2>1. CASE UNCHANGED vars
    <3>1. UNCHANGED observerVars
      BY <2>1 DEF vars
    <3>2. SessionTypeOK'
      BY <2>1, <3>1 DEF vars, sessionVars, loadVars, startVars, execVars, observerVars,
         tableVars, genVars, TypeOK, SessionTypeOK, Entry, Plan
    <3> QED
      BY <3>1, <3>2, SessionStepTypes
  <2> QED
    BY <2>1, WriterActsTypes, SessionTypes DEF Next
<1> QED
  BY <1>1, <1>2, PTL DEF Spec

-----------------------------------------------------------------------------
(* The inductive invariant. *)

(* graph_version never goes back. *)
VersionsGrow == \A i, j \in 1..Len(log) : i <= j => log[i].version <= log[j].version

(* The version that is refused lies between the acknowledged changes and the table. *)
RefusedBelowTable ==
    /\ cacheVersion <= Table.version
    /\ \A k \in {k \in acked : Changes(k)} : log[k].version <= cacheVersion

(* What has been read since the last invalidation is not older than it. *)
EntryFresh ==
    \A e \in entry : e.generation = dbGen =>
        e.binding.version >= cacheVersion /\ e.binding.tables >= cacheVersion

LoadFresh ==
    \A s \in Sessions : captured[s] = dbGen =>
        /\ spc[s] \in {"tables", "store"} => binding[s].version >= cacheVersion
        /\ spc[s] = "store" => binding[s].tables >= cacheVersion

(* A transaction no commit has passed sees them all; one whose token is being taken
   was such a transaction when the last commit was compared. *)
TransactionSees ==
    \A s \in Sessions :
        /\ spc[s] # "idle" /\ ~later[s] => base[s] = Len(log)
        /\ spc[s] = "token" => base[s] = checked[s]

(* A plan whose token still matches misses no acknowledged change. *)
PlanCovers ==
    \A s \in Sessions : \A p \in plan[s] : p.token.generation = dbGen =>
        \A k \in acked : Changes(k) => k <= p.base \/ k \in p.slipped

CacheInv == VersionsGrow /\ RefusedBelowTable /\ EntryFresh /\ LoadFresh

PlanInv == TransactionSees /\ PlanCovers /\ KeptPlanIsCurrent

-----------------------------------------------------------------------------
(* The cache. *)

LEMMA CacheInit == Init => CacheInv
<1> SUFFICES ASSUME Init PROVE CacheInv
  OBVIOUS
<1>1. Len(log) = 1 /\ log[1].version = 0 /\ Table = log[1]
  BY DEF Init, InitObserver, Table
<1>2. VersionsGrow
  BY <1>1 DEF VersionsGrow
<1>3. RefusedBelowTable
  BY <1>1 DEF RefusedBelowTable, Changes, Init, InitObserver
<1> QED
  BY <1>2, <1>3 DEF CacheInv, EntryFresh, LoadFresh, Init

(* The table's version is the highest there is. *)
LEMMA TableIsNewest ==
    ASSUME TypeOK, VersionsGrow, NEW k \in 1..Len(log)
    PROVE  log[k].version \in Nat /\ Table.version \in Nat /\ log[k].version <= Table.version
<1>1. log \in Seq(State) /\ Len(log) \in Nat \ {0} /\ Table.version \in Nat
  BY TableIsState DEF TypeOK, ObserverTypeOK
<1>2. log[k] \in State /\ k <= Len(log) /\ Len(log) \in 1..Len(log)
  BY <1>1
<1> QED
  BY <1>1, <1>2 DEF VersionsGrow, Table, State

LEMMA CacheWriterActs ==
    ASSUME TypeOK, CacheInv, WriterActs
    PROVE  CacheInv'
<1>1. TypeOK' /\ LogGrows /\ GenMoves /\ AckMoves
  BY WriterActsTypes
<1>2. /\ dbGen \in Nat /\ dbGen' \in Nat
      /\ Len(log) \in Nat \ {0} /\ acked \subseteq 1..Len(log)
      /\ \A k \in 1..Len(log) : log'[k] = log[k]
  BY <1>1, WriterGrows DEF TypeOK
<1>3. /\ Table.version \in Nat /\ cacheVersion \in Nat
      /\ \A k \in 1..Len(log) : log[k].version \in Nat /\ log[k].version <= Table.version
  <2>1. Table.version \in Nat /\ cacheVersion \in Nat
    BY TableIsState DEF TypeOK, ObserverTypeOK, GenTypeOK
  <2> QED
    BY <2>1, TableIsNewest DEF CacheInv
<1>4. Table'.version \in Nat /\ Table.version <= Table'.version
  <2>1. Table'.version \in Nat
    <3>1. log' \in Seq(State) /\ log' # <<>>
      BY <1>1 DEF TypeOK, ObserverTypeOK, LogTypeOK, State
    <3>2. log'[Len(log')] \in State
      BY <3>1
    <3> QED
      BY <3>2 DEF Table, State
  <2> QED
    BY <1>1, <1>3, <2>1 DEF LogGrows, Table
<1>5. VersionsGrow'
  <2> SUFFICES ASSUME NEW i \in 1..Len(log'), NEW j \in 1..Len(log'), i <= j
               PROVE  log'[i].version <= log'[j].version
    BY DEF VersionsGrow
  <2>1. CASE log' = log
    BY <2>1 DEF CacheInv, VersionsGrow
  <2>2. CASE Len(log') = Len(log) + 1 /\ log'[Len(log) + 1].version >= Table.version
    <3>1. CASE j \in 1..Len(log)
      <4>1. i \in 1..Len(log)
        BY <1>2, <3>1
      <4> QED
        BY <1>2, <3>1, <4>1 DEF CacheInv, VersionsGrow
    <3>2. CASE j = Len(log) + 1
      <4>1. log'[j].version \in Nat
        BY <1>4, <2>2, <3>2 DEF Table
      <4>2. i \in 1..Len(log) \/ i = j
        BY <1>2, <2>2, <3>2
      <4> QED
        BY <1>2, <1>3, <2>2, <3>2, <4>1, <4>2
    <3> QED
      BY <1>2, <2>2, <3>1, <3>2
  <2> QED
    BY <1>1, <2>1, <2>2 DEF LogGrows
<1>6. RefusedBelowTable'
  <2>1. cacheVersion' <= Table'.version /\ cacheVersion <= cacheVersion' /\ cacheVersion' \in Nat
    BY <1>1, <1>3, <1>4 DEF CacheInv, RefusedBelowTable, GenMoves
  <2>2. ASSUME NEW k \in acked', Changes(k)'
        PROVE  log'[k].version <= cacheVersion'
    <3>1. CASE k \in acked
      <4>1. k \in 1..Len(log) /\ Changes(k) /\ log'[k] = log[k]
        BY <1>2, <2>2, <3>1, ChangesKept
      <4> QED
        BY <1>3, <2>1, <3>1, <4>1 DEF CacheInv, RefusedBelowTable
    <3>2. CASE k \notin acked
      <4>1. log' = log /\ k \in 1..Len(log) /\ (Changes(k) => dbGen' = dbGen + 1)
        BY <1>1, <2>2, <3>2 DEF AckMoves
      <4>2. Changes(k)
        BY <2>2, <4>1 DEF Changes
      <4>3. cacheVersion' = Table.version
        BY <1>1, <1>2, <4>1, <4>2 DEF GenMoves
      <4> QED
        BY <1>3, <4>1, <4>3
    <3> QED
      BY <3>1, <3>2
  <2> QED
    BY <2>1, <2>2 DEF RefusedBelowTable
<1>7. CASE dbGen' = dbGen
  <2>1. cacheVersion' = cacheVersion /\ entry' = entry
    BY <1>1, <1>2, <1>7 DEF GenMoves, WriterActs
  <2>2. EntryFresh' /\ LoadFresh'
    BY <1>7, <2>1 DEF CacheInv, EntryFresh, LoadFresh, WriterActs, loadVars
  <2> QED
    BY <1>5, <1>6, <2>2 DEF CacheInv
<1>8. CASE dbGen' # dbGen
  <2>1. entry' = {} /\ dbGen' = dbGen + 1
    BY <1>1, <1>8 DEF GenMoves, WriterActs
  <2>2. \A s \in Sessions : captured'[s] # dbGen'
    BY <1>2, <2>1 DEF WriterActs, loadVars, TypeOK
  <2> QED
    BY <1>5, <1>6, <2>1, <2>2 DEF CacheInv, EntryFresh, LoadFresh
<1> QED
  BY <1>7, <1>8

LEMMA CacheSessionStep ==
    ASSUME TypeOK, CacheInv, NEW s \in Sessions, SessionStep(s)
    PROVE  CacheInv'
<1>1. /\ UNCHANGED observerVars
      /\ log' = log /\ acked' = acked /\ dbGen' = dbGen /\ cacheVersion' = cacheVersion
  BY SessionTypes DEF observerVars, tableVars, genVars
<1>2. VersionsGrow' /\ RefusedBelowTable'
  BY <1>1 DEF CacheInv, VersionsGrow, RefusedBelowTable, Changes, Table
<1>3. Table.version \in Nat /\ cacheVersion \in Nat /\ cacheVersion <= Table.version
  BY TableIsState DEF CacheInv, RefusedBelowTable, TypeOK, ObserverTypeOK, GenTypeOK
<1>4. SUFFICES EntryFresh' /\ LoadFresh'
  BY <1>2 DEF CacheInv
<1> USE DEF loadVars, startVars, execVars
<1>5. ASSUME entry' = entry,
             \A t \in Sessions \ {s} : /\ spc'[t] = spc[t] /\ captured'[t] = captured[t]
                                       /\ binding'[t] = binding[t],
             spc'[s] \notin {"tables", "store"}
      PROVE  EntryFresh' /\ LoadFresh'
  BY <1>1, <1>5 DEF CacheInv, EntryFresh, LoadFresh
<1>6. ASSUME End(s), entry' = entry
      PROVE  EntryFresh' /\ LoadFresh'
  BY <1>5, <1>6 DEF End, To, TypeOK
<1>7. CASE Refuse(s) \/ Capture(s) \/ KeepPlan(s) \/ Rebind(s)
  BY <1>6, <1>7 DEF Refuse, Capture, KeepPlan, Rebind
<1>8. CASE Prepare(s) \/ Execute(s) \/ BindFromCache(s) \/ StartLoad(s) \/ Track(s)
  <2>1. entry' = entry
    BY <1>8 DEF Prepare, Execute, BindFromCache, StartLoad, Track
  <2>2. \A t \in Sessions \ {s} : /\ spc'[t] = spc[t] /\ captured'[t] = captured[t]
                                  /\ binding'[t] = binding[t]
    BY <1>8 DEF Prepare, Execute, BindFromCache, StartLoad, Track, Begin, To, TypeOK
  <2>3. spc'[s] \notin {"tables", "store"}
    <3>1. CASE Prepare(s)
      BY <3>1 DEF Prepare, Begin, To, TypeOK
    <3>2. CASE Execute(s)
      BY <3>2 DEF Execute, Begin, To, TypeOK
    <3>3. CASE BindFromCache(s) \/ StartLoad(s) \/ Track(s)
      BY <3>3 DEF BindFromCache, StartLoad, Track, To, TypeOK
    <3> QED
      BY <1>8, <3>1, <3>2, <3>3
  <2> QED
    BY <1>5, <2>1, <2>2, <2>3
<1>9. ASSUME NEW value \in Settings, Set(s, value)
      PROVE  EntryFresh' /\ LoadFresh'
  BY <1>1, <1>9 DEF Set, CacheInv, EntryFresh, LoadFresh
<1>10. CASE LoadVersion(s) \/ LoadTables(s)
  <2>1. entry' = entry /\ captured' = captured
    BY <1>10 DEF LoadVersion, LoadTables
  <2>2. \A t \in Sessions \ {s} : spc'[t] = spc[t] /\ binding'[t] = binding[t]
    BY <1>10 DEF LoadVersion, LoadTables, To, TypeOK
  <2>3. binding \in [Sessions -> Binding] /\ spc \in [Sessions -> Labels]
    BY DEF TypeOK
  <2>4. captured'[s] = dbGen' /\ spc'[s] \in {"tables", "store"} =>
            binding'[s].version >= cacheVersion'
    <3>1. CASE LoadVersion(s)
      <4>1. binding'[s].version = Table.version
        BY <2>3, <3>1 DEF LoadVersion, Binding
      <4> QED
        BY <1>1, <1>3, <4>1
    <3>2. CASE LoadTables(s)
      <4>1. binding'[s].version = binding[s].version /\ spc[s] = "tables"
        BY <2>3, <3>2 DEF LoadTables, Binding
      <4> QED
        BY <1>1, <2>1, <4>1 DEF CacheInv, LoadFresh
    <3> QED
      BY <1>10, <3>1, <3>2
  <2>5. captured'[s] = dbGen' /\ spc'[s] = "store" => binding'[s].tables >= cacheVersion'
    <3>1. CASE LoadVersion(s)
      BY <2>3, <3>1 DEF LoadVersion, To
    <3>2. CASE LoadTables(s)
      <4>1. binding'[s].tables = Table.version
        BY <2>3, <3>2 DEF LoadTables, Binding
      <4> QED
        BY <1>1, <1>3, <4>1
    <3> QED
      BY <1>10, <3>1, <3>2
  <2> QED
    BY <1>1, <2>1, <2>2, <2>4, <2>5 DEF CacheInv, EntryFresh, LoadFresh
<1>11. CASE Store(s)
  <2>1. \A t \in Sessions \ {s} : spc'[t] = spc[t]
    BY <1>11 DEF Store, To, TypeOK
  <2>2. captured' = captured /\ binding' = binding /\ spc'[s] = "optimize"
    BY <1>11 DEF Store, To, TypeOK
  <2>3. LoadFresh'
    BY <1>1, <2>1, <2>2 DEF CacheInv, LoadFresh
  <2>4. EntryFresh'
    BY <1>1, <1>11 DEF CacheInv, EntryFresh, LoadFresh, Store, Stored, LoadedAt
  <2> QED
    BY <2>3, <2>4
<1> QED
  BY <1>7, <1>8, <1>9, <1>10, <1>11 DEF SessionStep

(* A bind never takes from the cache what is older than a change whose writer was told
   of its commit, whatever loads and invalidations interleave (FindCachedTableGraph,
   GqlTryLoadTableGraph). *)
THEOREM CacheCoversCommits == Spec => []CacheNeverBehind
<1>1. Init => TypeOK /\ CacheInv
  BY InitTypes, CacheInit
<1>2. TypeOK /\ CacheInv /\ TypeOK' /\ [Next]_vars => CacheInv'
  <2> SUFFICES ASSUME TypeOK, CacheInv, [Next]_vars PROVE CacheInv'
    OBVIOUS
  <2>1. CASE UNCHANGED vars
    BY <2>1 DEF vars, sessionVars, loadVars, observerVars, tableVars, genVars, CacheInv,
       VersionsGrow, RefusedBelowTable, EntryFresh, LoadFresh, Table, Changes
  <2> QED
    BY <2>1, CacheWriterActs, CacheSessionStep DEF Next
<1>3. TypeOK /\ CacheInv => CacheNeverBehind
  <2> SUFFICES ASSUME TypeOK, CacheInv, NEW e \in Usable
               PROVE  /\ e.binding.version >= cacheVersion /\ e.binding.tables >= cacheVersion
                      /\ \A k \in {k \in acked : Changes(k)} :
                             /\ e.binding.version >= log[k].version
                             /\ e.binding.tables >= log[k].version
    BY DEF CacheNeverBehind
  <2>1. /\ e.binding.version >= cacheVersion /\ e.binding.tables >= cacheVersion
        /\ e.binding.version \in Nat /\ e.binding.tables \in Nat /\ cacheVersion \in Nat
    BY DEF Usable, CacheInv, EntryFresh, TypeOK, ObserverTypeOK, GenTypeOK, Entry, Binding
  <2>2. \A k \in acked : log[k].version \in Nat
    BY TableIsNewest DEF CacheInv, TypeOK, ObserverTypeOK, LogTypeOK
  <2> QED
    BY <2>1, <2>2 DEF CacheInv, RefusedBelowTable
<1> QED
  BY <1>1, <1>2, <1>3, PlanTypesKept, PTL DEF Spec

-----------------------------------------------------------------------------
(* The plans. *)

LEMMA PlanInit == Init => PlanInv
BY DEF Init, PlanInv, TransactionSees, PlanCovers, KeptPlanIsCurrent

LEMMA PlanWriterActs ==
    ASSUME TypeOK, PlanInv, WriterActs
    PROVE  PlanInv'
<1>1. LogGrows /\ GenMoves /\ AckMoves /\ TypeOK'
  BY WriterActsTypes
<1>2. /\ dbGen \in Nat /\ dbGen' \in Nat
      /\ Len(log) \in Nat \ {0} /\ acked \subseteq 1..Len(log)
      /\ \A k \in 1..Len(log) : log'[k] = log[k]
  BY <1>1, WriterGrows DEF TypeOK
<1>3. \A k \in acked : Changes(k)' <=> Changes(k)
  BY <1>2, ChangesKept
<1>4. /\ spc' = spc /\ base' = base /\ checked' = checked
      /\ plan' = plan /\ kept' = kept
  BY DEF WriterActs, execVars
<1>5. TransactionSees'
  <2>1. CASE log' = log
    BY <1>4, <2>1 DEF PlanInv, TransactionSees, WriterActs
  <2>2. CASE log' # log
    <3>1. \A s \in Sessions : spc[s] # "idle" => later'[s]
      BY <2>2 DEF WriterActs, CommitPasses
    <3> QED
      BY <1>4, <3>1 DEF PlanInv, TransactionSees
  <2> QED
    BY <2>1, <2>2
<1>6. PlanCovers'
  <2> SUFFICES ASSUME NEW s \in Sessions, NEW p \in plan[s], p.token.generation = dbGen',
                      NEW k \in acked', Changes(k)'
               PROVE  k <= p.base \/ k \in p.slipped
    BY <1>4 DEF PlanCovers
  <2>1. p.token.generation \in 0..dbGen
    BY DEF TypeOK, Plan
  <2>2. dbGen' = dbGen
    BY <1>1, <1>2, <2>1 DEF GenMoves
  <2>3. CASE k \in acked
    BY <1>3, <2>2, <2>3 DEF PlanInv, PlanCovers
  <2>4. CASE k \notin acked
    <3>1. log' = log /\ ~Changes(k)
      BY <1>1, <1>2, <2>2, <2>4 DEF AckMoves
    <3> QED
      BY <3>1 DEF Changes
  <2> QED
    BY <2>3, <2>4
<1>7. KeptPlanIsCurrent'
  <2> SUFFICES ASSUME NEW s \in Sessions, NEW x \in kept[s]
               PROVE  /\ x.plan.token.settings = x.settings
                      /\ \A k \in x.told : Changes(k)' => k <= x.plan.base \/ k \in x.plan.slipped
    BY <1>4 DEF KeptPlanIsCurrent
  <2>1. x.told \subseteq acked
    BY DEF TypeOK
  <2> QED
    BY <1>3, <2>1 DEF PlanInv, KeptPlanIsCurrent
<1> QED
  BY <1>5, <1>6, <1>7 DEF PlanInv

LEMMA PlanSessionStep ==
    ASSUME TypeOK, PlanInv, NEW s \in Sessions, SessionStep(s)
    PROVE  PlanInv'
<1>1. log' = log /\ acked' = acked /\ dbGen' = dbGen
  BY SessionTypes DEF observerVars, tableVars, genVars
<1>2. \A k : Changes(k)' <=> Changes(k)
  BY <1>1 DEF Changes
<1> USE DEF loadVars, startVars, execVars
<1>3. ASSUME NEW label \in {"bind", "execute"}, Begin(s, label), checked' = checked
      PROVE  TransactionSees'
  BY <1>1, <1>3 DEF Begin, To, TypeOK, PlanInv, TransactionSees
<1>4. ASSUME End(s)
      PROVE  TransactionSees'
  BY <1>1, <1>4 DEF End, To, TypeOK, PlanInv, TransactionSees
<1>5. ASSUME \A t \in Sessions : plan'[t] \subseteq plan[t]
      PROVE  PlanCovers'
  BY <1>1, <1>2, <1>5 DEF PlanInv, PlanCovers
<1>6. ASSUME \A t \in Sessions : kept'[t] \subseteq kept[t]
      PROVE  KeptPlanIsCurrent'
  BY <1>2, <1>6 DEF PlanInv, KeptPlanIsCurrent
<1>7. CASE Prepare(s) \/ Execute(s)
  <2>1. TransactionSees'
    BY <1>3, <1>7 DEF Prepare, Execute
  <2>2. \A t \in Sessions : plan'[t] \subseteq plan[t] /\ kept'[t] \subseteq kept[t]
    BY <1>7 DEF Prepare, Execute, TypeOK
  <2> QED
    BY <1>5, <1>6, <2>1, <2>2 DEF PlanInv
<1>8. CASE BindFromCache(s) \/ StartLoad(s) \/ Store(s)
  <2>1. UNCHANGED <<later, base, checked, plan, kept>>
    BY <1>8 DEF BindFromCache, StartLoad, Store
  <2>2. /\ spc[s] # "idle" /\ spc'[s] # "token"
        /\ \A t \in Sessions \ {s} : spc'[t] = spc[t]
    BY <1>8 DEF BindFromCache, StartLoad, Store, To, TypeOK
  <2>3. TransactionSees'
    BY <1>1, <2>1, <2>2 DEF PlanInv, TransactionSees
  <2> QED
    BY <1>5, <1>6, <2>1, <2>3 DEF PlanInv
<1>9. CASE LoadVersion(s) \/ LoadTables(s)
  <2>1. UNCHANGED <<base, checked, plan, kept>>
    BY <1>9 DEF LoadVersion, LoadTables
  <2>2. /\ spc[s] # "idle" /\ spc'[s] # "token"
        /\ \A t \in Sessions \ {s} : spc'[t] = spc[t]
    BY <1>9 DEF LoadVersion, LoadTables, To, TypeOK
  <2>3. \A t \in Sessions : spc[t] # "idle" => later'[t]
    BY <1>9 DEF LoadVersion, LoadTables, CommitPasses
  <2>4. TransactionSees'
    BY <2>1, <2>2, <2>3 DEF PlanInv, TransactionSees
  <2> QED
    BY <1>5, <1>6, <2>1, <2>4 DEF PlanInv
<1>10. CASE Track(s)
  <2>1. UNCHANGED <<later, base, plan, kept>>
    BY <1>10 DEF Track
  <2>2. spc[s] # "idle" /\ ~later[s] /\ checked'[s] = Len(log)
    BY <1>10 DEF Track, SeesLastCommit, TypeOK
  <2>3. \A t \in Sessions \ {s} : spc'[t] = spc[t] /\ checked'[t] = checked[t]
    BY <1>10 DEF Track, To, TypeOK
  <2>4. TransactionSees'
    BY <1>1, <2>1, <2>2, <2>3 DEF PlanInv, TransactionSees
  <2> QED
    BY <1>5, <1>6, <2>1, <2>4 DEF PlanInv
<1>11. CASE Refuse(s) \/ Rebind(s)
  <2>1. /\ End(s) /\ kept' = kept
        /\ \A t \in Sessions : plan'[t] \subseteq plan[t]
    BY <1>11 DEF Refuse, Rebind, TypeOK
  <2> QED
    BY <1>4, <1>5, <1>6, <2>1 DEF PlanInv
<1>12. CASE Capture(s)
  <2> DEFINE captive == [token |-> Token(s), base |-> base[s],
                         slipped |-> {k \in acked : k > checked[s]}]
  <2>1. /\ End(s) /\ kept' = kept /\ base[s] = checked[s]
        /\ plan' = [plan EXCEPT ![s] = {captive}]
    BY <1>12 DEF Capture, PlanInv, TransactionSees
  <2>2. \A k \in acked : k <= captive.base \/ k \in captive.slipped
    <3>1. base[s] \in Nat /\ \A k \in acked : k \in Nat
      BY DEF TypeOK, ObserverTypeOK, LogTypeOK
    <3> QED
      BY <2>1, <3>1
  <2>3. PlanCovers'
    <3> SUFFICES ASSUME NEW t \in Sessions, NEW p \in plan'[t], p.token.generation = dbGen,
                        NEW k \in acked, Changes(k)
                 PROVE  k <= p.base \/ k \in p.slipped
      BY <1>1, <1>2 DEF PlanCovers
    <3>1. p = captive \/ p \in plan[t]
      BY <2>1 DEF TypeOK
    <3> QED
      BY <2>2, <3>1 DEF PlanInv, PlanCovers
  <2> QED
    BY <1>4, <1>6, <2>1, <2>3 DEF PlanInv
<1>13. ASSUME NEW value \in Settings, Set(s, value)
       PROVE  PlanInv'
  <2>1. UNCHANGED <<spc, later, base, checked, plan>>
    BY <1>13 DEF Set
  <2>2. \A t \in Sessions : kept'[t] \subseteq kept[t]
    BY <1>13 DEF Set, TypeOK
  <2>3. TransactionSees'
    BY <1>1, <2>1 DEF PlanInv, TransactionSees
  <2> QED
    BY <1>5, <1>6, <2>1, <2>2, <2>3 DEF PlanInv
<1>14. CASE KeepPlan(s)
  <2>1. PICK p \in plan[s] :
           /\ SameToken(s, p)
           /\ kept' = [kept EXCEPT ![s] = {[plan |-> p, settings |-> settings[s],
                                            told |-> told[s]]}]
    BY <1>14 DEF KeepPlan
  <2>2. End(s) /\ plan' = plan
    BY <1>14 DEF KeepPlan
  <2>3. p.token.generation = dbGen /\ p.token.settings = settings[s] /\ told[s] \subseteq acked
    BY <2>1 DEF SameToken, Token, TypeOK
  <2>4. \A k \in told[s] : Changes(k) => k <= p.base \/ k \in p.slipped
    BY <2>3 DEF PlanInv, PlanCovers
  <2>5. KeptPlanIsCurrent'
    <3> SUFFICES ASSUME NEW t \in Sessions, NEW x \in kept'[t]
                 PROVE  /\ x.plan.token.settings = x.settings
                        /\ \A k \in x.told : Changes(k) => k <= x.plan.base \/ k \in x.plan.slipped
      BY <1>2 DEF KeptPlanIsCurrent
    <3>1. \/ x = [plan |-> p, settings |-> settings[s], told |-> told[s]]
          \/ x \in kept[t]
      BY <2>1 DEF TypeOK
    <3> QED
      BY <2>3, <2>4, <3>1 DEF PlanInv, KeptPlanIsCurrent
  <2> QED
    BY <1>4, <1>5, <2>2, <2>5 DEF PlanInv
<1> QED
  BY <1>7, <1>8, <1>9, <1>10, <1>11, <1>12, <1>13, <1>14 DEF SessionStep

(* EXECUTE keeps a plan only if it was bound under the session's settings and its
   transaction saw every change acknowledged before the EXECUTE began, but for those
   that slipped in while its token was taken (OnRebindPreparedStatement). *)
THEOREM KeptPlansAreCurrent == Spec => []KeptPlanIsCurrent
<1>1. Init => PlanInv
  BY PlanInit
<1>2. TypeOK /\ PlanInv /\ [Next]_vars => PlanInv'
  <2> SUFFICES ASSUME TypeOK, PlanInv, [Next]_vars PROVE PlanInv'
    OBVIOUS
  <2>1. CASE UNCHANGED vars
    BY <2>1 DEF vars, sessionVars, startVars, execVars, observerVars, tableVars, genVars,
       PlanInv, TransactionSees, PlanCovers, KeptPlanIsCurrent, Changes
  <2> QED
    BY <2>1, PlanWriterActs, PlanSessionStep DEF Next
<1>3. PlanInv => KeptPlanIsCurrent
  BY DEF PlanInv
<1> QED
  BY <1>1, <1>2, <1>3, PlanTypesKept, PTL DEF Spec
=============================================================================
