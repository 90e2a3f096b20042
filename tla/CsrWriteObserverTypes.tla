------------------------ MODULE CsrWriteObserverTypes ------------------------
(***************************************************************************)
(* Type correctness of the write side, CsrWriteObserver: lemmas for the    *)
(* proofs about the modules that extend it.                                *)
(***************************************************************************)
EXTENDS CsrWriteObserver, TLAPS

State == [rows : SUBSET Row, version : Nat, destructive : BOOLEAN]

(* The last entry of the log is a state of the table. *)
LEMMA TableIsState ==
    ASSUME LogTypeOK
    PROVE  /\ log \in Seq(State) /\ Len(log) \in Nat \ {0}
           /\ Table \in State
           /\ Table.rows \in SUBSET Row /\ Table.version \in Nat
           /\ Ids(Table.rows) \subseteq 0..(nextRow - 1)
<1>1. log \in Seq(State) /\ Len(log) \in Nat \ {0}
  BY DEF LogTypeOK, State
<1>2. Table \in State
  BY <1>1 DEF Table
<1> QED
  BY <1>1, <1>2 DEF State, LogTypeOK, Table

(* GqlInvalidateTableGraphCache keeps the types of the generations. *)
LEMMA InvalidateTypes ==
    ASSUME LogTypeOK, GenTypeOK, InvalidateCache
    PROVE  dbGen' \in Nat /\ cacheVersion' \in Nat
BY TableIsState DEF InvalidateCache, GenTypeOK

(* Rewriting rows gives rows, under the same ids. *)
LEMMA RewrittenRows ==
    ASSUME NEW rows \in SUBSET Row, NEW kinds, NEW new \in Rewritten(rows, kinds)
    PROVE  new \in SUBSET Row /\ Ids(new) \subseteq Ids(rows)
<1>1. CASE new = rows
  BY <1>1
<1>2. CASE \E r \in rows : new = (rows \ {r}) \cup {<<r[1], r[2] + 1>>}
  <2>1. PICK r \in rows : new = (rows \ {r}) \cup {<<r[1], r[2] + 1>>}
    BY <1>2
  <2>2. r[1] \in Nat /\ r[2] \in Nat
    BY DEF Row
  <2>3. <<r[1], r[2] + 1>> \in Row
    BY <2>2 DEF Row
  <2> QED
    BY <2>1, <2>3 DEF Ids
<1>3. CASE \E r \in rows : new = rows \ {r}
  BY <1>3 DEF Ids
<1> QED
  BY <1>1, <1>2, <1>3 DEF Rewritten

(* So do the steps of DropSavedCsrs, whoever takes them. *)
LEMMA DropTypes ==
    ASSUME ObserverTypeOK, NEW c \in Connections, DropSavedCsrs(c)
    PROVE  ObserverTypeOK'
<1> USE DEF ObserverTypeOK, tableVars, genVars, savedVars, writerVars
<1>1. CASE DropCheck(c)
  BY <1>1 DEF DropCheck, LogTypeOK, GenTypeOK, SavedTypeOK, WriterTypeOK
<1>2. CASE DropSelect(c)
  BY <1>2 DEF DropSelect, LogTypeOK, GenTypeOK, SavedTypeOK, WriterTypeOK
<1>3. CASE DropFoundNone(c)
  BY <1>3 DEF DropFoundNone, LogTypeOK, GenTypeOK, SavedTypeOK, WriterTypeOK
<1>4. CASE DropDelete(c)
  <2>1. dbGen' \in Nat /\ cacheVersion' \in Nat
    BY <1>4, InvalidateTypes DEF DropDelete
  <2> QED
    BY <1>4, <2>1 DEF DropDelete, LogTypeOK, GenTypeOK, SavedTypeOK, WriterTypeOK
<1> QED
  BY <1>1, <1>2, <1>3, <1>4 DEF DropSavedCsrs

(* So do those of a writer: the one that takes an argument is CommitRows, whose new
   log entry has to be a state of the table. *)
LEMMA WriterTypes ==
    ASSUME ObserverTypeOK, NEW w \in Writers, WriterStep(w)
    PROVE  ObserverTypeOK'
<1> USE DEF ObserverTypeOK, tableVars, genVars, savedVars, writerVars
<1>0. w \in Connections
  BY DEF Connections
<1>1. ASSUME NEW k \in Kinds, PlanTableWrite(w, k)
      PROVE  ObserverTypeOK'
  <2>1. GenTypeOK'
    BY <1>1, InvalidateTypes DEF PlanTableWrite, GenTypeOK
  <2>2. SavedTypeOK'
    BY <1>0, <1>1 DEF PlanTableWrite, SavedTypeOK
  <2>3. planned' \in [Writers -> [table : PlannedTables, prepared : BOOLEAN]]
    BY <1>1 DEF PlanTableWrite, PlanTable, PlannedTables, WriterTypeOK
  <2>4. WriterTypeOK'
    BY <1>1, <2>3, ConstantsAssumption
       DEF PlanTableWrite, MayIssue, Issue, WriterTypeOK
  <2> QED
    BY <1>1, <2>1, <2>2, <2>4 DEF PlanTableWrite, LogTypeOK
<1>2. CASE PlanPreparedWrite(w)
  <2>1. GenTypeOK'
    BY <1>2, InvalidateTypes DEF PlanPreparedWrite, GenTypeOK
  <2>2. SavedTypeOK'
    BY <1>0, <1>2 DEF PlanPreparedWrite, SavedTypeOK
  <2>3. planned' \in [Writers -> [table : PlannedTables, prepared : BOOLEAN]]
    BY <1>2 DEF PlanPreparedWrite, WriterTypeOK
  <2>4. "prepared" \in AllKinds
    BY DEF AllKinds
  <2>5. WriterTypeOK'
    BY <1>2, <2>3, <2>4 DEF PlanPreparedWrite, MayIssue, Issue, WriterTypeOK
  <2> QED
    BY <1>2, <2>1, <2>2, <2>5 DEF PlanPreparedWrite, LogTypeOK
<1>3. CASE AppendRows(w)
  <2>1. WriterTypeOK'
    BY <1>3, ConstantsAssumption DEF AppendRows, MayIssue, Issue, WriterTypeOK
  <2> QED
    BY <1>3, <2>1 DEF AppendRows, LogTypeOK, GenTypeOK, SavedTypeOK
<1>4. CASE Rollback(w)
  <2>1. WriterTypeOK'
    BY <1>4 DEF Rollback, Unplanned, PlannedTables, WriterTypeOK
  <2>2. SavedTypeOK'
    BY <1>0, <1>4 DEF Rollback, SavedTypeOK
  <2> QED
    BY <1>4, <2>1, <2>2 DEF Rollback, LogTypeOK, GenTypeOK
<1>5. CASE FlushRows(w)
  <2>1. nextRow' = nextRow + 1 /\ nextRow \in Nat
    BY <1>5 DEF FlushRows, LogTypeOK
  <2>2. 0..(nextRow - 1) \subseteq 0..(nextRow' - 1) /\ nextRow \in 0..(nextRow' - 1)
    BY <2>1
  <2>3. WriterTypeOK'
    BY <1>5, <2>2 DEF FlushRows, WriterTypeOK
  <2>4. LogTypeOK'
    <3>1. log' = log /\ acked' = acked /\ nextRow' \in Nat
      BY <1>5, <2>1 DEF FlushRows
    <3>2. \A k \in 1..Len(log) : Ids(log[k].rows) \subseteq 0..(nextRow' - 1)
      BY <2>2 DEF LogTypeOK
    <3> QED
      BY <3>1, <3>2 DEF LogTypeOK
  <2> QED
    BY <1>5, <2>3, <2>4 DEF FlushRows, GenTypeOK, SavedTypeOK
<1>6. CASE CommitRows(w)
  <2>1. PICK rows \in Rewritten(Table.rows, stmts[w]) :
           log' = Append(log, [rows |-> rows \cup {<<i, 0>> : i \in reserved[w]},
                               version |-> IF "gql_insert" \in stmts[w] THEN Table.version + 1
                                           ELSE Table.version,
                               destructive |-> ~(stmts[w] \subseteq Inserting)])
    BY <1>6 DEF CommitRows
  <2> DEFINE entry == [rows |-> rows \cup {<<i, 0>> : i \in reserved[w]},
                       version |-> IF "gql_insert" \in stmts[w] THEN Table.version + 1
                                   ELSE Table.version,
                       destructive |-> ~(stmts[w] \subseteq Inserting)]
  <2>2. rows \in SUBSET Row /\ Ids(rows) \subseteq 0..(nextRow - 1)
    BY <2>1, TableIsState, RewrittenRows
  <2>3. reserved[w] \subseteq 0..(nextRow - 1)
    BY DEF WriterTypeOK
  <2>4. {<<i, 0>> : i \in reserved[w]} \subseteq Row
    BY <2>3 DEF Row
  <2>5. entry \in State
    BY <2>2, <2>4, TableIsState DEF State
  <2>6. Ids(entry.rows) \subseteq 0..(nextRow - 1)
    BY <2>2, <2>3 DEF Ids
  <2>7. log' = Append(log, entry)
    BY <2>1
  <2> HIDE DEF entry
  <2>8. /\ log' \in Seq(State) /\ Len(log') = Len(log) + 1 /\ Len(log) \in Nat
        /\ \A k \in 1..Len(log) : log'[k] = log[k]
        /\ log'[Len(log) + 1] = entry
    BY <2>5, <2>7, TableIsState
  <2>9. LogTypeOK'
    <3>1. nextRow' = nextRow /\ acked' = acked
      BY <1>6 DEF CommitRows
    <3>2. acked \subseteq 1..Len(log')
      BY <2>8 DEF LogTypeOK
    <3>3. ASSUME NEW k \in 1..Len(log')
          PROVE  Ids(log'[k].rows) \subseteq 0..(nextRow - 1)
      <4>1. k \in 1..Len(log) \/ k = Len(log) + 1
        BY <2>8
      <4> QED
        BY <2>6, <2>8, <4>1 DEF LogTypeOK
    <3> QED
      BY <2>8, <3>1, <3>2, <3>3 DEF LogTypeOK, State
  <2>10. WriterTypeOK'
    BY <1>6, <2>8 DEF CommitRows, WriterTypeOK
  <2> QED
    BY <1>6, <2>9, <2>10 DEF CommitRows, GenTypeOK, SavedTypeOK
<1>7. CASE AdvancePlanned(w)
  <2>1. WriterTypeOK'
    BY <1>7 DEF AdvancePlanned, Unplanned, PlannedTables, WriterTypeOK
  <2>2. GenTypeOK'
    BY <1>7 DEF AdvancePlanned, GenTypeOK
  <2> QED
    BY <1>7, <2>1, <2>2 DEF AdvancePlanned, LogTypeOK, SavedTypeOK
<1>8. CASE InvalidateAfterCommit(w)
  <2>1. GenTypeOK'
    BY <1>8, InvalidateTypes DEF InvalidateAfterCommit, GenTypeOK
  <2>2. commitAt[w] \in 1..Len(log)
    BY <1>8, TableIsState DEF InvalidateAfterCommit, WriterTypeOK
  <2>3. LogTypeOK'
    BY <1>8, <2>2 DEF InvalidateAfterCommit, LogTypeOK
  <2>4. WriterTypeOK'
    BY <1>8, TableIsState DEF InvalidateAfterCommit, WriterTypeOK
  <2> QED
    BY <1>8, <2>1, <2>3, <2>4 DEF InvalidateAfterCommit, SavedTypeOK
<1>9. CASE DropSavedCsrs(w)
  BY <1>0, <1>9, DropTypes
<1> QED
  BY <1>1, <1>2, <1>3, <1>4, <1>5, <1>6, <1>7, <1>8, <1>9 DEF WriterStep, Finishing

(* The types depend on the variables only. *)
LEMMA ObserverSame ==
    ASSUME ObserverTypeOK, UNCHANGED observerVars
    PROVE  ObserverTypeOK'
BY DEF ObserverTypeOK, LogTypeOK, GenTypeOK, SavedTypeOK, WriterTypeOK, observerVars, tableVars,
       genVars, savedVars, writerVars
=============================================================================
