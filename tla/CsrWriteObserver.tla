-------------------------- MODULE CsrWriteObserver --------------------------
(***************************************************************************)
(* The write side of the derived graph storage: how a transaction that     *)
(* writes the tables of one managed graph announces itself to the readers  *)
(* of its CSR projection.                                                  *)
(*                                                                         *)
(* A write is announced twice.  While its statement is planned, the        *)
(* planner extension advances the generations of the tables it writes and, *)
(* when it may do more than insert, deletes the saved CSR (gql_extension.  *)
(* cpp, GqlNotifyCsrTableWritePlanned).  After its data is committed,      *)
(* GqlCsrWriteObserverState::TransactionCommit advances the generations    *)
(* again and then the database's write generation.  Between those steps    *)
(* other connections run.                                                  *)
(*                                                                         *)
(* The vertex and the edge table of the graph are one table here: every    *)
(* step of the code treats the pair alike.  DuckDB itself (transactions,   *)
(* row ids, durability) is external and modelled by what the code assumes. *)
(***************************************************************************)
EXTENDS Integers, Sequences, FiniteSets

CONSTANTS
    Writers,          \* connections that write the graph's tables
    Sessions,         \* connections that query the graph
    Kinds,            \* the kinds of write statement they issue
    TransactionLimit, \* transactions each writer may open
    StatementLimit,   \* statements in one transaction
    InitialRows       \* rows of the graph's table before anything runs

AllKinds == {"gql_insert", "sql_insert", "update", "delete", "prepared", "appender"}

ASSUME ConstantsAssumption ==
    /\ Writers \cap Sessions = {}
    /\ Kinds \subseteq AllKinds
    /\ TransactionLimit \in Nat
    /\ StatementLimit \in Nat
    /\ InitialRows \in Nat

VARIABLES
    log,          \* the committed states of the graph, oldest first
    nextRow,      \* the next row id DuckDB gives out
    acked,        \* the log entries whose writers were told of the commit
    writeGen,     \* write_generation: prepared writes, to any table
    tableGen,     \* table_write_generations of the graph's tables
    destrGen,     \* table_destructive_generations of the graph's tables
    dbGen,        \* GqlTableGraphCache::generation, GqlDatabaseWriteGeneration
    cacheVersion, \* the graph version when dbGen last advanced
    savedKnown,   \* saved_csr_known
    savedExists,  \* saved_csr_exists
    saved,        \* the graph's row of csr_snapshots and its pages: {} or {copy}
    drop,         \* where a connection stands in DropSavedCsrs, "no" outside
    wpc,          \* where a writer's transaction stands
    stmts,        \* the statements of the open transaction
    planned,      \* planned_table_writes and planned_prepared_write
    reserved,     \* row ids its appended rows were given, before the commit
    commitAt,     \* the log entry the transaction committed as
    transactions  \* transactions opened so far

tableVars  == <<log, nextRow, acked>>
genVars    == <<writeGen, tableGen, destrGen, dbGen, cacheVersion>>
savedVars  == <<savedKnown, savedExists, saved>>
writerVars == <<wpc, stmts, planned, reserved, commitAt, transactions>>
observerVars == <<tableVars, genVars, savedVars, writerVars, drop>>

Connections == Writers \cup Sessions

Inserting   == {"gql_insert", "sql_insert", "appender"}
InsertsOnly == {"gql_insert", "sql_insert"}

(* planned_table_writes holds no entry for the table, one whose writes only
   insert, or one with a write that may do more. *)
Unplanned == [table |-> "none", prepared |-> FALSE]
PlannedTables == {"none", "inserts", "destructive"}

Table == log[Len(log)]

Ids(rows) == {r[1] : r \in rows}

(* ReadCsrRowWatermark: coalesce(max(rowid) + 1, 0) *)
Watermark(rows) ==
    IF rows = {} THEN 0 ELSE 1 + (CHOOSE i \in Ids(rows) : \A j \in Ids(rows) : j <= i)

(* What is stored of row i: {} or a singleton. *)
RowAt(rows, i) == {r[2] : r \in {x \in rows : x[1] = i}}

InitObserver ==
    /\ log = <<[rows |-> {<<i, 0>> : i \in 0..(InitialRows - 1)}, version |-> 0,
                destructive |-> FALSE]>>
    /\ nextRow = InitialRows
    /\ acked = {1}
    /\ writeGen = 0 /\ tableGen = 0 /\ destrGen = 0 /\ dbGen = 0
    /\ cacheVersion = 0
    /\ savedKnown = FALSE /\ savedExists = FALSE /\ saved = {}
    /\ drop = [c \in Connections |-> "no"]
    /\ wpc = [w \in Writers |-> "idle"]
    /\ stmts = [w \in Writers |-> {}]
    /\ planned = [w \in Writers |-> Unplanned]
    /\ reserved = [w \in Writers |-> {}]
    /\ commitAt = [w \in Writers |-> 0]
    /\ transactions = [w \in Writers |-> 0]

-----------------------------------------------------------------------------
(* GqlInvalidateTableGraphCache.  A graph version cached afterwards was read
   afterwards, so it is at least the one committed now. *)
InvalidateCache ==
    /\ dbGen' = dbGen + 1
    /\ cacheVersion' = Table.version

-----------------------------------------------------------------------------
(* DropSavedCsrs, which a connection enters by drop[c] = "check". *)

(* Mutant of NothingSaved: what nobody has looked for is taken not to exist. *)
NothingSeenSaved == ~savedExists

NothingSaved == savedKnown /\ ~savedExists

DropCheck(c) ==
    /\ drop[c] = "check"
    /\ drop' = [drop EXCEPT ![c] = IF NothingSaved THEN "no" ELSE "select"]
    /\ UNCHANGED <<tableVars, genVars, savedVars, writerVars>>

(* SELECT 1 FROM csr_snapshots: what is committed now. *)
DropSelect(c) ==
    /\ drop[c] = "select"
    /\ drop' = [drop EXCEPT ![c] = IF saved = {} THEN "none" ELSE "delete"]
    /\ UNCHANGED <<tableVars, genVars, savedVars, writerVars>>

DropFoundNone(c) ==
    /\ drop[c] = "none"
    /\ savedKnown' = TRUE
    /\ savedExists' = FALSE
    /\ drop' = [drop EXCEPT ![c] = "no"]
    /\ UNCHANGED <<saved, tableVars, genVars, writerVars>>

(* The deletes run in a transaction of their own, on a connection of their own,
   which passes through the same observer. *)
DropDelete(c) ==
    /\ drop[c] = "delete"
    /\ saved' = {}
    /\ InvalidateCache
    /\ drop' = [drop EXCEPT ![c] = "no"]
    /\ UNCHANGED <<savedKnown, savedExists, writeGen, tableGen, destrGen, tableVars, writerVars>>

DropSavedCsrs(c) == DropCheck(c) \/ DropSelect(c) \/ DropFoundNone(c) \/ DropDelete(c)

-----------------------------------------------------------------------------
(* A writer's transaction. *)

(* Mutant of PlanTable: the last statement planned decides. *)
PlanTableLast(entry, insertsOnly) == IF insertsOnly THEN "inserts" ELSE "destructive"

(* planned_table_writes: the table's entry stays inserts_only only while every
   statement planned for it is. *)
PlanTable(entry, insertsOnly) ==
    IF insertsOnly /\ entry # "destructive" THEN "inserts" ELSE "destructive"

(* The plan of one more statement fits the transaction. *)
MayIssue(w, k) ==
    /\ k \in Kinds \ stmts[w]
    /\ Cardinality(stmts[w]) < StatementLimit
    /\ drop[w] = "no"
    /\ \/ wpc[w] = "idle" /\ transactions[w] < TransactionLimit
       \/ wpc[w] = "open"

Issue(w, k) ==
    /\ wpc' = [wpc EXCEPT ![w] = "open"]
    /\ stmts' = [stmts EXCEPT ![w] = @ \cup {k}]
    /\ transactions' = [transactions EXCEPT ![w] = IF wpc[w] = "idle" THEN @ + 1 ELSE @]

(* RegisterCsrWriteObserver and GqlNotifyCsrTableWritePlanned for an INSERT, an
   UPDATE or a DELETE.  No data changes between the two advances, so they are
   one step. *)
PlanTableWrite(w, k) ==
    /\ k \in InsertsOnly \cup {"update", "delete"}
    /\ MayIssue(w, k)
    /\ Issue(w, k)
    /\ InvalidateCache
    /\ tableGen' = tableGen + 1
    /\ destrGen' = IF k \in InsertsOnly THEN destrGen ELSE destrGen + 1
    /\ planned' = [planned EXCEPT ![w].table = PlanTable(@, k \in InsertsOnly)]
    /\ drop' = IF k \in InsertsOnly THEN drop ELSE [drop EXCEPT ![w] = "check"]
    /\ UNCHANGED <<writeGen, reserved, commitAt, tableVars, savedVars>>

(* OnRebindPreparedStatement, or GqlNotifyCsrPreparedWriteExecution for EXECUTE:
   the plan does not say which tables are written. *)
PlanPreparedWrite(w) ==
    /\ MayIssue(w, "prepared")
    /\ Issue(w, "prepared")
    /\ InvalidateCache
    /\ writeGen' = writeGen + 1
    /\ planned' = [planned EXCEPT ![w].prepared = TRUE]
    /\ drop' = [drop EXCEPT ![w] = "check"]
    /\ UNCHANGED <<tableGen, destrGen, reserved, commitAt, tableVars, savedVars>>

(* An appender binds no statement: nothing is announced before its commit. *)
AppendRows(w) ==
    /\ MayIssue(w, "appender")
    /\ Issue(w, "appender")
    /\ UNCHANGED <<planned, reserved, commitAt, drop, tableVars, genVars, savedVars>>

(* A statement fails, its transaction is rolled back by the client, or a saved
   CSR another connection is deleting makes DropSavedCsrs throw. *)
Rollback(w) ==
    /\ wpc[w] \in {"open", "flushed"}
    /\ wpc' = [wpc EXCEPT ![w] = "idle"]
    /\ stmts' = [stmts EXCEPT ![w] = {}]
    /\ planned' = [planned EXCEPT ![w] = Unplanned]
    /\ reserved' = [reserved EXCEPT ![w] = {}]
    /\ drop' = [drop EXCEPT ![w] = "no"]
    /\ UNCHANGED <<commitAt, transactions, tableVars, genVars, savedVars>>

(* DuckDB gives appended rows their ids before the commit makes them visible, so
   a transaction may commit after one that has higher row ids. *)
FlushRows(w) ==
    /\ wpc[w] = "open" /\ drop[w] = "no"
    /\ stmts[w] \cap Inserting # {}
    /\ wpc' = [wpc EXCEPT ![w] = "flushed"]
    /\ reserved' = [reserved EXCEPT ![w] = {nextRow}]
    /\ nextRow' = nextRow + 1
    /\ UNCHANGED <<log, acked, stmts, planned, commitAt, transactions, drop, genVars, savedVars>>

(* What the statements make of the rows already there: one row updated, as often
   as not in a way that keeps the row count, or one row deleted. *)
Rewritten(rows, kinds) ==
    LET updated == IF kinds \cap {"update", "prepared"} = {} THEN {}
                   ELSE {(rows \ {r}) \cup {<<r[1], r[2] + 1>>} : r \in rows}
        deleted == IF "delete" \notin kinds THEN {} ELSE {rows \ {r} : r \in rows}
    IN  IF updated \cup deleted = {} THEN {rows} ELSE updated \cup deleted

(* The commit.  A GQL statement also advances graph_version in its transaction
   (UpdateGraphVersion); SQL on the managed tables does not. *)
CommitRows(w) ==
    /\ \/ wpc[w] = "flushed"
       \/ wpc[w] = "open" /\ stmts[w] \cap Inserting = {}
    /\ drop[w] = "no"
    /\ \E rows \in Rewritten(Table.rows, stmts[w]) :
          log' = Append(log, [rows |-> rows \cup {<<i, 0>> : i \in reserved[w]},
                              version |-> IF "gql_insert" \in stmts[w] THEN Table.version + 1
                                          ELSE Table.version,
                              destructive |-> ~(stmts[w] \subseteq Inserting)])
    /\ commitAt' = [commitAt EXCEPT ![w] = Len(log) + 1]
    /\ wpc' = [wpc EXCEPT ![w] = "committed"]
    /\ UNCHANGED <<nextRow, acked, stmts, planned, reserved, transactions, drop, genVars, savedVars>>

(* What the planned writes of a transaction have its callback advance. *)

(* Mutants: the callback leaves a generation to its advance while planning. *)
NoDestructiveAfterCommit(w) == FALSE
NoPreparedAfterCommit(w) == FALSE

DestructiveAfterCommit(w) == planned[w].table = "destructive"
PreparedAfterCommit(w) == planned[w].prepared

(* GqlCsrWriteObserverState::TransactionCommit, up to the cache invalidation. *)
AdvancePlanned(w) ==
    /\ wpc[w] = "committed"
    /\ tableGen' = IF planned[w].table = "none" THEN tableGen ELSE tableGen + 1
    /\ destrGen' = IF DestructiveAfterCommit(w) THEN destrGen + 1 ELSE destrGen
    /\ writeGen' = IF PreparedAfterCommit(w) THEN writeGen + 1 ELSE writeGen
    /\ planned' = [planned EXCEPT ![w] = Unplanned]
    /\ wpc' = [wpc EXCEPT ![w] = "advanced"]
    /\ UNCHANGED <<dbGen, cacheVersion, stmts, reserved, commitAt, transactions, drop,
                   tableVars, savedVars>>

(* transaction.ModifiedDatabase() *)
Modified(w) ==
    LET j == commitAt[w]
    IN  log[j].rows # log[j - 1].rows \/ log[j].version # log[j - 1].version

(* ... and the invalidation, after which the client hears of the commit. *)
InvalidateAfterCommit(w) ==
    /\ wpc[w] = "advanced"
    /\ IF Modified(w) THEN InvalidateCache ELSE UNCHANGED <<dbGen, cacheVersion>>
    /\ acked' = acked \cup {commitAt[w]}
    /\ wpc' = [wpc EXCEPT ![w] = "idle"]
    /\ stmts' = [stmts EXCEPT ![w] = {}]
    /\ reserved' = [reserved EXCEPT ![w] = {}]
    /\ commitAt' = [commitAt EXCEPT ![w] = 0]
    /\ UNCHANGED <<log, nextRow, writeGen, tableGen, destrGen, planned, transactions, drop, savedVars>>

Finishing(w) == FlushRows(w) \/ CommitRows(w) \/ AdvancePlanned(w) \/ InvalidateAfterCommit(w)

WriterStep(w) ==
    \/ \E k \in Kinds : PlanTableWrite(w, k)
    \/ PlanPreparedWrite(w)
    \/ AppendRows(w)
    \/ Rollback(w)
    \/ Finishing(w)
    \/ DropSavedCsrs(w)

-----------------------------------------------------------------------------
Row == Nat \X Nat

Copy == [base : SUBSET Row, version : Nat, watermark : Nat]

(* The log is never empty, row ids are given out in order, and clients hear of
   commits that were made. *)
LogTypeOK ==
    /\ log \in Seq([rows : SUBSET Row, version : Nat, destructive : BOOLEAN])
    /\ log # <<>>
    /\ nextRow \in Nat
    /\ \A k \in 1..Len(log) : Ids(log[k].rows) \subseteq 0..(nextRow - 1)
    /\ acked \subseteq 1..Len(log)

GenTypeOK ==
    /\ writeGen \in Nat /\ tableGen \in Nat /\ destrGen \in Nat
    /\ dbGen \in Nat /\ cacheVersion \in Nat

SavedTypeOK ==
    /\ savedKnown \in BOOLEAN /\ savedExists \in BOOLEAN
    /\ saved \subseteq Copy
    /\ drop \in [Connections -> {"no", "check", "select", "none", "delete"}]

WriterTypeOK ==
    /\ wpc \in [Writers -> {"idle", "open", "flushed", "committed", "advanced"}]
    /\ stmts \in [Writers -> SUBSET AllKinds]
    /\ planned \in [Writers -> [table : PlannedTables, prepared : BOOLEAN]]
    /\ reserved \in [Writers -> SUBSET (0..(nextRow - 1))]
    /\ commitAt \in [Writers -> 0..Len(log)]
    /\ \A w \in Writers : wpc[w] \in {"committed", "advanced"} => commitAt[w] # 0
    /\ transactions \in [Writers -> Nat]

(* The variables keep the shapes the code's types give them. *)
ObserverTypeOK == LogTypeOK /\ GenTypeOK /\ SavedTypeOK /\ WriterTypeOK
=============================================================================
