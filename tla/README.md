# DuckGQL: models and proofs

DuckGQL is a DuckDB extension that gives SQL tables a GQL property-graph view. The
graph's data stays in DuckDB tables; everything the extension keeps besides them is
*derived*: CSR snapshots, delta rows, cached bindings, cached plans, key maps. Its
hard correctness question is therefore always the same one: **when may a statement
trust what was derived earlier?** The code answers it with counters ("generations")
that writers advance and readers compare, never with DuckDB's own transaction
machinery. This directory models that protocol in TLA+, checks it with TLC on small
instances, and proves its central invariants with TLAPS for every instance. What is
read through the derived state, CSR operators and graph algorithms, is modelled as
well and checked against what the tables say.

## 1. Inventory

Line references are to `src/src/` unless a path is given.

| Component | State | Operations | Interacts through | Modelled |
|---|---|---|---|---|
| CSR write observer (`gql_extension.cpp` 37-104, `gql_csr.cpp` 109-271) | `write_generation`, `table_write_generations`, `table_destructive_generations`, `saved_csr_known/exists`; per connection `planned_table_writes`, `planned_prepared_write` | plan of a write, rebind or EXECUTE of a prepared write, TransactionCommit, TransactionRollback, DropSavedCsrs | planner extension, transaction callbacks, object cache of the instance | `CsrWriteObserver` |
| Derived graph storage (`gql_csr.cpp` 284-369, 656-1371, 1525-2004) | `snapshots`, `builds_in_progress`, `delta_catch_up_lock`, `no_saved_csr_at`; per snapshot generations, delta, `synced_generation`; per connection its leases | lookup and eviction, build, publication, delta catch-up, lease and reuse, QueryEnd | `storage.lock`, condition variable, generations | `CsrStorage` |
| Saved CSRs (`gql_csr.cpp` 1384-1642, 3548-3597) | `gql_internal.csr_snapshots`, `csr_pages` | SaveCsrSnapshot, TryLoadSavedSnapshot, page reads, drop | the database file, across restarts | `CsrStorage` (contents), `CsrPages` (rows of pages, ids) |
| CSR pages (`gql_csr.cpp` 43-95, `include/gql_csr.hpp` 99-135) | pins, blocks, page pointers | Pin, Page (lock-free), ReleasePages | leases' `use_count`, buffer manager | `CsrPages` |
| CSR construction (`gql_csr.cpp` 711-1240) | offsets, neighbours, labels, postings, statistics | one build from the tables | result is immutable | `CsrTopology`, `CsrNeighbors` |
| CSR operators (`gql_csr.cpp` 2005-3547) | per-operator cursors | expand, neighbours, paths, fetches | lease of the statement | `GraphReader`, `CsrNeighbors`, `CsrElements`, `CsrExpand`, `CsrPathExpand`, `CsrShortest` |
| Graph binding cache (`gql_catalog.cpp` 984-1085) | `generation`, entries | find, invalidate, capture and load | every statement's binding, generations | `PlanReuse` (its generation: `CsrWriteObserver`) |
| Prepared plan reuse (`gql_plan_reuse.cpp`) | tokens per prepared statement | capture, compare at rebind | database write generation, build count | `PlanReuse` |
| Referenced key maps (`gql_referenced.cpp`) | maps per graph, slots with a building flag | Acquire, wait, fail, evict | lock and condition variable | `ReferencedMaps` |
| Mutations (`gql_mutation.cpp`, `gql_storage.cpp` 22-38, 885-920) | mutation command and the transaction it owns | envelope begin and end, failure, `graph_version` | client state, autocommit | `graph_version` only |
| Graph catalog (`gql_storage.cpp`) | `gql_internal` tables, selected graph | CREATE, DROP, SET, RESET GRAPH, migration | transactions | no, section 7 |
| COPY and ANALYZE GRAPH (`gql_import.cpp`, `gql_statistics.cpp`) | managed tables, statistics rows | import in one transaction, analyse | transactions | no, section 7 |
| Graph algorithms (`gql_algorithms.cpp`) | per-call arrays | BFS, DFS, SSSP, path length, components, triangles, closeness, PageRank, Louvain | a snapshot | `GraphTraversals`, `GraphPathLength`, `GraphComponents`; not PageRank and Louvain |
| Parser, transformer, binder, IR, lowering, optimizers, cost model | none between statements | compile a MATCH into a relational plan | none | no |
| Generated ANTLR parser, benchmarks, scripts, tests | - | - | - | no |

What makes each of them correct:

* **Observer.** No committed update or delete may be invisible to the generations
  once its writer's callback ran, although a snapshot can be built at any point
  between the planning and the callback.
* **Storage.** A lease is never older than the commits acknowledged before its
  statement; under inserts it is exactly one committed version; a delta only grows;
  a synced snapshot really holds every acknowledged row; automatic builds of a graph
  never run side by side; every statement ends.
* **Saved CSRs.** A saved copy never describes rows that are gone, whenever the
  process dies; a writer never skips a drop it needed; what is loaded is caught up
  before it is used.
* **Pages.** A page is never released under a reader that goes through its pointer
  without a lock; its bytes are those of its own CSR; an idle instance pins nothing.
* **Binding cache and plan reuse.** A cached binding is never behind an acknowledged
  commit; a prepared plan is kept only if it saw every acknowledged change.
* **Referenced key maps.** One session builds a map, no waiter is forgotten, the
  identities of a graph's tables do not overlap, a lease is of the snapshot asked for.
* **Construction, operators, algorithms.** The arrays, with the delta, represent
  exactly the rows of the tables; what an operator or algorithm returns, in chunks of
  any cut and after any earlier input, is what a definition on the tables says.
* **Mutations, catalog.** A mutation that fails leaves its connection in autocommit;
  each change of the catalog is one transaction.

The behaviours that are hard here: two connections between any two critical sections,
the window between a commit becoming visible and its callback, row ids given out in
another order than commits, a crash anywhere, a build or a page read that throws
while others wait or read, and operators that stop wherever a chunk is full.
`PROJECT.json` lists them as hazards, each at its line.

## 2. Plan

Order by importance. Everything in this list exists.

1. `CsrWriteObserver` and `CsrStorage` (which extends it: the writers and the readers
   share the generations, so they are one state machine in two modules), their TLC
   instance `MCCsrStorage`, and the proofs `CsrWriteObserverTypes`, `CsrStorageProofs`
   and `CsrOneVersionProofs`.
2. `GraphLeases`, the abstract specification of leases, and `CsrLeaseRefinement`, by
   which `CsrStorage` restricted to inserts implements it.
3. `CsrPages` (pin, lock-free read, release, eviction; snapshot ids reused by saves),
   `MCCsrPages`, and the proofs `CsrPagesProofs`.
4. `PlanReuse`, which extends `CsrWriteObserver` with the binding cache and the plans
   of prepared statements, `MCPlanReuse`, and the proofs `PlanReuseProofs`.
5. `ReferencedMaps`: coalesced builds with failure, replacement and eviction,
   `MCReferencedMaps`, and the proofs `ReferencedMapsProofs`.
6. `GraphReads` and what it composes: `CsrTopology` (the arrays and the delta),
   `GraphReader` (one table function with its lease), and one module per family of
   operators and algorithms, with `MCGraphReads`, the families of graphs; and the
   proofs `CsrTopologyProofs` (the arrays, the delta, the lookups) and
   `GraphReadsProofs` (what readers of a lease return).

Left for later, in this order: theorems on trails and shortest walks; property-index
lookups and per-step values along paths; narrow and weighted projections.

## 3. How the modules correspond to the code

**`CsrWriteObserver`** is one managed graph seen from its writers. `log` is the
sequence of committed states of the graph's tables (DuckDB's, external); a row is a
row id with the number of times it was updated. The vertex and the edge table are one
table: every step of the code treats the pair alike, and a check of both is a
conjunction. A writer's transaction is `idle`, `open`, `flushed` (its appended rows
have ids), `committed` (visible to others, callback not yet run), `advanced`
(generations advanced, cache not yet invalidated), then `idle`, when the client
hears of the commit (`acked`).

| Action | Code |
|---|---|
| `PlanTableWrite` | `RegisterCsrWriteObserver`, `ObserveWrites`, `GqlNotifyCsrTableWritePlanned` |
| `PlanPreparedWrite` | `OnRebindPreparedStatement`, `GqlNotifyCsrPreparedWriteExecution` |
| `AppendRows` | an appender: `GqlConnectionObserver` registers it, nothing is planned |
| `CommitRows`, `FlushRows` | DuckDB; a GQL statement also advances `graph_version` (`UpdateGraphVersion`) |
| `AdvancePlanned`, `InvalidateAfterCommit` | `TransactionCommit`, lines 213-219 and 220-222 |
| `Rollback` | `TransactionRollback`, or a statement that throws |
| `DropCheck`, `DropSelect`, `DropFoundNone`, `DropDelete` | `DropSavedCsrs`, one step per lock or query |

**`CsrStorage`** adds the sessions. A statement's place (`spc`) is the critical
section or query it executes next and `call` its locals; other connections run
between any two places. A snapshot is the record of its generations, its watermark,
the rows it was built from and the rows of its delta; the arrays are abstracted to
that set of rows. `full` says that it supports a delta (a managed graph's snapshot
with all capabilities), otherwise it is an algorithm's narrower projection.

| Action | Code |
|---|---|
| `ReadVersion`, `Find` | `ReadGraphVersion` or the cached version; `FindPreparedTableSnapshotLocked` and the candidates of `ResolveFullLease` |
| `LoadCheck`, `LoadRead`, `LoadStamp`, `LoadPublish` | `TryLoadSavedSnapshot` |
| `LockCatchUp`, `CheckSynced`, `Scan`, `StoreDelta` | `ResolveFullLease` 1889-1908, `ScanCsrDelta` |
| `Claim`, `Wait`, `Publish`, `Release`, `ReleaseFailed` | `BuildAndPublishTableSnapshot`, `PublishTableSnapshot` |
| `BuildGenerations`, `BuildRead`, `BuildValidate`, `BuildThrows` | `BuildTableSnapshot` |
| `SaveFlag`, `SaveWrite`, `SaveCheck`, `Unsave` | `SaveCsrSnapshot`, `BuildCsrFunction` |
| `Reacquire`, `Finish` | `AcquireFullLease`, `GqlCsrQueryLeases::QueryEnd` |
| `Crash` | the process ends and the file is opened again |

The operations are `query` (a lease with delta), `algorithm` and `narrow`
(`GqlGetOrBuildCsrSnapshot` with all or fewer capabilities), `unchanged`
(`GqlGetUnchangedCsrSnapshot`), `build` and `build_memory` (`gql_build_csr`).

Steps that are coarser than the code, and why nothing is lost: the several counters
read to *compare* a snapshot (`Current`, `CanCatchUp`, `Reusable`) are read one lock
at a time, but they only grow, so equality found late held when the first was read.
The counters read to *stamp* a built snapshot are older or equal when read earlier,
and the tables are read after all of them, so a torn stamp only makes a snapshot look
staler. Planning advances the generation and the cache generation in two calls with
no data change between them.

**`GraphLeases`** knows no snapshots: a statement asks, is given one committed state no
older than the commits acknowledged before it, and ends. **`CsrLeaseRefinement`** maps
`CsrStorage` to it: `states` is the log's row sets, a statement is `asking` until it
has a lease, `since` and `lease` are its locals. `LeasesAsPromised` is the abstract
specification, fairness included, as a property of the detailed one.

**`CsrPages`** has a statement of `CsrStorage` as far as pages see it. `block` is what a
page in memory holds, `pins` and `pointers` the two arrays of `GqlCsrPages`. The bytes
of a page are told apart by the version of the tables they were built from.

| Action | Code |
|---|---|
| `Acquire`, `Load`, `Build` | a lease of a published snapshot; `TryLoadSavedSnapshot`; `BuildTableSnapshot` |
| `ReadPointer`, `Deref` | `GqlCsrPages::Page`: the pointer is taken, and later read through |
| `PinLoaded`, `PinRead`, `PinThrows` | `GqlCsrPages::Pin`, `TableCsrPageSource::Read`, `FindRow` |
| `ClearLeases`, `ReleaseUnheld` | `GqlCsrQueryLeases::QueryEnd`, `ReleasePages` |
| `SaveChooseId`, `SaveWrite`, `SaveCheck` | `SaveCsrSnapshot` |
| `Insert`, `Write`, `Crash` | writers as `CsrWriteObserver` has them, here one step each; a restart |
| `Evict` | the buffer manager destroys an unpinned page (external) |

**`PlanReuse`** takes the writers of `CsrWriteObserver` as they are; `WriterActs` adds
what a write does to the cache's entries. A statement binds from the cache or loads in
two queries (`StartLoad`, `LoadVersion`, `LoadTables`, `Store`: `GqlTryLoadTableGraph`,
`LoadTableGraph`), then `Track` or `Refuse` (`CanTrackDatabase`), `Capture`
(`GqlPlanReuseOptimize`); an EXECUTE is `KeepPlan` or `Rebind`
(`OnRebindPreparedStatement`). `later` is DuckDB's comparison of the last commit with a
transaction's start.

**`ReferencedMaps`** is `Acquire` of `gql_referenced.cpp`, one action per critical
section, query or wait: `Identify`, `Reuse`, `Load`, `Refuse`, `ChooseCurrent`,
`ChooseNew`, `Share`, `Claim`, `Wait`, then the builder's `CountSibling`, `Publish`,
`Fail` and `Notify`. A generation is named, because sessions hold generations that
`storage->graphs` has replaced or evicted; one that nobody holds is `Freed`.

**`GraphReads`** is one table function on one graph. `CsrTopology` translates
`BuildTableSnapshot`, `ScanCsrDelta` and the lookups as functions on arrays that count
from 0; `GraphReader` has the variables (`graph`, `request`, `lease`, `local`,
`output`), and each module below adds the steps of its operators and the property that
compares what they return with the rows of the tables.

| Module | Code |
|---|---|
| `CsrNeighbors` | `gql_csr_neighbors`, and the properties of the arrays themselves |
| `CsrElements` | `gql_csr_vertices`, `gql_vertex_fetch`, `gql_edge_fetch` |
| `CsrExpand` | `gql_csr_expand`: one step per input row and per edge, a return per chunk |
| `CsrPathExpand` | `gql_csr_path_expand`: frames, trail, membership set |
| `CsrShortest` | `gql_csr_shortest_expand`, `gql_csr_all_shortest`: one step per level |
| `GraphTraversals` | `bfs`, `dfs`, `sssp`, `weighted_sssp` with its indexed heap |
| `GraphPathLength` | the bidirectional `shortest_path_length` |
| `GraphComponents` | `wcc`, `scc`, `degree`, `triangle_count`, `lcc`, `closeness` |

One reader at a time is enough: readers share nothing but the snapshot, which none of
them writes; what they share with writers is in `CsrStorage` and `CsrPages`. Chunks are
of `VectorSize` rows and the membership threshold is lowered to 2, so that both sides
of each limit are met.

## 4. Runs

`MCCsrStorage` gives TLC the symmetry of writers and sessions; the configurations
give the constants. All bounds are constants of the modules; those of `CsrStorage` are: `TransactionLimit` per
writer, `StatementLimit` per transaction, `CallLimit` statements per session,
`AcquireLimit` acquisitions per statement, `DeltaRowLimit`, `CrashLimit`,
`InitialRows`. `SerialSaves` is a discipline of use: `gql_build_csr` begins only while
no transaction is open and no other statement runs, and no write begins until it ended;
queries may begin meanwhile. Deadlock is checked in
the runs of `CsrStorage` and `CsrPages`: `Ended` is the only state in which nothing is
left to do. `PlanReuse`, `ReferencedMaps` and `GraphReads` stop when their statements
are used up, so there it is off; that no bind of `ReferencedMaps` gets stuck is
`BindsEnd`.

| Run | Instance | Shows |
|---|---|---|
| `csr_sessions` | 2 sessions, 1 writer: SQL insert, GQL insert, prepared write; query, narrow, unchanged, build in memory; 2 acquisitions | `TypeOK`, `LeaseFresh`, `OneAutomaticBuild`, `DeltaOnlyGrows` |
| `csr_writers` | 2 writers: insert, append, update, delete; 1 session with 2 statements and 2 acquisitions | `ReusableLeaseFresh`, `SyncedMeansComplete`, `OneVersionUnderInserts` |
| `csr_restart` | 1 writer with 2 transactions of up to 2 statements, 2 sessions that query, build and save or drop what is saved, 1 crash, `SerialSaves` | `GenerationsCoverDestructiveWrites`, `OneVersionUnderInserts`, `SavedDescribesTable`, `SavedIsNotOverlooked` |
| `csr_liveness` | 2 sessions, 1 writer that inserts, `FairSpec`, no symmetry | `StatementsEnd`, `LeasesAsPromised` |
| `csr_pages` | 2 sessions with 2 statements, 2 pages, 3 snapshots, 1 insert, 1 destructive write, 1 failing read, 1 restart | `TypeOK`, `NoReadAfterRelease`, `NoForeignBytes`, `NothingPinnedWhenIdle` |
| `plan_reuse` | 1 writer (GQL insert, appender) with 2 transactions, 2 sessions with 2 statements, 2 settings | `TypeOK`, `CacheNeverBehind`, `KeptPlanIsCurrent` |
| `referenced_maps` | 2 sessions, 2 graphs of 2 tables, 2 snapshots, 1 kept generation, 3 binds, 1 change of version, identities below 4 | `TypeOK`, `GenerationsBounded`, `OneBuilder`, `IdentitiesTile`, `LeasesAsAsked`, `BindsEnd` |
| `graph_reads` | every graph of the families in `MCGraphReads`: 3 to 5 vertices, up to 7 edges, ids dense and sparse, labels repeated or missing, and every cut of the rows into snapshot and delta | `TypeOK` and the 13 properties below |
| `saved_left_behind`, `stale_load`, `catch_up_hides_insert`, `unfilled_page` | the first three: 1 session, 1 writer, only the statements the counterexample needs; the last: as `csr_pages` | each finds one disagreement, section 5 |

Why these bounds are enough to be interesting: a race of the protocol needs one
writer between two of its steps and one reader between two of its own; two sessions
are needed for contention on the build claim and the catch-up lock, two writers for
rows that commit out of the order of their ids, two transactions for a write that
follows a save, a second statement for a transaction that inserts and deletes, two
acquisitions for the recheck, and one crash for everything recovery finds. A delta
limit of 1 makes both a delta that fits and one that does not. A third snapshot in
`csr_pages` is one that replaces a replaced one, and one failing read is one more than
the code expects. In `referenced_maps` a second graph with room for one generation
evicts what another session builds in, and `Invalid = 4` lies within the sum of the
rows. In `graph_reads` two rows to a chunk cut every answer of three, three requests
one after the other leave state for the next, and a fan of five vertices holds four on
the heap at once. Every action of the next-state relations fires in the passing runs.

The properties, in one sentence each:

* `LeaseFresh`: every row of a lease is as some commit left it that is no older than
  the last acknowledged one before the statement began. It is checked where the
  destructive writes are prepared updates that keep the row count; with deletes it
  fails (section 5).
* `ReusableLeaseFresh`: the same, of a lease whose generations still stand once no
  writer is between commit and callback, for every kind of write. This is what makes
  the recheck of `AcquireFullLease` sufficient.
* `SyncedMeansComplete`: a snapshot synced with the database generation holds every
  acknowledged row that is still there, so `CheckSynced` may skip the scan.
* `OneVersionUnderInserts`: while only inserts were committed, every lease is exactly
  one committed version, row ids and commits in whatever order.
* `GenerationsCoverDestructiveWrites`: a built snapshot that a committed destructive
  write separates from the tables is behind in a generation, or the writer has yet to
  run its callback. It is checked in `csr_restart`, where a transaction may both insert
  and delete, in either order.
* `DeltaOnlyGrows`, `OneAutomaticBuild`, `SavedDescribesTable`,
  `SavedIsNotOverlooked`: as their names say; the last two under `SerialSaves`.
* `StatementsEnd`: every statement ends, with a result or an error. It says nothing of
  writers that outrun a statement again and again: with a bounded number of
  transactions it ends whether it gives up after one rebuild or not.
* `LeasesAsPromised`: under inserts the protocol implements `GraphLeases`.
* `NoReadAfterRelease`: a page a reader goes through is pinned, although the pointer is
  taken without a lock and other statements end meanwhile.
* `NoForeignBytes`: what is in such a page are its own CSR's bytes (or it is the
  unfilled page of section 5), whatever was saved, dropped, evicted or restarted, unless
  the CSR was loaded and another was saved under its id since (`reused`, section 5).
* `NothingPinnedWhenIdle`: when no statement runs, all pages can be evicted, whatever
  order the two steps of the last statements' ends ran in.
* `CacheNeverBehind`: a binding the cache serves has at least what every acknowledged
  commit left, version and tables, and what `CsrStorage` assumes of the cache.
* `KeptPlanIsCurrent`: a kept plan saw every change acknowledged before the EXECUTE,
  but those acknowledged between the two reads of the capture, which the model records.
* `GenerationsBounded`, `OneBuilder`, `LeasesAsAsked`: at most `MapLimit` generations
  are kept; a slot is building exactly while one session builds it; a statement's maps
  are of the graph and snapshot it asked for.
* `IdentitiesTile`: maps of one graph and snapshot number disjoint ranges below the
  invalid index, and one table's map is the same in every session.
* `BindsEnd`: every bind gets its map or an error.
* `TopologyDescribesGraph`, `PostingsDescribeLabels`, `FanoutExactOrAbsent`: vertex ids,
  row ids, edges in both directions, labels and statistics, looked up in the arrays and
  the delta, are those of the tables; statistics that are not complete are not there.
* `ElementsExact`, `ExpansionExact`, `TrailsExact`: each input row gets exactly its
  rows, once each (a trail once for each trail), over all chunk boundaries. That the
  trails reach whatever the walks reach, which `gql_relational.cpp` 1452-1453 relies on,
  is a fact about the reference definition and follows.
* `ShortestExact`, `AllShortestExact`: lengths are minimal, also those remembered from
  an earlier input row; all shortest walks are returned and no other.
* `SearchesExact`, `SettledIsMinimal`, `LengthExact`: order, depth and parents of the
  searches; a vertex off the heap has its final distance; the bidirectional search
  finds the shortest length whichever side advances.
* `ComponentsExact`, `CountsExact`: components, degrees, triangles, clustering and
  closeness equal their definitions on the projected rows.

**Fairness.** `FairSpec` asks weak fairness of each session's running statement
(`Resolving`, `Dropping`) and of each writer's callback (`Completing`): they are
threads of DuckDB that are scheduled and wait only for the locks and the condition
variable modelled. Nothing is asked of a client: whether it begins a statement,
commits, rolls back, makes a build throw or crashes is its choice. Weak fairness is
enough although `delta_catch_up_lock` is an unfair mutex, because a bounded number of
statements contends for it and each holder lets go. `ReferencedMaps` asks the same of
each session inside `Acquire` and of nobody else: whether a build throws, a graph
changes or a statement ends is free, and a session that waits is woken by `Notify`
alone, as a wait on `storage->changed` is.

Some properties are stated for settled states only, on purpose: in the window between
a commit and its callback a synced snapshot may miss the commit. That window is in the
code, is closed before the writer's client hears of the commit, and `LeaseFresh`
therefore holds across it.

## 5. Where the code and its comments disagree

Four runs expect a violation; `PROJECT.json` quotes the lines.

1. `saved_left_behind`: `DropSavedCsrs` says a crash can never leave a saved CSR of
   rows that are gone. A `gql_build_csr` that starts and ends between the planning and
   the commit of another connection's UPDATE saves the old rows, and nothing drops
   them afterwards.
2. `stale_load`: "the first read checks them" says `TryLoadSavedSnapshot`, but the
   check counts rows, and the generations are stamped after the saved row was read: an
   UPDATE in between is invisible. Only arrays below a page are affected; the others
   are read later and throw.
3. `catch_up_hides_insert`: "Comparing row counts covers anything the watermarks would
   miss" does not hold for a DELETE that commits between the choice of the snapshot
   and the scan: its row and an inserted one cancel out, and the generations are not
   compared again after the scan.
4. `unfilled_page`: `Pin` allocates a page and stores its handle before it is read. If
   the read throws, the pointer stays null but the handle and the block are valid, and
   the next `Pin` of that page publishes bytes nobody read. `NoForeignBytes`, which
   holds, excepts this page.

Seen while modelling and not given a run:

* "A saved CSR is the same as a build when no write has followed it" (`gql_csr.cpp`
  1995), but nothing checks that none has before an algorithm uses it: rows inserted by
  SQL between the save and a restart are missing from the algorithm's graph.
* With saves that overlap writes, the flag `saved_csr_exists` can be cleared by a drop
  that found nothing after a save set it (so `csr_restart` needs `SerialSaves`).
* It is not enough that saves and writes do not overlap. A query that reads a saved copy,
  is overtaken by an UPDATE and stamps the copy with the generations after it (finding 2)
  may publish it while `gql_build_csr` runs; if the snapshot `gql_build_csr` built was
  evicted by an automatic build that began before the UPDATE, it leases the old rows,
  whose number agrees, and saves them again. It takes three sessions and 41 steps, and
  came up as a step the proof of `SavedCopiesDescribeTable` could not make; hence
  `gql_build_csr` begins alone under `SerialSaves`.
* `snapshot_id` is the maximum of the rows left plus one: after a drop the next save
  reuses an id, and a page source that looks its rows up only then finds the other
  CSR's. `NoForeignBytes` excepts snapshots whose id was saved under again; without the
  exception TLC shows a read of the other CSR's page after 12 steps. Two graphs saved at
  once may choose one id.
* A plan's capture compares the last commit before it reads the generation (43-66 of
  `gql_plan_reuse.cpp`): a commit that is made and announced between the two is in the
  token although the plan has not seen it. `KeptPlanIsCurrent` excepts these.
* A load for the binding cache reads the version and the tables in two transactions; a
  commit between them makes a mixed entry, which is served only until the writer's
  callback invalidates the cache.
* `gql_csr_path_expand` returns no path of length 0 for a label the dictionary does not
  have; `TrailsExact` states it so.
* A query may report "changed while its CSR snapshot was being built" after waiting for
  another session's build without building itself.
* Rows of an appender advance no table generation, so an algorithm that finds a snapshot
  current by generation can miss acknowledged appended rows.
* An update and an insert of two writers can be mixed in a lease, which is fresh row by
  row but no single version.

## 6. Proofs

| Theorem | Module | Property |
|---|---|---|
| `TypeCorrect` | `CsrStorageProofs` | `TypeOK` |
| `OneBuildAtATime` | `CsrStorageProofs` | `OneAutomaticBuild` |
| `DestructiveWritesCovered` | `CsrStorageProofs` | `GenerationsCoverDestructiveWrites` |
| `DeltasOnlyGrow` | `CsrStorageProofs` | `DeltaOnlyGrows` |
| `OneVersionForEachLease` | `CsrOneVersionProofs` | `OneVersionUnderInserts` |
| `SyncedIsComplete` | `CsrOneVersionProofs` | `SyncedMeansComplete` |
| `ReusableLeasesAreFresh` | `CsrOneVersionProofs` | `ReusableLeaseFresh` |
| `LeasesAreFresh` | `CsrOneVersionProofs` | `LeaseFresh` |
| `BuiltLeasesAreFresh` | `CsrOneVersionProofs` | `ReusableLeaseFresh`, of snapshots built in this process |
| `KeepsItsPromise` | `CsrOneVersionProofs` | the safety part of `LeasesAsPromised` |
| `SavedCopiesDescribeTable` | `CsrOneVersionProofs` | `SavedDescribesTable` |
| `SavedCopiesAreNotOverlooked` | `CsrOneVersionProofs` | `SavedIsNotOverlooked` |
| `PageTypesKept` | `CsrPagesProofs` | `TypeOK` |
| `PagesOutliveReaders` | `CsrPagesProofs` | `NoReadAfterRelease` |
| `PagesHaveTheirCsrsBytes` | `CsrPagesProofs` | `NoForeignBytes` |
| `IdleInstancePinsNothing` | `CsrPagesProofs` | `NothingPinnedWhenIdle` |
| `TypesKept` | `ReferencedMapsProofs` | `TypeOK` |
| `OneBuilderPerSlot` | `ReferencedMapsProofs` | `OneBuilder` |
| `GenerationsStayBounded` | `ReferencedMapsProofs` | `GenerationsBounded` |
| `IdentitiesAreTiled` | `ReferencedMapsProofs` | `IdentitiesTile` |
| `LeasesAreAsAsked` | `ReferencedMapsProofs` | `LeasesAsAsked` |
| `PlanTypesKept` | `PlanReuseProofs` | `TypeOK` |
| `CacheCoversCommits` | `PlanReuseProofs` | `CacheNeverBehind` |
| `KeptPlansAreCurrent` | `PlanReuseProofs` | `KeptPlanIsCurrent` |
| `BaseOrdinalExact` | `CsrTopologyProofs` | the search by id, for every array and id |
| `SnapshotExact` | `CsrTopologyProofs` | what is built, for every graph |
| `LeaseExact` | `CsrTopologyProofs` | snapshot and delta together, for every graph |
| `LeasesDescribe` | `GraphReadsProofs` | the same as an invariant of the readers |
| `ExpansionIsExact` | `GraphReadsProofs` | `ExpansionExact` |
| `TopologyIsDescribed` | `GraphReadsProofs` | `TopologyDescribesGraph` |
| `PostingsAreExact` | `GraphReadsProofs` | `PostingsDescribeLabels` |
| `ElementsAreExact` | `GraphReadsProofs` | `ElementsExact` |
| `FanoutExact` | `CsrTopologyProofs` | for any graph, the statistics of its lease count its edges and vertices, or there are none |
| `FanoutIsExact` | `GraphReadsProofs` | `FanoutExactOrAbsent` |

They hold for every value of the constants. The first twelve assume `ConstantsAssumption`
and `StorageConstantsAssumption` (writers and sessions are different connections, kinds
and operations are those of the code, the limits are natural numbers), those of
`CsrPages` only `PagesConstantsAssumption` (the limits are natural numbers), those of
`ReferencedMaps` only `MapsAssumption` (finitely many sessions and graphs, at least one
table, snapshot and graph), those of `PlanReuse` `ConstantsAssumption` and
`PlanReuseAssumption` (there is a value to set, the limit is a natural number), those of
`CsrTopology` and `GraphReads` the assumptions of these modules: a `VectorSize` above 0,
and cases that are graphs the tables can be (`IsGraph`: keys and row ids are unique, ends
of edges exist) with calls of the types the operators bind, edges fetched only where their
ids are those of their rows (`IsFetch`). TLC evaluates each in every run of its module. Some theorems
have one hypothesis more, in their statements:

* `OneVersionForEachLease` and `BuiltLeasesAreFresh`: every statement is a query or
  `gql_build_csr`. An algorithm, a narrow projection and an unchanged snapshot read the
  arrays without the delta, and may reuse them after an appender's commit, which advances
  no generation.
* `ReusableLeasesAreFresh`: also that nothing is saved (`persist := false`), because a
  loaded snapshot may be stale although its generations stand (section 5, `stale_load`).
* `LeasesAreFresh`: nothing is deleted, since a delete that commits before a scan can hide
  an insert from it (section 5, `catch_up_hides_insert`); nothing is saved, as above; and
  no appender writes unless every statement is a query or `gql_build_csr`, as in the first
  of this list. The run `csr_sessions` is an instance of these.
* `KeepsItsPromise`: also that writers only insert and that the process does not end
  (`CrashLimit = 0`): `GraphLeases` knows no restart.
* `SavedCopiesDescribeTable` and `SavedCopiesAreNotOverlooked`: `SerialSaves`. Without it they are false
  (section 5); the code does not enforce it, it is how `gql_build_csr` has to be used.

* **`TypeCorrect`.** `TypeOK` is inductive. It carries the facts that make the
  detailed steps well defined: the log is never empty, `commitAt` points into it while
  a writer is between commit and callback, a snapshot that is scanned, leased or saved
  exists, the catch-up lock has at most one holder. One lemma per action shows that it
  keeps the types of the module it changes.
* **`OneBuildAtATime`.** The flag alone says nothing about who holds it, so the
  invariant `ClaimInv` adds where a claiming statement can be (`ClaimPlaces`) and that
  only a claimant reaches the release. `gql_build_csr` builds without a claim and may
  fail without one; that it does not erase another session's entry is the interesting
  case.
* **`DestructiveWritesCovered`.** `GenInv` strengthens the property in three ways.
  `WriterInv`: an open transaction's planned writes cover its destructive statements,
  so its callback will advance what it must. Snapshots, also those being built or
  loaded, are never ahead of the generations, so that an advance leaves them behind. A
  snapshot that was loaded was not read from the tables (`at = 0`) when it is stamped.
  Generations only grow within one life of the process; the step that would break the
  property, a commit after a build that recorded the advanced generation, is covered
  by `Unannounced`, and the callback by its second advance: `StayGood`,
  `WriterStepInv`, `SessionStepGood`, `PublishGood`. For `LeasesAreFresh` it also says
  that without appenders the table generation misses no commit at all (`AllCounted`).
* **`DeltasOnlyGrow`.** `CatchUpInv` says who may be between taking the catch-up lock
  and storing a delta, and that the delta it read is still the snapshot's: nobody else
  stores one meanwhile, and a publication only adds snapshots. The action property
  follows step by step, with `Crash`, which forgets all snapshots, as the exception.
* **`OneVersionForEachLease`.** The invariant `VersionInv` is about each snapshot by itself,
  as long as nothing but inserts was committed since it was built (`InsertsSince`); what
  is loaded counts as built before the first commit. A snapshot, published, under
  construction or saved, is a commit; with its delta it is a commit too, and if it is
  stamped with the present generation it has every acknowledged one (`Sound`). Row ids
  never come back (`LogGrows`), and a transaction that appends has an id no row ever had
  (`WritersReserve`). The heart is the catch-up scan (`ScanExact`). It counts the rows of
  the tables and the
  rows it has and takes those above the watermark, and it is right only because the counts
  agree: if a row with a low id became visible after the snapshot was read, the rows
  above the watermark are too few, the scan says so and the statement builds again. The
  lemma is an argument on cardinalities and on the order of row ids. What is
  left is stability: a commit extends the log (`Extends`), and whoever is told of one is
  told in the step that moves the generation (`Tells`), so a stamp that is still the
  present one promises no less than before.
* **`SyncedIsComplete`, `ReusableLeasesAreFresh`, `BuiltLeasesAreFresh`.** Both invariants
  together. If the generations of a snapshot built in this process still stand and every
  writer has run its callback, `GenerationsCoverDestructiveWrites` leaves nothing but
  inserts since it was built, and `VersionInv` then says what it holds. So updates and
  deletes need no invariant of their own: whoever meets one finds a generation moved.
* **`LeasesAreFresh`.** A lease need not be one committed state once rows are updated: the
  scan adds new rows to arrays that have the old value of an updated one. What `VersionInv`
  keeps then, where nothing is deleted, is weaker (`Gathered`): one row for each id of some
  commit that is not before the acknowledged ones, each as some commit since the build left
  it. The scan is right again because the counts agree, now those of ids (`ScanGathers`).
  `AskedInv` adds what the lookup found out: no update that was acknowledged before the
  statement began came after the build of the snapshot, or its generations would not have
  stood (`LookedUp`, by `GenInv` and because a commit under way is not acknowledged,
  `Untold`). So a row whose last expected writer comes after the commit it was taken from
  would have been updated by an insert, which is absurd (`GatheredIsFresh`).
* **`KeepsItsPromise`.** The refinement mapping is that of `CsrLeaseRefinement`. Each
  step of a session is sorted by what it does to the statement (`SessionEffect`): it
  begins (`Ask`), takes its lease (`Give`), ends (`End`) or goes on, which `GraphLeases`
  does not see; of the writers it sees commits and acknowledgements. That a lease given is
  one committed state is the theorem before. That it is never taken back is `OnlyInserts`:
  while nothing but inserts is planned the two generations a lease is checked against stay
  where they began, and so do those of every snapshot, so that `Reacquire` finds the lease
  reusable; and a statement has a lease exactly in the places after it took one.

* **`SavedCopiesDescribeTable`, `SavedCopiesAreNotOverlooked`.** `SavedInv` has four parts
  beside the two properties. `Alone`: at most one `gql_build_csr` runs, none beside an open
  transaction, and a connection that drops is a writer before its commit or that
  `gql_build_csr` after its save. `Dropped`: a writer that may do more than insert, and
  has nothing left to drop, found or left nothing saved, and nobody saves before it
  commits. `NotMissed`: a drop that found nothing is not followed by a save before it notes
  so, and a save that announced itself is not forgotten. `BuildsOfTable` is where sessions
  other than `gql_build_csr` come in: while it runs, whatever they build, load or publish
  is of rows in the table, since nothing began before it, and when it publishes its own
  snapshot, which is full, that replaces all older ones. So what it leases, and saves, is
  of rows in the table whoever caught it up, and whatever else was published since.
* **`PagesOutliveReaders`, `IdleInstancePinsNothing`.** One invariant, `PagesInv`, has
  both. A pointer that is not null points to a pinned page (`PointersPinned`): the
  release clears the two together. Who is between taking a pointer and reading through
  it holds the snapshot (`ReadersHold`), so a release, which takes only snapshots nobody
  holds, leaves its pages alone; this is the argument of the comment "one held only by
  storage has no readers". For the other, whatever is pinned has a holder or a statement
  that is about to release (`SomeoneReleases`); a statement first gives up its lease and
  then releases, so the last of two that end at once finds the snapshot free. Snapshots
  not made yet have no pins (`UnmadeUnpinned`), or a build would publish some.
* **`PageTypesKept`, `PagesHaveTheirCsrsBytes`.** A page's bytes come from the build or
  from the row a page source found. A row that is found has the id the snapshot was
  loaded with, and rows of one id are of one CSR, as long as no other save took the id;
  this is what the history variable `reused` remembers, and what would be false without
  it.
* **`TypesKept`.** Its content is that a session that works on a generation holds it,
  although the storage may replace and evict it, and that a fresh name always exists:
  there are more names than holders (`FreeName`, by the cardinality of the image of a
  finite set).
* **`OneBuilderPerSlot`.** `OneBuilder` is inductive together with `TypeOK`: a claim
  needs a free slot in the generation the session holds, publication and failure free
  the same slot, and a generation with a builder is held, hence never freed under it.
* **`GenerationsStayBounded`.** Only the choice of a new generation adds to the current
  ones. It evicts as many others as the limit asks; that these are enough is a count of
  the kept, the evicted and the new one.
* **`IdentitiesAreTiled`.** Offsets are sums of counts, each builder adding up those of
  the tables before its own, in any order and from the counts of whoever built them. The
  proof shows that all maps of a generation agree with one numbering of the tables, and
  that such a numbering has disjoint ranges. That is an induction along the tables; it is
  done without an induction theorem, by taking the greatest number up to which the claim
  holds (`GreatestNumber`, `Along`).
* **`LeasesAreAsAsked`.** `AskInv` follows a map from the generation it is built in to
  the session that gets it: a generation's maps are of its graph and snapshot
  (`MapsFit`), which never change while somebody holds its name; a session works on a
  generation of what it asked for (`HeldFits`), found among the current ones of its
  graph (`CurrentOfGraph`) or made new. A freed name is reused, and a session that still
  held it would be given the maps of another graph; this is where `TypesKept` is needed.
* **`CacheCoversCommits`.** `CacheInv`: versions grow along the log (`VersionsGrow`) and
  the versions the writers refuse are of committed states (`RefusedBelowTable`). An entry
  (`EntryFresh`), and a load under way that is dated with the present generation
  (`LoadFresh`), cover what was acknowledged. A writer is told of a change only in the
  step that advances the generation, which clears the cache and makes every load under
  way too old to be stored; a load that starts afterwards reads a log that has the change.
* **`KeptPlansAreCurrent`.** `PlanInv`: a transaction that has not been passed by a commit
  sees the whole log (`TransactionSees`), so a token that is taken after that check dates
  a plan that lacks only what came since; a plan whose token is current covers what was
  acknowledged (`PlanCovers`). As for the cache, the generation of the token and the
  acknowledgement move in one step.

* **`BaseOrdinalExact`.** The search keeps the place sought in its range, whichever probe it
  makes, and each round makes the range smaller, so that the bound on the rounds
  suffices (`NarrowedAround`, `LowerBoundExact`). The interpolated probe needs that a
  share of a number, rounded down, does not exceed it (`ShareOf`).
* **`SnapshotExact`.** Loops are folds and recursive functions in the model; what a loop
  computes is proved along the table of its states (`LoopRuns`, `FoldRuns`,
  `FoldFollows`), by the greatest number of rounds up to which a claim holds. Offset *i* is
  the number of keys below *i* (`OffsetsExact`); the places the scatter gives out are, for
  each key, the range between two offsets, one element to a place (`PlacesExact`), so that
  a vertex's range lists the edges at it (`AdjacencyExact`). The dictionary only grows
  (`Grown`), which is why ids given to vertices early are right at the end. Both
  directions are the same lemma.
* **`LeaseExact`.** Either the delta expresses every row inserted since, and then each of
  its vertices and edges is appended to the place where a lookup searches
  (`AddsNextVertex`, `AddsNextEdge`, by induction on the rows scanned), what the arrays
  list and what the delta lists have no edge in common (`ListsJoined`), and an id is found
  once in the two together (`OrdinalExact`); or the scan gives up and the whole table is
  built.
* **`LeasesDescribe`, `ExpansionIsExact`.** The invariant says of each row already begun
  which of its edges are behind the cursor (`Done`), and that the rows returned and those
  in the chunk are exactly the rows due (`Streamed`, `Exact`), each once. One more edge makes one
  more row due if the input row asks for it, and none otherwise (`EdgeReadExact`,
  `DueNext`); for this the labels remembered from an earlier row must be those of the
  present one (`CachedLabel`, `CachedNeighbor`), which is what an operator that keeps its local
  state between rows can get wrong. A row that is passed over asks for nothing
  (`SkippedAsksNothing`): its vertex or a label is unknown to the lease, so by
  `LeasesDescribe` to the tables. Where the call is over every row is behind, so what was
  returned is what was asked for.
* **`TopologyIsDescribed`.** Ordinals and ids are a bijection (`OrdinalExact`), so the
  ordinals are as many as the vertices; the row id index finds the ordinal of each row of
  the snapshot (`OrdinalOfRowExact`), and a delta changes no lookup of an earlier row
  (`RowsOfMore`). `gql_csr_neighbors` answers its calls one after another in one local
  state: each appends the list of its own ordinal (`RepliesMore`, `NeighborsInv`).
* **`PostingsAreExact`.** The entries built are the label lists laid end to end; no two
  vertices share an entry and each pair of label and vertex is there once
  (`FlattenOnce`). Counting and scatter give the range of a label its own entries
  (`RangeOfKey`, `PostingsList`), and a label that only edges have has an empty range or
  none (`BuiltPosts`). Each vertex the delta adds enters the list of each of its labels
  once (`PostsMore`); nothing is in both, because the ordinals of the two are disjoint.
  A label of the tables always has an id in the dictionary of the lease (`LabelsFound`),
  so a test by a label that is not found rightly selects nothing.
* **`ElementsAreExact`.** `IsListing` says that the rows returned are all vertices of the
  labels before and the first of the present one, as far as the two cursors have come: a
  chunk takes the list up where the one before ended, also across the end of the postings,
  and is empty only where the list is over (`ChunkGoesOn`). `IsFetching` says it of fetches:
  the rows are those of the chunks up to the present one, which `emitted` tells apart from
  the ones before. What one chunk fetches is exact wherever storage packs its result
  (`FoundRowsExact`): the pairs of a row and a place are sorted, hence each once
  (`RankedOnce`); if as many come back as were asked for, none was hidden and they are the
  same; otherwise each is fetched by itself (`WithoutExact`). The row id of a vertex comes
  from the lease (`AcquiredRowIds`), that of an edge from its id, which is why the code lets
  edges be fetched only where the two match (`IsFetch`).
* **`FanoutExact`, `FanoutIsExact`.** Three loops, one in the other: over the vertices, over
  the labels of the edges of one, each once (`TouchedExact`), and over the vertex's own
  labels. Each adds to pairs that the rounds before it have not touched (`AddsMore`), unless
  one of them discards the statistics, after which all rounds leave them as they are; so
  either every place of the arrays with these two labels is counted once
  (`CollectFanoutExact`) or nothing is kept. The places and the edges of the table match one
  to one (`PlacesAreEdges`, `CountMatched`), by what `SnapshotExact` says of the arrays, and
  so do the vertices. Statistics do not see the delta: a lease that was caught up describes
  the edges its snapshot was built from (`BuiltFrom`), and one whose delta is empty has no
  others (`NothingAdded`), or an edge would be in the list of its source.

Only model-checked: `StatementsEnd`, `BindsEnd` and the fairness in `LeasesAsPromised`
(liveness is outside the prover's reach), and what is left of `graph_reads`, on its small
graphs. There the searches, trails, shortest paths, path lengths and components are
compared with definitions by paths and closures of any length: that a breadth-first level
or a stack of components computes these takes an induction over paths, one for each
algorithm, which the provers can only do by hand, as above for the arrays. `TypeOK` of
`GraphReads` is about the local states of all of them.

## 7. Not modelled, and why

* DuckDB itself: its transactions are atomic and durable at the commit, row ids grow,
  a read transaction sees one committed state. A checkpoint that moves row ids
  (vacuum) is left out; `ScanCsrDelta` meets it with the same row count check.
* Several graphs in one instance (their storage is separate, except for
  `write_generation`, the drop of every saved CSR by a prepared write, and the key maps,
  where `ReferencedMaps` has several), schema changes (`schema_version` is compared like
  a generation), read-only databases, memory limits other than the eviction of pages.
* CSRs of DuckLake graphs, weighted and narrow projections in construction,
  ENDPOINT_STATS. The statements that use narrow projections are in `CsrStorage`.
* A delta row that the snapshot cannot express (unknown label, missing endpoint) makes
  `CsrTopology` give up, and in `CsrStorage` it is a scan that fails and rebuilds as it
  does for too many rows.
* Of the operators: the vertex lookup by a property index, the values collected along a
  path, the functions that only describe a snapshot. They add columns, not control.
* PageRank and Louvain: floating-point iterations to a tolerance, whose results TLC has
  no numbers for. Weights of `weighted_sssp` are small integers with one largest value,
  so that overflow to infinity is met, but rounding is not.
* Which plans and parameters are eligible for reuse, and `csr_builds` of the token,
  which can only refuse more.
* The mutation envelope (`GqlClientState::QueryEnd`): what it rolls back is DuckDB's
  transaction context, and when it runs after an error is decided by DuckDB's client
  context. Neither is in the repository, so a model would assume what it is to check.
* CREATE, DROP, SET and RESET GRAPH, COPY GRAPH, ANALYZE GRAPH: one DuckDB transaction
  each, with no state of the extension between two of them but the selected graph.
* The compiler from GQL to relational plans (parser, transformer, binder, IR, lowering,
  optimizers, cost model): no state between statements and no concurrency. It is most
  of the repository: of its 94 thousand lines of implementation some 64 thousand are the
  generated ANTLR parser and 14 thousand the compiler written by hand, so the part that
  is modelled, the storage, operators and algorithms, is small next to the whole.
