----------------------------- MODULE CsrStorage -----------------------------
(***************************************************************************)
(* The derived graph storage of one managed graph: the CSR snapshots one   *)
(* database instance publishes, the statements that lease, build, catch up *)
(* and save them, and a crash or a close of the instance.  The writers are *)
(* those of CsrWriteObserver.                                              *)
(*                                                                         *)
(* A statement is a sequence of steps, one per critical section or query   *)
(* of the code; other connections run between any two of them.  A          *)
(* snapshot's arrays are abstracted to the rows they were built from, a    *)
(* delta to the rows it adds.                                              *)
(***************************************************************************)
EXTENDS CsrWriteObserver

CONSTANTS
    Operations,    \* what the sessions' statements do
    CallLimit,     \* statements of each session
    AcquireLimit,  \* acquisitions of a lease in one statement
    DeltaRowLimit, \* CsrDeltaRowLimit: rows a delta may hold
    CrashLimit,    \* crashes, or closes without notice, of the instance
    SerialSaves    \* whether gql_build_csr is only called when nothing else runs

(* "query" resolves a lease for the optimizer and the CSR operators, "algorithm"
   builds a full projection when it finds none and "narrow" one of fewer
   capabilities, "unchanged" never builds, "build" and "build_memory" are
   gql_build_csr with persist := true and false. *)
AllOperations == {"query", "algorithm", "narrow", "unchanged", "build", "build_memory"}

ASSUME StorageConstantsAssumption ==
    /\ Operations \subseteq AllOperations
    /\ CallLimit \in Nat
    /\ AcquireLimit \in Nat \ {0}
    /\ DeltaRowLimit \in Nat
    /\ CrashLimit \in Nat
    /\ SerialSaves \in BOOLEAN

VARIABLES
    snaps,     \* every GqlCsrSnapshot made since the instance opened
    published, \* the ones storage.snapshots holds for the graph
    noSavedAt, \* no_saved_csr_at: {} or {a write generation}
    building,  \* builds_in_progress holds the graph
    catchUp,   \* the session that holds delta_catch_up_lock: {} or {s}
    spc,       \* where a session's statement stands
    call,      \* the locals of its statement
    calls,     \* statements each session has issued
    crashes    \* crashes so far

storageVars == <<snaps, published, noSavedAt, building, catchUp>>
sessionVars == <<spc, call, calls>>
vars == <<observerVars, storageVars, sessionVars, crashes>>

(* synced_generation = NumericLimits<uint64_t>::Maximum() *)
NeverSynced == -1

NoLease == [snap |-> 0, rows |-> {}]

NoSnapshot == [base |-> {}, at |-> 0, version |-> 0, watermark |-> 0, write |-> 0, table |-> 0,
               destr |-> 0, synced |-> NeverSynced, delta |-> {}, full |-> FALSE, disk |-> FALSE]

NoCall == [op |-> "none", since |-> {}, version |-> 0, snap |-> 0, gen |-> 0, rows |-> {},
           rebuilt |-> FALSE, tried |-> FALSE, claimed |-> FALSE, work |-> NoSnapshot,
           lease |-> NoLease, acquires |-> 0]

InitStorage ==
    /\ snaps = <<>> /\ published = {} /\ noSavedAt = {} /\ building = FALSE /\ catchUp = {}
    /\ spc = [s \in Sessions |-> "idle"]
    /\ call = [s \in Sessions |-> NoCall]

Init ==
    /\ InitObserver
    /\ InitStorage
    /\ calls = [s \in Sessions |-> 0]
    /\ crashes = 0

-----------------------------------------------------------------------------
(* Snapshots. *)

(* Mutant of Current: the graph version stands for the tables' generations. *)
CurrentByVersion(snap, version) == snap.write = writeGen /\ snap.version = version

(* Lease-able by generation alone: CsrSnapshotIsCurrent. *)
Current(snap, version) ==
    /\ snap.write = writeGen
    /\ snap.table = tableGen
    /\ snap.version = version

(* Every change since the build can only have been an insert: CsrSnapshotCanCatchUp.
   A snapshot of a managed graph supports a delta when it is full. *)
CanCatchUp(snap) == snap.full /\ snap.write = writeGen /\ snap.destr = destrGen

(* No write that may do more than insert was announced since the build: the negation
   of CsrHasDestructiveWritesSinceBuild, and what AcquireFullLease asks of a lease
   before a later operator of the statement uses it again. *)
Reusable(snap) ==
    /\ snap.write = writeGen
    /\ snap.destr = destrGen

(* CsrHasCapabilities *)
Covers(snap, full) == full => snap.full

WantsFull(s) == call[s].op # "narrow"

Content(i) == snaps[i].base \cup snaps[i].delta

(* FindPreparedTableSnapshotLocked: what it leaves published ... *)
Kept(version) == {i \in published : Current(snaps[i], version) \/ CanCatchUp(snaps[i])}

(* ... and what it may return: the smallest by memory, a narrow one if it will do. *)
Prepared(version, full) ==
    LET usable == {i \in Kept(version) : Current(snaps[i], version) /\ Covers(snaps[i], full)}
        narrow == {i \in usable : ~snaps[i].full}
    IN  IF narrow # {} THEN narrow ELSE usable

(* PublishTableSnapshot, of the snapshot `new` as number Len(snaps) + 1. *)
SameGenerations(old, new) ==
    /\ old.version = new.version
    /\ old.write = new.write
    /\ old.table = new.table

Replaced(old, new) ==
    LET follows == old.full /\ old.write = new.write /\ old.destr = new.destr
    IN  \/ ~follows /\ ~SameGenerations(old, new)
        \/ Covers(new, old.full)

PublishSnapshot(new) ==
    LET kept == {i \in published : ~Replaced(snaps[i], new)}
    IN  IF \E i \in kept : SameGenerations(snaps[i], new) /\ Covers(snaps[i], new.full)
        THEN published' = kept /\ UNCHANGED snaps
        ELSE /\ snaps' = Append(snaps, new)
             /\ published' = kept \cup {Len(snaps) + 1}

-----------------------------------------------------------------------------
(* A statement's control. *)

Goto(s, place) == spc' = [spc EXCEPT ![s] = place]

At(s, place) == spc[s] = place

(* The statement keeps the lease, and none of the locals that led to it. *)
Lease(s, snap, rows) ==
    /\ call' = [call EXCEPT ![s] = [NoCall EXCEPT
            !.op = call[s].op, !.since = call[s].since,
            !.lease = [snap |-> snap, rows |-> rows], !.acquires = call[s].acquires + 1]]
    /\ Goto(s, CASE call[s].op = "build" -> "save"
                 [] call[s].op = "build_memory" -> "unsave"
                 [] OTHER -> "leased")

Builds == {"build", "build_memory"}

(* No transaction is open and no statement runs; one of gql_build_csr runs. *)
NothingRuns == (\A w \in Writers : wpc[w] = "idle") /\ (\A s \in Sessions : At(s, "idle"))
BuildOpen == \E s \in Sessions : call[s].op \in Builds

(* A statement begins.  "since" are the commits acknowledged before it. *)
Begin(s, op) ==
    /\ At(s, "idle") /\ calls[s] < CallLimit
    /\ SerialSaves /\ op \in Builds => NothingRuns
    /\ calls' = [calls EXCEPT ![s] = @ + 1]
    /\ call' = [call EXCEPT ![s].op = op, ![s].since = acked]
    /\ Goto(s, IF op \in Builds THEN "generations" ELSE "version")
    /\ UNCHANGED <<observerVars, storageVars, crashes>>

(* ReadGraphVersion for an algorithm; the others may use the version cached with
   the graph's binding. *)
ReadVersion(s) ==
    /\ At(s, "version")
    /\ \E v \in (IF call[s].op \in {"algorithm", "narrow"} THEN Table.version ELSE cacheVersion)
                .. Table.version :
          call' = [call EXCEPT ![s].version = v]
    /\ Goto(s, "find")
    /\ UNCHANGED <<observerVars, storageVars, calls, crashes>>

Looked(s, i) == call' = [call EXCEPT ![s].version = 0, ![s].snap = i]

(* The lookup, under storage.lock: ResolveFullLease for a query, else
   GqlGetOrBuildCsrSnapshot or GetPreparedTableSnapshot. *)
Find(s) ==
    /\ At(s, "find")
    /\ published' = Kept(call[s].version)
    /\ LET prepared == Prepared(call[s].version, WantsFull(s))
           follow   == {i \in Kept(call[s].version) : CanCatchUp(snaps[i])}
       IN  CASE call[s].op \in {"algorithm", "narrow", "unchanged"} /\ prepared # {} ->
                  \E i \in prepared : Lease(s, i, snaps[i].base)
             [] call[s].op \in {"algorithm", "narrow"} /\ prepared = {} ->
                  Goto(s, IF call[s].tried THEN "claim" ELSE "load") /\ Looked(s, 0)
             [] call[s].op = "unchanged" /\ prepared = {} ->
                  Goto(s, "failed") /\ Looked(s, 0)
             [] OTHER ->
                  LET found == IF prepared # {} THEN prepared ELSE follow
                  IN  IF found = {} THEN Goto(s, "load") /\ Looked(s, 0)
                      ELSE /\ \E i \in found : Looked(s, i)
                           /\ Goto(s, "lock")
    /\ UNCHANGED <<observerVars, snaps, noSavedAt, building, catchUp, calls, crashes>>

-----------------------------------------------------------------------------
(* TryLoadSavedSnapshot. *)

(* No saved CSR: an algorithm builds, a query has nothing to read. *)
NotLoaded(s) == Goto(s, IF call[s].op \in {"algorithm", "narrow"} THEN "claim" ELSE "failed")

Loaded(s, i) ==
    /\ IF call[s].op \in {"algorithm", "narrow"}
       THEN Goto(s, "version") /\ call' = [call EXCEPT ![s].work = NoSnapshot, ![s].tried = TRUE]
       ELSE Goto(s, "lock") /\ call' = [call EXCEPT ![s].work = NoSnapshot, ![s].snap = i]

LoadCheck(s) ==
    /\ At(s, "load")
    /\ IF dbGen \in noSavedAt THEN NotLoaded(s) /\ UNCHANGED call
       ELSE Goto(s, "load_read") /\ call' = [call EXCEPT ![s].gen = dbGen]
    /\ UNCHANGED <<observerVars, storageVars, calls, crashes>>

LoadRead(s) ==
    /\ At(s, "load_read")
    /\ IF saved = {}
       THEN noSavedAt' = {call[s].gen} /\ NotLoaded(s) /\ call' = [call EXCEPT ![s].gen = 0]
       ELSE /\ \E copy \in saved :
                  call' = [call EXCEPT ![s].gen = 0, ![s].work = [NoSnapshot EXCEPT
                              !.base = copy.base, !.version = copy.version,
                              !.watermark = copy.watermark, !.full = TRUE, !.disk = TRUE]]
            /\ Goto(s, "load_stamp")
            /\ UNCHANGED noSavedAt
    /\ UNCHANGED <<observerVars, snaps, published, building, catchUp, calls, crashes>>

(* Mutant of LoadedSync: a loaded snapshot counts as read just now. *)
LoadedSyncNow == dbGen

LoadedSync == NeverSynced

(* The generations of this process, as they are now: "Nothing says the tables are
   as they were, so the first read checks them." *)
LoadStamp(s) ==
    /\ At(s, "load_stamp")
    /\ call' = [call EXCEPT ![s].work = [@ EXCEPT !.write = writeGen, !.table = tableGen,
                                                  !.destr = destrGen, !.synced = LoadedSync]]
    /\ Goto(s, "load_publish")
    /\ UNCHANGED <<observerVars, storageVars, calls, crashes>>

LoadPublish(s) ==
    /\ At(s, "load_publish")
    /\ LET existing == {i \in published : snaps[i].full}
       IN  IF existing # {}
           THEN /\ \E i \in existing : Loaded(s, i)
                /\ UNCHANGED <<snaps, published>>
           ELSE /\ snaps' = Append(snaps, call[s].work)
                /\ published' = published \cup {Len(snaps) + 1}
                /\ Loaded(s, Len(snaps) + 1)
    /\ UNCHANGED <<observerVars, noSavedAt, building, catchUp, calls, crashes>>

-----------------------------------------------------------------------------
(* ResolveFullLease, once it has a snapshot: the delta catch-up. *)

(* Mutant of CatchUpFree: a catch-up that does not lock the others out. *)
CatchUpAnyway == TRUE

CatchUpFree == catchUp = {}

(* The generation is read under the lock and before the scan. *)
LockCatchUp(s) ==
    /\ At(s, "lock") /\ CatchUpFree
    /\ catchUp' = catchUp \cup {s}
    /\ call' = [call EXCEPT ![s].gen = dbGen]
    /\ Goto(s, "synced")
    /\ UNCHANGED <<observerVars, snaps, published, noSavedAt, building, calls, crashes>>

CheckSynced(s) ==
    /\ At(s, "synced")
    /\ LET i == call[s].snap
       IN  IF snaps[i].synced = call[s].gen
           THEN Lease(s, i, Content(i)) /\ catchUp' = catchUp \ {s}
           ELSE /\ call' = [call EXCEPT ![s].rows = snaps[i].delta]
                /\ Goto(s, "scan")
                /\ UNCHANGED catchUp
    /\ UNCHANGED <<observerVars, snaps, published, noSavedAt, building, calls, crashes>>

(* The scan failed: rebuild once, then give up. *)
Rebuild(s) ==
    /\ call' = [call EXCEPT ![s].rows = {}, ![s].snap = 0, ![s].gen = 0]
    /\ Goto(s, IF call[s].rebuilt THEN "outrun" ELSE "claim")

(* ScanCsrDelta, one read transaction.  `previous` is the delta so far; its rows
   count as known, and rows are looked for past the last one's id. *)
NextWatermark(snap, previous) ==
    IF previous = {} THEN snap.watermark ELSE Watermark(previous)

ScanFinds(snap, previous) ==
    LET known == Cardinality(snap.base) + Cardinality(previous)
        total == Cardinality(Table.rows)
    IN  IF total <= known THEN {}
        ELSE {r \in Table.rows : r[1] >= NextWatermark(snap, previous)}

(* Mutant of ScanFits: the rows found are not counted. *)
ScanFitsUncounted(snap, previous) ==
    /\ Cardinality(Table.rows) >= Cardinality(snap.base) + Cardinality(previous)
    /\ Cardinality(Table.rows) - Cardinality(snap.base) <= DeltaRowLimit

ScanFits(snap, previous) ==
    LET known == Cardinality(snap.base) + Cardinality(previous)
        total == Cardinality(Table.rows)
    IN  /\ total >= known
        /\ total - Cardinality(snap.base) <= DeltaRowLimit
        /\ known + Cardinality(ScanFinds(snap, previous)) = total

Scan(s) ==
    /\ At(s, "scan")
    /\ LET snap == snaps[call[s].snap]
           previous == call[s].rows
       IN  IF ScanFits(snap, previous)
           THEN /\ call' = [call EXCEPT ![s].rows = previous \cup ScanFinds(snap, previous)]
                /\ Goto(s, "store")
                /\ UNCHANGED catchUp
           ELSE Rebuild(s) /\ catchUp' = catchUp \ {s}
    /\ UNCHANGED <<observerVars, snaps, published, noSavedAt, building, calls, crashes>>

(* Mutant of SyncGeneration: the generation as it is after the scan. *)
SyncGenerationNow(s) == dbGen

SyncGeneration(s) == call[s].gen

StoreDelta(s) ==
    /\ At(s, "store")
    /\ LET i == call[s].snap
       IN  /\ snaps' = [snaps EXCEPT ![i].delta = call[s].rows, ![i].synced = SyncGeneration(s)]
           /\ Lease(s, i, snaps[i].base \cup call[s].rows)
    /\ catchUp' = catchUp \ {s}
    /\ UNCHANGED <<observerVars, published, noSavedAt, building, calls, crashes>>

-----------------------------------------------------------------------------
(* BuildAndPublishTableSnapshot and BuildTableSnapshot. *)

(* Mutant of BuildInProgress: a claim that does not look. *)
NoBuildInProgress == FALSE

BuildInProgress == building

(* One automatic build of the graph at a time: the others wait for it. *)
Claim(s) ==
    /\ At(s, "claim")
    /\ IF BuildInProgress
       THEN /\ Goto(s, "wait")
            /\ call' = [call EXCEPT ![s].rebuilt = TRUE]
            /\ UNCHANGED building
       ELSE /\ Goto(s, "generations")
            /\ call' = [call EXCEPT ![s].rebuilt = TRUE, ![s].claimed = TRUE]
            /\ building' = TRUE
    /\ UNCHANGED <<observerVars, snaps, published, noSavedAt, catchUp, calls, crashes>>

Wait(s) ==
    /\ At(s, "wait") /\ ~building
    /\ Goto(s, "version")
    /\ UNCHANGED <<observerVars, storageVars, call, calls, crashes>>

BuildGenerations(s) ==
    /\ At(s, "generations")
    /\ call' = [call EXCEPT ![s].work = [NoSnapshot EXCEPT
                    !.write = writeGen, !.table = tableGen, !.destr = destrGen,
                    !.synced = dbGen, !.full = WantsFull(s)]]
    /\ Goto(s, "read")
    /\ UNCHANGED <<observerVars, storageVars, calls, crashes>>

(* The rows, the graph version and the row watermark, from one transaction. *)
BuildRead(s) ==
    /\ At(s, "read")
    /\ call' = [call EXCEPT ![s].work = [@ EXCEPT
            !.base = Table.rows, !.at = Len(log), !.version = Table.version,
            !.watermark = Watermark(Table.rows)]]
    /\ Goto(s, "validate")
    /\ UNCHANGED <<observerVars, storageVars, calls, crashes>>

(* A narrow snapshot no delta can follow is refused if the graph version moved. *)
BuildValidate(s) ==
    /\ At(s, "validate")
    /\ Goto(s, IF call[s].work.full \/ call[s].work.version = Table.version
               THEN "publish" ELSE "fail")
    /\ UNCHANGED <<observerVars, storageVars, call, calls, crashes>>

(* Any other exception of a build: memory, an interrupt, an inconsistent table. *)
BuildThrows(s) ==
    /\ At(s, "read")
    /\ Goto(s, "fail")
    /\ UNCHANGED <<observerVars, storageVars, call, calls, crashes>>

Publish(s) ==
    /\ At(s, "publish")
    /\ PublishSnapshot(call[s].work)
    /\ call' = [call EXCEPT ![s].work = NoSnapshot]
    /\ Goto(s, IF call[s].claimed THEN "release" ELSE "version")
    /\ UNCHANGED <<observerVars, noSavedAt, building, catchUp, calls, crashes>>

(* builds_in_progress.erase and notify_all: after the publication ... *)
Release(s) ==
    /\ At(s, "release")
    /\ building' = FALSE
    /\ call' = [call EXCEPT ![s].claimed = FALSE]
    /\ Goto(s, "version")
    /\ UNCHANGED <<observerVars, snaps, published, noSavedAt, catchUp, calls, crashes>>

(* Mutant of BuildingAfterFailure: only a build that succeeds erases its entry. *)
BuildingAsBefore(s) == building

BuildingAfterFailure(s) == building /\ ~call[s].claimed

(* ... and in the handler of its exceptions, which it rethrows. *)
ReleaseFailed(s) ==
    /\ At(s, "fail")
    /\ building' = BuildingAfterFailure(s)
    /\ call' = [call EXCEPT ![s].claimed = FALSE, ![s].work = NoSnapshot]
    /\ Goto(s, "failed")
    /\ UNCHANGED <<observerVars, snaps, published, noSavedAt, catchUp, calls, crashes>>

-----------------------------------------------------------------------------
(* gql_build_csr, once it holds the lease: SaveCsrSnapshot. *)

(* Mutant of SaveFlag: the save is not announced to DropSavedCsrs. *)
SaveUnflagged(s) ==
    /\ At(s, "save")
    /\ Goto(s, "save_write")
    /\ UNCHANGED <<observerVars, storageVars, call, calls, crashes>>

SaveFlag(s) ==
    /\ At(s, "save")
    /\ savedKnown' = TRUE
    /\ savedExists' = TRUE
    /\ Goto(s, "save_write")
    /\ UNCHANGED <<saved, tableVars, genVars, writerVars, drop, storageVars, call, calls, crashes>>

(* The transaction that replaces the graph's saved CSR by the snapshot without
   its delta, and the invalidation its commit brings. *)
SaveWrite(s) ==
    /\ At(s, "save_write")
    /\ LET snap == snaps[call[s].lease.snap]
       IN  saved' = {[base |-> snap.base, version |-> snap.version, watermark |-> snap.watermark]}
    /\ InvalidateCache
    /\ Goto(s, "save_check")
    /\ UNCHANGED <<savedKnown, savedExists, writeGen, tableGen, destrGen, tableVars, writerVars,
                   drop, storageVars, call, calls, crashes>>

(* "A delete planned during the save found nothing to drop yet." *)
SaveCheck(s) ==
    /\ At(s, "save_check")
    /\ drop' = IF Reusable(snaps[call[s].lease.snap]) THEN drop
               ELSE [drop EXCEPT ![s] = "check"]
    /\ Goto(s, "leased")
    /\ UNCHANGED <<tableVars, genVars, savedVars, writerVars, storageVars, call, calls, crashes>>

(* persist := false *)
Unsave(s) ==
    /\ At(s, "unsave")
    /\ drop' = [drop EXCEPT ![s] = "check"]
    /\ Goto(s, "leased")
    /\ UNCHANGED <<tableVars, genVars, savedVars, writerVars, storageVars, call, calls, crashes>>

-----------------------------------------------------------------------------
(* AcquireFullLease by a later operator of the statement: the lease it has, until
   a write that may do more than insert is announced. *)
Reacquire(s) ==
    /\ At(s, "leased") /\ call[s].op = "query" /\ call[s].acquires < AcquireLimit
    /\ IF Reusable(snaps[call[s].lease.snap])
       THEN call' = [call EXCEPT ![s].acquires = @ + 1] /\ UNCHANGED spc
       ELSE /\ call' = [call EXCEPT ![s].lease = NoLease, ![s].rebuilt = FALSE]
            /\ Goto(s, "version")
    /\ UNCHANGED <<observerVars, storageVars, calls, crashes>>

(* QueryEnd, after a result or an error. *)
Finish(s) ==
    /\ spc[s] \in {"leased", "failed", "outrun"} /\ drop[s] = "no"
    /\ call' = [call EXCEPT ![s] = NoCall]
    /\ Goto(s, "idle")
    /\ UNCHANGED <<observerVars, storageVars, calls, crashes>>

(* The process ends and the file is opened again: what is committed and what is
   saved remain, acknowledged or not; everything else starts over. *)
Crash ==
    /\ crashes < CrashLimit
    /\ crashes' = crashes + 1
    /\ acked' = 1..Len(log)
    /\ writeGen' = 0 /\ tableGen' = 0 /\ destrGen' = 0 /\ dbGen' = 0
    /\ cacheVersion' = Table.version
    /\ savedKnown' = FALSE /\ savedExists' = FALSE
    /\ drop' = [c \in Connections |-> "no"]
    /\ wpc' = [w \in Writers |-> "idle"]
    /\ stmts' = [w \in Writers |-> {}]
    /\ planned' = [w \in Writers |-> Unplanned]
    /\ reserved' = [w \in Writers |-> {}]
    /\ commitAt' = [w \in Writers |-> 0]
    /\ snaps' = <<>> /\ published' = {} /\ noSavedAt' = {} /\ building' = FALSE /\ catchUp' = {}
    /\ spc' = [s \in Sessions |-> "idle"]
    /\ call' = [s \in Sessions |-> NoCall]
    /\ UNCHANGED <<log, nextRow, saved, transactions, calls>>

-----------------------------------------------------------------------------
Resolving(s) ==
    \/ ReadVersion(s) \/ Find(s)
    \/ LoadCheck(s) \/ LoadRead(s) \/ LoadStamp(s) \/ LoadPublish(s)
    \/ LockCatchUp(s) \/ CheckSynced(s) \/ Scan(s) \/ StoreDelta(s)
    \/ Claim(s) \/ Wait(s) \/ BuildGenerations(s) \/ BuildRead(s) \/ BuildValidate(s)
    \/ Publish(s) \/ Release(s) \/ ReleaseFailed(s)
    \/ SaveFlag(s) \/ SaveWrite(s) \/ SaveCheck(s) \/ Unsave(s)
    \/ Finish(s)

Dropping(c) == DropSavedCsrs(c) /\ UNCHANGED <<storageVars, sessionVars, crashes>>

SessionStep(s) ==
    \/ \E op \in Operations : Begin(s, op)
    \/ Resolving(s)
    \/ BuildThrows(s)
    \/ Reacquire(s)
    \/ Dropping(s)

(* With SerialSaves no write is planned while gql_build_csr runs; queries may begin. *)
Writing(w) ==
    /\ WriterStep(w)
    /\ SerialSaves /\ BuildOpen => wpc[w] # "idle"
    /\ UNCHANGED <<storageVars, sessionVars, crashes>>

(* Nothing is left to do: keeps the end of a bounded behaviour from being taken
   for a deadlock. *)
Ended ==
    /\ \A w \in Writers : wpc[w] = "idle" /\ drop[w] = "no"
    /\ \A s \in Sessions : At(s, "idle") /\ drop[s] = "no" /\ calls[s] = CallLimit
    /\ UNCHANGED vars

Next ==
    \/ \E w \in Writers : Writing(w)
    \/ \E s \in Sessions : SessionStep(s)
    \/ Crash
    \/ Ended

Spec == Init /\ [][Next]_vars

-----------------------------------------------------------------------------
(* Properties. *)

Snapshots == [base : SUBSET Row, at : Nat, version : Nat, watermark : Nat, write : Nat,
              table : Nat, destr : Nat, synced : Nat \cup {NeverSynced}, delta : SUBSET Row,
              full : BOOLEAN, disk : BOOLEAN]

Calls == [op : AllOperations \cup {"none"}, since : SUBSET Nat, version : Nat, snap : Nat,
          gen : Nat, rows : SUBSET Row, rebuilt : BOOLEAN, tried : BOOLEAN, claimed : BOOLEAN,
          work : Snapshots, lease : [snap : Nat, rows : SUBSET Row], acquires : Nat]

Places == {"idle", "version", "find", "load", "load_read", "load_stamp", "load_publish", "lock",
           "synced", "scan", "store", "claim", "wait", "generations", "read", "validate",
           "publish", "release", "fail", "save", "save_write", "save_check", "unsave", "leased",
           "failed", "outrun"}

(* delta_catch_up_lock has one holder. *)
StorageTypeOK ==
    /\ snaps \in Seq(Snapshots)
    /\ published \subseteq 1..Len(snaps)
    /\ noSavedAt \subseteq Nat
    /\ building \in BOOLEAN
    /\ catchUp \in {{}} \cup {{s} : s \in Sessions}

(* A snapshot that is looked up, leased or saved exists. *)
SessionTypeOK ==
    /\ spc \in [Sessions -> Places]
    /\ call \in [Sessions -> Calls]
    /\ calls \in [Sessions -> Nat]
    /\ \A s \in Sessions :
          /\ call[s].snap <= Len(snaps) /\ call[s].lease.snap <= Len(snaps)
          /\ spc[s] \in {"lock", "synced", "scan", "store"} => call[s].snap # 0
          /\ spc[s] \in {"save", "save_write"} => call[s].lease.snap # 0

(* The variables keep the shapes the code's types give them. *)
TypeOK == ObserverTypeOK /\ StorageTypeOK /\ SessionTypeOK /\ crashes \in Nat

HasLease(s) == call[s].lease.snap # 0

RowIds == Ids(UNION {log[k].rows : k \in 1..Len(log)})

(* The last acknowledged commit before the statement that wrote row i. *)
LastAcked(s, i) ==
    LET writes == {j \in call[s].since \ {1} : RowAt(log[j].rows, i) # RowAt(log[j - 1].rows, i)}
    IN  CHOOSE j \in writes \cup {1} : \A k \in writes : k <= j

(* Every row of a lease is as some commit left it that the statement may see: what
   was acknowledged before the statement began is in the lease, and nothing in the
   lease was never committed.  README: updates and deletes invalidate the snapshot
   "instead of allowing an algorithm to use stale data". *)
Fresh(s) ==
    /\ Ids(call[s].lease.rows) \subseteq RowIds
    /\ \A i \in RowIds : \E k \in LastAcked(s, i)..Len(log) :
           RowAt(call[s].lease.rows, i) = RowAt(log[k].rows, i)

LeaseFresh == \A s \in Sessions : HasLease(s) => Fresh(s)

(* Every committed write has advanced the generations. *)
Settled == \A w \in Writers : wpc[w] # "committed"

(* The same of a lease whose generations still stand when every writer has run its
   callback, which is when the code lets a later operator use it again:
   AcquireFullLease "Recheck write generations on reuse".  ScanCsrDelta looks at row
   counts only, so a delete that commits before the scan can hide an insert
   (LeaseFresh fails); the recheck has to find every such lease out. *)
ReusableLeaseFresh ==
    Settled => \A s \in Sessions :
        HasLease(s) /\ Reusable(snaps[call[s].lease.snap]) => Fresh(s)

(* A lease is one committed state of the graph, no older than the last commit
   acknowledged before its statement: rows of different commits are never mixed.
   AcquireFullLease: "so it reads one version". *)
LeaseIsOneVersion ==
    \A s \in Sessions : HasLease(s) =>
        \E k \in 1..Len(log) :
            /\ call[s].lease.rows = log[k].rows
            /\ \A j \in call[s].since : j <= k

(* As long as nothing but inserts was committed, that is what every lease is: rows
   past the watermarks, given to writers that commit in another order, in another
   transaction or while the rows are scanned, never leave a gap. *)
OneVersionUnderInserts ==
    (\A k \in 1..Len(log) : ~log[k].destructive) => LeaseIsOneVersion

(* No committed, announced destructive write separates a snapshot this instance
   built from the tables while the generations still match: the writer is either
   between its commit and its callback or it has advanced a generation the snapshot
   recorded.  This is what lets a reader trust two counters instead of the rows. *)
Unannounced(j) ==
    \E w \in Writers : wpc[w] = "committed" /\ commitAt[w] = j

Behind(snap) == snap.write < writeGen \/ snap.destr < destrGen

NoneMissed(snap) ==
    snap.at # 0 =>
        \A j \in (snap.at + 1)..Len(log) :
            log[j].destructive => Unannounced(j) \/ Behind(snap)

GenerationsCoverDestructiveWrites ==
    \A i \in 1..Len(snaps) : NoneMissed(snaps[i])

(* A published snapshot that is synced with the database and that no destructive
   write was announced against holds every row of an acknowledged insert that is
   still there, once every writer has run its callback: CheckSynced relies on it when
   it hands out a delta without a scan. *)
SyncedMeansComplete ==
    Settled => \A i \in published :
        snaps[i].synced = dbGen /\ CanCatchUp(snaps[i]) /\ snaps[i].at # 0 =>
            \A j \in acked : Ids(log[j].rows) \cap Ids(Table.rows) \subseteq Ids(Content(i))

(* A delta only grows: no reader's catch-up undoes another's, though two may have
   started from the same delta. *)
DeltaOnlyGrows ==
    [][\A i \in (1..Len(snaps)) \cap (1..Len(snaps')) :
          snaps[i].delta \subseteq snaps'[i].delta]_vars

(* One session at a time is between the claim of an automatic build and its release,
   and the flag it holds cannot be lost: "concurrent automatic builders coalesced per
   graph". *)
OneAutomaticBuild ==
    /\ \A s, t \in Sessions : call[s].claimed /\ call[t].claimed => s = t
    /\ building <=> \E s \in Sessions : call[s].claimed

(* A saved CSR describes rows that are still there, as they were when it was built:
   "a crash at any point can't leave a saved CSR describing rows that are gone". *)
SavedDescribesTable ==
    \A copy \in saved : copy.base \subseteq Table.rows

(* The same of a saved CSR that was left behind: no transaction is open and no
   connection is still saving or dropping one, so nothing will look at it again
   before a query or a restart loads it. *)
LeftBehindDescribesTable ==
    /\ \A w \in Writers : wpc[w] = "idle"
    /\ \A c \in Connections : drop[c] = "no"
    /\ \A s \in Sessions : spc[s] \notin {"save_write", "save_check"}
    => SavedDescribesTable

(* A saved CSR that was loaded, that a read has checked against the table and whose
   generations stand describes rows as they are.  TryLoadSavedSnapshot: "Nothing says
   the tables are as they were, so the first read checks them." *)
CheckedLoadDescribesTable ==
    Settled => \A i \in 1..Len(snaps) :
        snaps[i].disk /\ snaps[i].synced # NeverSynced /\ Reusable(snaps[i]) =>
            snaps[i].base \subseteq Table.rows

(* While a saved CSR exists, no later write takes the shortcut that skips looking
   for one. *)
SavedIsNotOverlooked ==
    saved # {} => ~savedKnown \/ savedExists

-----------------------------------------------------------------------------
(* Liveness.  A running statement and a commit under way are threads of DuckDB's
   and keep being scheduled; whether a client begins one, rolls back or crashes is
   up to it.  No lock needs to be fair: a bounded number of statements contends. *)
Completing(w) ==
    /\ AdvancePlanned(w) \/ InvalidateAfterCommit(w)
    /\ UNCHANGED <<storageVars, sessionVars, crashes>>

Fairness ==
    /\ \A s \in Sessions : WF_vars(Resolving(s)) /\ WF_vars(Dropping(s))
    /\ \A w \in Writers : WF_vars(Completing(w))

FairSpec == Spec /\ Fairness

(* Every statement ends, with a result or an error: no session waits for ever for a
   build that threw, or for a catch-up. *)
StatementsEnd == \A s \in Sessions : ~At(s, "idle") ~> At(s, "idle")
=============================================================================
