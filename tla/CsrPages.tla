------------------------------ MODULE CsrPages ------------------------------
(***************************************************************************)
(* The paged arrays of CSR snapshots.  A snapshot's arrays lie on pages of *)
(* DuckDB's buffer manager: those of a snapshot this instance built, or    *)
(* those a saved CSR is read from when a statement first needs them.       *)
(* Readers go through a pointer without a lock; the end of any statement   *)
(* releases the pages of every snapshot that nobody holds; memory pressure *)
(* may drop an unpinned page.                                              *)
(*                                                                         *)
(* One array stands for all, its pages are told apart by number, and the   *)
(* bytes of a page by the version of the graph's tables they describe.     *)
(* How a snapshot is chosen, kept current and caught up is CsrStorage's.   *)
(***************************************************************************)
EXTENDS Integers, FiniteSets, FiniteSetsExt

CONSTANTS
    Sessions,      \* connections, each with one statement at a time
    PageCount,     \* pages of a snapshot's array
    SnapshotLimit, \* snapshots made, over all lives of the process
    CallLimit,     \* statements of each session
    InsertLimit,   \* inserts into the graph
    WriteLimit,    \* updates or deletes of the graph
    FailLimit,     \* page reads that fail for memory, I/O or an interrupt
    CrashLimit     \* restarts of the process

ASSUME PagesConstantsAssumption ==
    {PageCount, SnapshotLimit, CallLimit, InsertLimit, WriteLimit, FailLimit, CrashLimit} \subseteq Nat

Snapshots == 1..SnapshotLimit
Pages == 0..(PageCount - 1)

VARIABLES
    version,   \* of the graph's tables
    savedCsr,  \* gql_internal.csr_snapshots: [id, version]
    savedPage, \* gql_internal.csr_pages: [row, id, page, version]
    nextRow,   \* the next rowid of csr_pages
    reused,    \* history: snapshots whose saved CSR's id was saved under again after they were loaded
    made,      \* snapshots made so far: the last one's number
    snap,      \* [version, writes, id, rows]: its rows, the destructive generation it was stamped
               \* with, the saved CSR it was loaded from or 0, and TableCsrPageSource::rows
    published, \* storage.snapshots of the graph
    block,     \* GqlCsrPages::blocks: what a page in memory holds
    pins,      \* GqlCsrPages::pins that are valid
    pointers,  \* GqlCsrPages::pointers that are not null
    place,     \* where a session's statement stands
    held,      \* the snapshot it holds a shared_ptr of, 0 for none
    page,      \* the page it reads
    saveId,    \* the snapshot_id it saves under
    writes,    \* the destructive generation of the graph's tables
    calls, inserts, fails, crashes

diskVars == <<version, writes, savedCsr, savedPage, nextRow>>
memoryVars == <<snap, block, pins, pointers>>
statementVars == <<place, held, page, saveId, calls>>
boundVars == <<inserts, fails, crashes>>
vars == <<diskVars, reused, made, published, memoryVars, statementVars, boundVars>>

(* What block holds of a page besides a version, which is positive: never loaded, or
   dropped under memory pressure; allocated but never filled, whatever was there. *)
NotLoaded == 0
Unfilled == -1

NoSnapshot == [version |-> 0, writes |-> 0, id |-> 0, rows |-> {}]

InitMemory ==
    /\ snap = [i \in Snapshots |-> NoSnapshot]
    /\ block = [i \in Snapshots |-> [p \in Pages |-> NotLoaded]]
    /\ pins = [i \in Snapshots |-> {}]
    /\ pointers = [i \in Snapshots |-> {}]

Init ==
    /\ version = 1 /\ savedCsr = {} /\ savedPage = {} /\ nextRow = 1
    /\ reused = {} /\ made = 0 /\ published = {}
    /\ InitMemory
    /\ place = [s \in Sessions |-> "idle"]
    /\ held = [s \in Sessions |-> 0]
    /\ page = [s \in Sessions |-> 0]
    /\ saveId = [s \in Sessions |-> 0]
    /\ calls = [s \in Sessions |-> 0]
    /\ writes = 0 /\ inserts = 0 /\ fails = 0 /\ crashes = 0

-----------------------------------------------------------------------------
At(s, here) == place[s] = here

Goto(s, there) == place' = [place EXCEPT ![s] = there]

Begin(s) ==
    /\ At(s, "idle") /\ calls[s] < CallLimit
    /\ calls' = [calls EXCEPT ![s] = @ + 1]

Hold(s, i) == held' = [held EXCEPT ![s] = i]

(* A statement gets a snapshot under storage.lock. *)
Acquire(s) ==
    /\ Begin(s)
    /\ \E i \in published : Hold(s, i)
    /\ Goto(s, "reading")
    /\ UNCHANGED <<diskVars, reused, made, published, memoryVars, page, saveId, boundVars>>

MakeSnapshot(s, new) ==
    /\ made < SnapshotLimit
    /\ made' = made + 1
    /\ snap' = [snap EXCEPT ![made + 1] = new]
    /\ published' = {made + 1}
    /\ Hold(s, made + 1)

(* TryLoadSavedSnapshot: pages with a source, read when first used. *)
Load(s) ==
    /\ Begin(s) /\ published = {} /\ Cardinality(savedCsr) = 1
    /\ \E copy \in savedCsr :
          MakeSnapshot(s, [NoSnapshot EXCEPT !.version = copy.version, !.id = copy.id,
                                              !.writes = writes])
    /\ Goto(s, "reading")
    /\ UNCHANGED <<diskVars, reused, block, pins, pointers, page, saveId, boundVars>>

(* gql_build_csr up to its lease: the new pages were pinned while they were filled
   and released before publication (BuildTableSnapshot's ReleasePages). *)
Build(s) ==
    /\ Begin(s)
    /\ MakeSnapshot(s, [NoSnapshot EXCEPT !.version = version, !.writes = writes])
    /\ block' = [block EXCEPT ![made + 1] = [p \in Pages |-> version]]
    /\ Goto(s, "save")
    /\ UNCHANGED <<diskVars, reused, pins, pointers, page, saveId, boundVars>>

-----------------------------------------------------------------------------
(* Reading a value: GqlCsrPages::Page and, if the pointer was null, Pin. *)

ReadPointer(s) ==
    /\ At(s, "reading")
    /\ \E p \in Pages :
          /\ page' = [page EXCEPT ![s] = p]
          /\ Goto(s, IF p \in pointers[held[s]] THEN "deref" ELSE "pin")
    /\ UNCHANGED <<diskVars, reused, made, published, memoryVars, held, saveId, calls, boundVars>>

Pinned(i, p) == pins' = [pins EXCEPT ![i] = @ \cup {p}]

(* The page is there, or in the temporary file it was evicted to, or another reader
   pinned it since. *)
PinLoaded(s) ==
    LET i == held[s]  p == page[s]
    IN  /\ At(s, "pin")
        /\ p \in pointers[i] \/ block[i][p] # NotLoaded
        /\ Pinned(i, p)
        /\ pointers' = [pointers EXCEPT ![i] = @ \cup {p}]
        /\ Goto(s, "deref")
        /\ UNCHANGED <<diskVars, reused, made, published, snap, block, held, page, saveId,
                       calls, boundVars>>

(* FindRow: looked up once, kept for every later page. *)
KnownRows(i) ==
    IF snap[i].rows # {} THEN snap[i].rows
    ELSE {[page |-> r.page, row |-> r.row] : r \in {q \in savedPage : q.id = snap[i].id}}

(* Mutant of RowFetched: the row is taken as it is. *)
RowFetchedUnchecked(i, r) == \E known \in KnownRows(i) : r.page = known.page

(* The row that is fetched for a page, if it is still there and the snapshot's. *)
RowFetched(i, r) ==
    /\ r.id = snap[i].id
    /\ \E known \in KnownRows(i) : r.row = known.row

(* TableCsrPageSource::Read, in one transaction. *)
PinRead(s) ==
    LET i == held[s]  p == page[s]
        found == {r \in savedPage : r.page = p /\ RowFetched(i, r)}
    IN  /\ At(s, "pin")
        /\ p \notin pointers[i] /\ block[i][p] = NotLoaded
        /\ found # {}
        /\ \E r \in found : block' = [block EXCEPT ![i][p] = r.version]
        /\ snap' = [snap EXCEPT ![i].rows = KnownRows(i)]
        /\ Pinned(i, p)
        /\ pointers' = [pointers EXCEPT ![i] = @ \cup {p}]
        /\ Goto(s, "deref")
        /\ UNCHANGED <<diskVars, reused, made, published, held, page, saveId, calls, boundVars>>

(* The read throws, because the row is gone ("was replaced while being read; retry
   the operation") or for memory, I/O or an interrupt.  The page was allocated and
   pinned before; its pointer stays null, and the statement ends with the error. *)
PinThrows(s) ==
    LET i == held[s]  p == page[s]
        found == {r \in savedPage : r.page = p /\ RowFetched(i, r)}
    IN  /\ At(s, "pin")
        /\ p \notin pointers[i] /\ block[i][p] = NotLoaded
        /\ IF found = {} THEN UNCHANGED fails
           ELSE fails < FailLimit /\ fails' = fails + 1
        /\ block' = [block EXCEPT ![i][p] = Unfilled]
        /\ \E rows \in {KnownRows(i)} \cup (IF found = {} THEN {} ELSE {snap[i].rows}) :
              snap' = [snap EXCEPT ![i].rows = rows]
        /\ Pinned(i, p)
        /\ Goto(s, "clear")
        /\ UNCHANGED <<diskVars, reused, made, published, pointers, held, page, saveId, calls,
                       inserts, crashes>>

(* The value is read through the pointer. *)
Deref(s) ==
    /\ At(s, "deref")
    /\ \/ Goto(s, "reading")
       \/ Goto(s, "clear")
    /\ UNCHANGED <<diskVars, reused, made, published, memoryVars, held, page, saveId, calls,
                   boundVars>>

-----------------------------------------------------------------------------
(* GqlCsrQueryLeases::QueryEnd. *)

(* Mutant of ReleaseNext: the release counts the statement's own lease. *)
ReleaseFirst(s) ==
    /\ At(s, "clear")
    /\ Goto(s, "release")
    /\ UNCHANGED held

ReleaseNext(s) ==
    /\ At(s, "clear")
    /\ held' = [held EXCEPT ![s] = 0]
    /\ Goto(s, "release")

(* leases.clear(), after the operators gave up theirs. *)
ClearLeases(s) ==
    /\ ReleaseNext(s)
    /\ UNCHANGED <<diskVars, reused, made, published, memoryVars, page, saveId, calls, boundVars>>

(* Mutant of HeldOnlyByStorage: one's own lease is gone, so the pages are free. *)
HeldOrNot(i) == i \in published

(* "Readers get a snapshot under the storage lock, so one held only by storage has
   no readers." *)
HeldOnlyByStorage(i) == i \in published /\ \A s \in Sessions : held[s] # i

(* ReleasePages of every snapshot with use_count 1, under storage.lock. *)
ReleaseUnheld(s) ==
    /\ At(s, "release")
    /\ pins' = [i \in Snapshots |-> IF HeldOnlyByStorage(i) THEN {} ELSE pins[i]]
    /\ pointers' = [i \in Snapshots |-> IF HeldOnlyByStorage(i) THEN {} ELSE pointers[i]]
    /\ Goto(s, "idle")
    /\ Hold(s, 0)
    /\ UNCHANGED <<diskVars, reused, made, published, snap, block, page, saveId, calls, boundVars>>

(* DuckDB's buffer manager needs memory: an unpinned page with a source may be
   destroyed.  One without is written to a temporary file and keeps its contents. *)
Evict ==
    /\ \E i \in Snapshots, p \in Pages :
          /\ i \in published \/ \E s \in Sessions : held[s] = i
          /\ snap[i].id # 0 /\ p \notin pins[i] /\ block[i][p] # NotLoaded
          /\ block' = [block EXCEPT ![i][p] = NotLoaded]
    /\ UNCHANGED <<diskVars, reused, made, published, snap, pins, pointers, statementVars,
                   boundVars>>

-----------------------------------------------------------------------------
(* SaveCsrSnapshot and what deletes its rows. *)

(* max(snapshot_id) + 1, a query of its own before the transaction. *)
NextId == 1 + (IF savedCsr = {} THEN 0 ELSE Max({copy.id : copy \in savedCsr}))

SaveChooseId(s) ==
    /\ At(s, "save")
    /\ saveId' = [saveId EXCEPT ![s] = NextId]
    /\ Goto(s, "write")
    /\ UNCHANGED <<diskVars, reused, made, published, memoryVars, held, page, calls, boundVars>>

(* Mutant of SavedRows: pages counted from one. *)
SavedRowsFromOne(s) ==
    {[row |-> nextRow + p, id |-> saveId[s], page |-> p + 1, version |-> block[held[s]][p]] : p \in Pages}

(* One row per page, read through the snapshot's own pages. *)
SavedRows(s) ==
    {[row |-> nextRow + p, id |-> saveId[s], page |-> p, version |-> block[held[s]][p]] : p \in Pages}

(* The transaction that replaces the saved CSR. *)
SaveWrite(s) ==
    /\ At(s, "write")
    /\ savedCsr' = {[id |-> saveId[s], version |-> snap[held[s]].version]}
    /\ savedPage' = SavedRows(s)
    /\ nextRow' = nextRow + PageCount
    /\ reused' = reused \cup {i \in Snapshots : snap[i].id = saveId[s]}
    /\ pins' = [pins EXCEPT ![held[s]] = Pages]
    /\ pointers' = [pointers EXCEPT ![held[s]] = Pages]
    /\ Goto(s, "check")
    /\ UNCHANGED <<version, writes, made, published, snap, block, held, page, saveId, calls, boundVars>>

(* DropSavedCsrs *)
DropSaved ==
    /\ savedCsr' = {} /\ savedPage' = {}

(* "A delete planned during the save found nothing to drop yet." *)
SaveCheck(s) ==
    /\ At(s, "check")
    /\ IF snap[held[s]].writes # writes THEN DropSaved
       ELSE UNCHANGED <<savedCsr, savedPage>>
    /\ Goto(s, "clear")
    /\ UNCHANGED <<version, writes, nextRow, reused, made, published, memoryVars, held, page, saveId,
                   calls, boundVars>>

(* Inserts leave the snapshots and the saved CSR as they are. *)
Insert ==
    /\ inserts < InsertLimit /\ inserts' = inserts + 1
    /\ version' = version + 1
    /\ UNCHANGED <<writes, savedCsr, savedPage, nextRow, reused, made, published, memoryVars,
                   statementVars, fails, crashes>>

(* An update or delete: it drops the saved CSR, and no lookup after it finds a
   snapshot of the old rows. *)
Write ==
    /\ writes < WriteLimit /\ writes' = writes + 1
    /\ version' = version + 1
    /\ DropSaved
    /\ published' = {}
    /\ UNCHANGED <<nextRow, reused, made, memoryVars, statementVars, boundVars>>

(* The process ends: what is saved remains. *)
Crash ==
    /\ crashes < CrashLimit /\ crashes' = crashes + 1
    /\ reused' = {} /\ published' = {}
    /\ snap' = [i \in Snapshots |-> NoSnapshot]
    /\ block' = [i \in Snapshots |-> [p \in Pages |-> NotLoaded]]
    /\ pins' = [i \in Snapshots |-> {}]
    /\ pointers' = [i \in Snapshots |-> {}]
    /\ place' = [s \in Sessions |-> "idle"]
    /\ held' = [s \in Sessions |-> 0]
    /\ UNCHANGED <<diskVars, made, page, saveId, calls, inserts, fails>>

(* No statement is left to run. *)
Ended ==
    /\ \A s \in Sessions : At(s, "idle")
    /\ UNCHANGED vars

-----------------------------------------------------------------------------
SessionStep(s) ==
    \/ Acquire(s) \/ Load(s) \/ Build(s)
    \/ ReadPointer(s) \/ PinLoaded(s) \/ PinRead(s) \/ PinThrows(s) \/ Deref(s)
    \/ ClearLeases(s) \/ ReleaseUnheld(s)
    \/ SaveChooseId(s) \/ SaveWrite(s) \/ SaveCheck(s)

Next ==
    \/ \E s \in Sessions : SessionStep(s)
    \/ Insert \/ Write \/ Evict \/ Crash
    \/ Ended

Spec == Init /\ [][Next]_vars

-----------------------------------------------------------------------------
(* Properties. *)

Places == {"idle", "reading", "pin", "deref", "save", "write", "check", "clear", "release"}

(* The variables keep the shapes the code's types give them; a statement that reads
   or saves holds a snapshot. *)
TypeOK ==
    /\ version \in Nat /\ nextRow \in Nat /\ made \in Nat /\ writes \in Nat /\ reused \subseteq Snapshots
    /\ savedCsr \subseteq [id : Nat, version : Nat]
    /\ savedPage \subseteq [row : Nat, id : Nat, page : Pages, version : Nat \cup {Unfilled}]
    /\ snap \in [Snapshots -> [version : Nat, writes : Nat, id : Nat, rows : SUBSET [page : Pages, row : Nat]]]
    /\ published \subseteq Snapshots
    /\ block \in [Snapshots -> [Pages -> Nat \cup {NotLoaded, Unfilled}]]
    /\ pins \in [Snapshots -> SUBSET Pages]
    /\ pointers \in [Snapshots -> SUBSET Pages]
    /\ place \in [Sessions -> Places]
    /\ held \in [Sessions -> {0} \cup Snapshots]
    /\ page \in [Sessions -> Pages \cup {0}]
    /\ {saveId[s] : s \in Sessions} \subseteq Nat
    /\ \A s \in Sessions : place[s] \notin {"idle", "clear", "release"} => held[s] # 0

(* A reader dereferences a pointer it took without a lock only while the page is
   pinned: no QueryEnd of another connection releases it in between, and no memory
   pressure drops it.  "ReleasePages, which callers run when no query can be reading." *)
NoReadAfterRelease ==
    \A s \in Sessions : At(s, "deref") => page[s] \in pins[held[s]]

(* A reader is about to take a value from a page, and the saved CSR its snapshot was
   loaded from, if any, is the only one that was ever saved under that id since. *)
Reads(s) == At(s, "deref") /\ held[s] \notin reused

(* What is in the page a reader dereferences. *)
Bytes(s) == block[held[s]][page[s]]

(* Whatever was dropped, replaced, evicted or read again meanwhile, a reader sees the
   bytes of the CSR it opened, never those of another: a replaced CSR is noticed
   (TableCsrPageSource::Read), unless another was saved under the same id.  An unfilled
   page is the exception, see the next. *)
NoForeignBytes ==
    \A s \in Sessions : Reads(s) => Bytes(s) \in {snap[held[s]].version, Unfilled}

(* A page that is read always has its CSR's bytes: "CSR pages count towards the memory
   limit and are evicted, with the same answers as when they fit". *)
SameAnswers ==
    \A s \in Sessions : Reads(s) => Bytes(s) = snap[held[s]].version

(* When no statement runs, no page of a published snapshot is pinned: whatever order
   the last statements ended in, all of it can be evicted.  README: "Pages are paged
   in on demand and can be evicted under memory pressure". *)
NothingPinnedWhenIdle ==
    (\A s \in Sessions : At(s, "idle")) => \A i \in published : pins[i] = {}
=============================================================================
