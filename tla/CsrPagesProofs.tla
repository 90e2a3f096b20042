--------------------------- MODULE CsrPagesProofs ---------------------------
(***************************************************************************)
(* The properties of CsrPages, for every number of sessions, pages,        *)
(* snapshots, writes, failures and restarts: a reader never goes through a *)
(* pointer whose page was released, what it finds there is its own CSR's,  *)
(* and nothing stays pinned once the last statement has ended.             *)
(***************************************************************************)
EXTENDS CsrPages, TLAPS

(* The shapes the two arguments need. *)
Shapes ==
    /\ made \in Nat
    /\ published \subseteq Snapshots
    /\ pins \in [Snapshots -> SUBSET Pages]
    /\ pointers \in [Snapshots -> SUBSET Pages]
    /\ place \in [Sessions -> Places]
    /\ held \in [Sessions -> {0} \cup Snapshots]
    /\ page \in [Sessions -> Pages \cup {0}]

(* A pointer that is not null points to a pinned page. *)
PointersPinned == \A i \in Snapshots : pointers[i] \subseteq pins[i]

(* What a reader is about to read or pin is a page of a snapshot it holds. *)
ReadersHold ==
    \A s \in Sessions :
        /\ place[s] \in {"reading", "pin", "deref", "save", "write"} => held[s] \in Snapshots
        /\ place[s] \in {"pin", "deref"} => page[s] \in Pages

(* A statement gives its snapshot up before it releases pages. *)
IdleHoldsNothing ==
    \A s \in Sessions : place[s] \in {"idle", "release"} => held[s] = 0

(* Someone will release what is pinned: a holder, or a statement about to. *)
SomeoneReleases ==
    \A i \in published : pins[i] # {} =>
        \E s \in Sessions : held[s] = i \/ place[s] = "release"

(* Snapshots not made yet have no pages, and nobody has them. *)
UnmadeUnpinned ==
    /\ \A i \in Snapshots : i > made => pins[i] = {}
    /\ \A i \in published : i <= made
    /\ \A s \in Sessions : held[s] <= made

PagesInv ==
    /\ Shapes
    /\ PointersPinned
    /\ ReadersHold
    /\ IdleHoldsNothing
    /\ SomeoneReleases
    /\ UnmadeUnpinned
    /\ NoReadAfterRelease

-----------------------------------------------------------------------------
LEMMA SnapshotNumbers == Snapshots \subseteq Nat /\ 0 \notin Snapshots
  BY PagesConstantsAssumption DEF Snapshots

LEMMA InitPages == Init => PagesInv
  BY PagesConstantsAssumption DEF Init, InitMemory, PagesInv, Shapes, PointersPinned, ReadersHold,
     IdleHoldsNothing, SomeoneReleases, UnmadeUnpinned, NoReadAfterRelease, At, Places

(* One lemma per action. *)

LEMMA AcquirePages ==
  ASSUME NEW s \in Sessions, PagesInv, Acquire(s)
  PROVE  PagesInv'
<1>1. Shapes'
  BY DEF Acquire, Begin, Hold, Goto, memoryVars, PagesInv, At, Shapes, Places, ReadersHold,
     Snapshots, UnmadeUnpinned
<1>2. PointersPinned'
  BY DEF Acquire, Begin, Hold, Goto, memoryVars, PagesInv, At, Shapes, PointersPinned,
     ReadersHold, UnmadeUnpinned
<1>3. ReadersHold'
  BY DEF Acquire, Begin, Hold, Goto, memoryVars, PagesInv, At, Shapes, ReadersHold, Places
<1>4. IdleHoldsNothing'
  BY DEF Acquire, Begin, Hold, Goto, memoryVars, PagesInv, At, Shapes, IdleHoldsNothing
<1>5. SomeoneReleases'
  <2> SUFFICES ASSUME NEW i \in published', pins'[i] # {}
               PROVE  \E t \in Sessions : held'[t] = i \/ place'[t] = "release"
    BY DEF SomeoneReleases
  <2>1. i \in published /\ pins[i] # {} /\ i # 0
    BY SnapshotNumbers DEF Acquire, memoryVars, PagesInv, Shapes
  <2>2. PICK t \in Sessions : held[t] = i \/ place[t] = "release"
    BY <2>1 DEF PagesInv, SomeoneReleases
  <2>3. t # s
    BY <2>1, <2>2 DEF Acquire, Begin, At, PagesInv, IdleHoldsNothing
  <2>4. held'[t] = held[t] /\ place'[t] = place[t]
    BY <2>3 DEF Acquire, Hold, Goto, PagesInv, Shapes
  <2>. QED
    BY <2>2, <2>4
<1>6. UnmadeUnpinned'
  BY SnapshotNumbers DEF Acquire, Begin, Hold, Goto, memoryVars, PagesInv, At, Shapes,
     ReadersHold, UnmadeUnpinned
<1>7. NoReadAfterRelease'
  BY DEF Acquire, Begin, Hold, Goto, memoryVars, PagesInv, At, Shapes, ReadersHold,
     PointersPinned, NoReadAfterRelease
<1>. QED
  BY <1>1, <1>2, <1>3, <1>4, <1>5, <1>6, <1>7 DEF PagesInv

LEMMA LoadPages ==
  ASSUME NEW s \in Sessions, PagesInv, Load(s)
  PROVE  PagesInv'
<1>0. made + 1 \in Snapshots
  BY PagesConstantsAssumption DEF Load, Begin, MakeSnapshot, Snapshots, PagesInv, Shapes
<1>1. Shapes'
  BY <1>0 DEF Load, Begin, MakeSnapshot, Hold, Goto, PagesInv, At, Shapes, Places, ReadersHold,
     UnmadeUnpinned
<1>2. PointersPinned'
  BY <1>0 DEF Load, Begin, MakeSnapshot, Hold, Goto, PagesInv, At, Shapes, PointersPinned,
     ReadersHold, UnmadeUnpinned
<1>3. ReadersHold'
  BY <1>0 DEF Load, Begin, MakeSnapshot, Hold, Goto, PagesInv, At, Shapes, ReadersHold, Places
<1>4. IdleHoldsNothing'
  BY <1>0 DEF Load, Begin, MakeSnapshot, Hold, Goto, PagesInv, At, Shapes, IdleHoldsNothing
<1>5. SomeoneReleases'
  BY <1>0, SnapshotNumbers DEF Load, Begin, MakeSnapshot, Hold, Goto, PagesInv, At, Shapes,
     ReadersHold, IdleHoldsNothing, SomeoneReleases, UnmadeUnpinned
<1>6. UnmadeUnpinned'
  BY <1>0, SnapshotNumbers DEF Load, Begin, MakeSnapshot, Hold, Goto, PagesInv, At, Shapes,
     ReadersHold, UnmadeUnpinned
<1>7. NoReadAfterRelease'
  BY <1>0 DEF Load, Begin, MakeSnapshot, Hold, Goto, PagesInv, At, Shapes, ReadersHold,
     PointersPinned, NoReadAfterRelease
<1>. QED
  BY <1>1, <1>2, <1>3, <1>4, <1>5, <1>6, <1>7 DEF PagesInv

LEMMA BuildPages ==
  ASSUME NEW s \in Sessions, PagesInv, Build(s)
  PROVE  PagesInv'
<1>0. made + 1 \in Snapshots
  BY PagesConstantsAssumption DEF Build, Begin, MakeSnapshot, Snapshots, PagesInv, Shapes
<1>1. Shapes'
  BY <1>0 DEF Build, Begin, MakeSnapshot, Hold, Goto, PagesInv, At, Shapes, Places, ReadersHold,
     UnmadeUnpinned
<1>2. PointersPinned'
  BY <1>0 DEF Build, Begin, MakeSnapshot, Hold, Goto, PagesInv, At, Shapes, PointersPinned,
     ReadersHold, UnmadeUnpinned
<1>3. ReadersHold'
  BY <1>0 DEF Build, Begin, MakeSnapshot, Hold, Goto, PagesInv, At, Shapes, ReadersHold, Places
<1>4. IdleHoldsNothing'
  BY <1>0 DEF Build, Begin, MakeSnapshot, Hold, Goto, PagesInv, At, Shapes, IdleHoldsNothing
<1>5. SomeoneReleases'
  BY <1>0, SnapshotNumbers DEF Build, Begin, MakeSnapshot, Hold, Goto, PagesInv, At, Shapes,
     ReadersHold, IdleHoldsNothing, SomeoneReleases, UnmadeUnpinned
<1>6. UnmadeUnpinned'
  BY <1>0, SnapshotNumbers DEF Build, Begin, MakeSnapshot, Hold, Goto, PagesInv, At, Shapes,
     ReadersHold, UnmadeUnpinned
<1>7. NoReadAfterRelease'
  BY <1>0 DEF Build, Begin, MakeSnapshot, Hold, Goto, PagesInv, At, Shapes, ReadersHold,
     PointersPinned, NoReadAfterRelease
<1>. QED
  BY <1>1, <1>2, <1>3, <1>4, <1>5, <1>6, <1>7 DEF PagesInv

LEMMA ReadPointerPages ==
  ASSUME NEW s \in Sessions, PagesInv, ReadPointer(s)
  PROVE  PagesInv'
  BY DEF ReadPointer, Goto, memoryVars, PagesInv, Shapes, PointersPinned, ReadersHold,
     IdleHoldsNothing, SomeoneReleases,
     UnmadeUnpinned, NoReadAfterRelease, At, Places

LEMMA PinLoadedPages ==
  ASSUME NEW s \in Sessions, PagesInv, PinLoaded(s)
  PROVE  PagesInv'
<1>1. Shapes'
  BY DEF PinLoaded, Pinned, Goto, PagesInv, At, Shapes, Places, ReadersHold, Snapshots,
     UnmadeUnpinned
<1>2. PointersPinned'
  BY DEF PinLoaded, Pinned, Goto, PagesInv, At, Shapes, PointersPinned, ReadersHold, UnmadeUnpinned
<1>3. ReadersHold'
  BY DEF PinLoaded, Pinned, Goto, PagesInv, At, Shapes, ReadersHold, Places
<1>4. IdleHoldsNothing'
  BY DEF PinLoaded, Pinned, Goto, PagesInv, At, Shapes, IdleHoldsNothing
<1>5. SomeoneReleases'
  BY SnapshotNumbers DEF PinLoaded, Pinned, Goto, PagesInv, At, Shapes, ReadersHold,
     IdleHoldsNothing, SomeoneReleases, UnmadeUnpinned
<1>6. UnmadeUnpinned'
  BY SnapshotNumbers DEF PinLoaded, Pinned, Goto, PagesInv, At, Shapes, ReadersHold, UnmadeUnpinned
<1>7. NoReadAfterRelease'
  BY DEF PinLoaded, Pinned, Goto, PagesInv, At, Shapes, ReadersHold, PointersPinned,
     NoReadAfterRelease
<1>. QED
  BY <1>1, <1>2, <1>3, <1>4, <1>5, <1>6, <1>7 DEF PagesInv

LEMMA PinReadPages ==
  ASSUME NEW s \in Sessions, PagesInv, PinRead(s)
  PROVE  PagesInv'
<1>1. Shapes'
  BY DEF PinRead, Pinned, Goto, PagesInv, At, Shapes, Places, ReadersHold, Snapshots, UnmadeUnpinned
<1>2. PointersPinned'
  BY DEF PinRead, Pinned, Goto, PagesInv, At, Shapes, PointersPinned, ReadersHold, UnmadeUnpinned
<1>3. ReadersHold'
  BY DEF PinRead, Pinned, Goto, PagesInv, At, Shapes, ReadersHold, Places
<1>4. IdleHoldsNothing'
  BY DEF PinRead, Pinned, Goto, PagesInv, At, Shapes, IdleHoldsNothing
<1>5. SomeoneReleases'
  BY SnapshotNumbers DEF PinRead, Pinned, Goto, PagesInv, At, Shapes, ReadersHold,
     IdleHoldsNothing, SomeoneReleases, UnmadeUnpinned
<1>6. UnmadeUnpinned'
  BY SnapshotNumbers DEF PinRead, Pinned, Goto, PagesInv, At, Shapes, ReadersHold, UnmadeUnpinned
<1>7. NoReadAfterRelease'
  BY DEF PinRead, Pinned, Goto, PagesInv, At, Shapes, ReadersHold, PointersPinned,
     NoReadAfterRelease
<1>. QED
  BY <1>1, <1>2, <1>3, <1>4, <1>5, <1>6, <1>7 DEF PagesInv

LEMMA PinThrowsPages ==
  ASSUME NEW s \in Sessions, PagesInv, PinThrows(s)
  PROVE  PagesInv'
<1>1. Shapes'
  BY DEF PinThrows, Pinned, Goto, PagesInv, At, Shapes, Places, ReadersHold, Snapshots,
     UnmadeUnpinned
<1>2. PointersPinned'
  BY DEF PinThrows, Pinned, Goto, PagesInv, At, Shapes, PointersPinned, ReadersHold, UnmadeUnpinned
<1>3. ReadersHold'
  BY DEF PinThrows, Pinned, Goto, PagesInv, At, Shapes, ReadersHold, Places
<1>4. IdleHoldsNothing'
  BY DEF PinThrows, Pinned, Goto, PagesInv, At, Shapes, IdleHoldsNothing
<1>5. SomeoneReleases'
  BY SnapshotNumbers DEF PinThrows, Pinned, Goto, PagesInv, At, Shapes, ReadersHold,
     IdleHoldsNothing, SomeoneReleases, UnmadeUnpinned
<1>6. UnmadeUnpinned'
  BY SnapshotNumbers DEF PinThrows, Pinned, Goto, PagesInv, At, Shapes, ReadersHold, UnmadeUnpinned
<1>7. NoReadAfterRelease'
  BY DEF PinThrows, Pinned, Goto, PagesInv, At, Shapes, ReadersHold, PointersPinned,
     NoReadAfterRelease
<1>. QED
  BY <1>1, <1>2, <1>3, <1>4, <1>5, <1>6, <1>7 DEF PagesInv

LEMMA DerefPages ==
  ASSUME NEW s \in Sessions, PagesInv, Deref(s)
  PROVE  PagesInv'
  BY DEF Deref, Goto, memoryVars, PagesInv, Shapes, PointersPinned, ReadersHold,
     IdleHoldsNothing, SomeoneReleases,
     UnmadeUnpinned, NoReadAfterRelease, At, Places

LEMMA ClearLeasesPages ==
  ASSUME NEW s \in Sessions, PagesInv, ClearLeases(s)
  PROVE  PagesInv'
  BY DEF ClearLeases, ReleaseNext, Goto, memoryVars, PagesInv, Shapes, PointersPinned,
     ReadersHold, IdleHoldsNothing, SomeoneReleases,
     UnmadeUnpinned, NoReadAfterRelease, At, Places

LEMMA ReleaseUnheldPages ==
  ASSUME NEW s \in Sessions, PagesInv, ReleaseUnheld(s)
  PROVE  PagesInv'
  BY DEF ReleaseUnheld, HeldOnlyByStorage, Hold, Goto, PagesInv, Shapes, PointersPinned,
     ReadersHold, IdleHoldsNothing, SomeoneReleases,
     UnmadeUnpinned, NoReadAfterRelease, At, Places

LEMMA SaveChooseIdPages ==
  ASSUME NEW s \in Sessions, PagesInv, SaveChooseId(s)
  PROVE  PagesInv'
<1>1. Shapes'
  BY DEF SaveChooseId, Goto, memoryVars, PagesInv, At, Shapes, Places, ReadersHold, Snapshots,
     UnmadeUnpinned
<1>2. PointersPinned'
  BY DEF SaveChooseId, Goto, memoryVars, PagesInv, At, Shapes, PointersPinned, ReadersHold,
     UnmadeUnpinned
<1>3. ReadersHold'
  BY DEF SaveChooseId, Goto, memoryVars, PagesInv, At, Shapes, ReadersHold, Places
<1>4. IdleHoldsNothing'
  BY DEF SaveChooseId, Goto, memoryVars, PagesInv, At, Shapes, IdleHoldsNothing
<1>5. SomeoneReleases'
  BY SnapshotNumbers DEF SaveChooseId, Goto, memoryVars, PagesInv, At, Shapes, ReadersHold,
     IdleHoldsNothing, SomeoneReleases, UnmadeUnpinned
<1>6. UnmadeUnpinned'
  BY SnapshotNumbers DEF SaveChooseId, Goto, memoryVars, PagesInv, At, Shapes, ReadersHold,
     UnmadeUnpinned
<1>7. NoReadAfterRelease'
  BY DEF SaveChooseId, Goto, memoryVars, PagesInv, At, Shapes, ReadersHold, PointersPinned,
     NoReadAfterRelease
<1>. QED
  BY <1>1, <1>2, <1>3, <1>4, <1>5, <1>6, <1>7 DEF PagesInv

LEMMA SaveWritePages ==
  ASSUME NEW s \in Sessions, PagesInv, SaveWrite(s)
  PROVE  PagesInv'
<1>1. Shapes'
  BY DEF SaveWrite, Goto, PagesInv, At, Shapes, Places, ReadersHold, Snapshots, UnmadeUnpinned
<1>2. PointersPinned'
  BY DEF SaveWrite, Goto, PagesInv, At, Shapes, PointersPinned, ReadersHold, UnmadeUnpinned
<1>3. ReadersHold'
  BY DEF SaveWrite, Goto, PagesInv, At, Shapes, ReadersHold, Places
<1>4. IdleHoldsNothing'
  BY DEF SaveWrite, Goto, PagesInv, At, Shapes, IdleHoldsNothing
<1>5. SomeoneReleases'
  BY SnapshotNumbers DEF SaveWrite, Goto, PagesInv, At, Shapes, ReadersHold, IdleHoldsNothing,
     SomeoneReleases, UnmadeUnpinned
<1>6. UnmadeUnpinned'
  BY SnapshotNumbers DEF SaveWrite, Goto, PagesInv, At, Shapes, ReadersHold, UnmadeUnpinned
<1>7. NoReadAfterRelease'
  BY DEF SaveWrite, Goto, PagesInv, At, Shapes, ReadersHold, PointersPinned, NoReadAfterRelease
<1>. QED
  BY <1>1, <1>2, <1>3, <1>4, <1>5, <1>6, <1>7 DEF PagesInv

LEMMA SaveCheckPages ==
  ASSUME NEW s \in Sessions, PagesInv, SaveCheck(s)
  PROVE  PagesInv'
  BY DEF SaveCheck, Goto, memoryVars, PagesInv, Shapes, PointersPinned, ReadersHold,
     IdleHoldsNothing, SomeoneReleases,
     UnmadeUnpinned, NoReadAfterRelease, At, Places

LEMMA InsertPages ==
  ASSUME PagesInv, Insert
  PROVE  PagesInv'
  BY DEF Insert, memoryVars, statementVars, PagesInv, Shapes, PointersPinned, ReadersHold,
     IdleHoldsNothing, SomeoneReleases,
     UnmadeUnpinned, NoReadAfterRelease, At, Places

LEMMA WritePages ==
  ASSUME PagesInv, Write
  PROVE  PagesInv'
  BY DEF Write, memoryVars, statementVars, PagesInv, Shapes, PointersPinned, ReadersHold,
     IdleHoldsNothing, SomeoneReleases,
     UnmadeUnpinned, NoReadAfterRelease, At, Places

LEMMA EvictPages ==
  ASSUME PagesInv, Evict
  PROVE  PagesInv'
  BY DEF Evict, statementVars, PagesInv, Shapes, PointersPinned, ReadersHold, IdleHoldsNothing,
     SomeoneReleases,
     UnmadeUnpinned, NoReadAfterRelease, At, Places

LEMMA CrashPages ==
  ASSUME PagesInv, Crash
  PROVE  PagesInv'
  BY DEF Crash, PagesInv, Shapes, PointersPinned, ReadersHold, IdleHoldsNothing, SomeoneReleases,
     UnmadeUnpinned, NoReadAfterRelease, At, Places

LEMMA StutterPages ==
  ASSUME PagesInv, UNCHANGED vars
  PROVE  PagesInv'
  BY DEF vars, memoryVars, statementVars, PagesInv, Shapes, PointersPinned, ReadersHold,
     IdleHoldsNothing, SomeoneReleases,
     UnmadeUnpinned, NoReadAfterRelease, At, Places

-----------------------------------------------------------------------------
LEMMA StepPages ==
  ASSUME PagesInv, [Next]_vars
  PROVE  PagesInv'
<1>1. ASSUME NEW s \in Sessions, SessionStep(s)
      PROVE  PagesInv'
  BY <1>1, AcquirePages, LoadPages, BuildPages, ReadPointerPages, PinLoadedPages, PinReadPages,
     PinThrowsPages, DerefPages, ClearLeasesPages, ReleaseUnheldPages, SaveChooseIdPages,
     SaveWritePages, SaveCheckPages DEF SessionStep
<1>2. CASE Insert \/ Write \/ Evict \/ Crash
  BY <1>2, InsertPages, WritePages, EvictPages, CrashPages
<1>3. CASE Ended \/ UNCHANGED vars
  BY <1>3, StutterPages DEF Ended
<1>. QED
  BY <1>1, <1>2, <1>3 DEF Next

LEMMA PagesInductive == Spec => []PagesInv
<1>1. Init => PagesInv
  BY InitPages
<1>2. PagesInv /\ [Next]_vars => PagesInv'
  BY StepPages
<1>. QED
  BY <1>1, <1>2, PTL DEF Spec

(* A page stays pinned from the moment a reader takes its pointer, without any lock,
   until the reader is through with it (GqlCsrPages::Page and ReleasePages). *)
THEOREM PagesOutliveReaders == Spec => []NoReadAfterRelease
<1>1. PagesInv => NoReadAfterRelease
  BY DEF PagesInv
<1>. QED
  BY <1>1, PagesInductive, PTL

(* The last statement to end releases every page that is still pinned, whatever
   statements ended before it and in whatever order their two steps ran (QueryEnd). *)
THEOREM IdleInstancePinsNothing == Spec => []NothingPinnedWhenIdle
<1>1. PagesInv => NothingPinnedWhenIdle
  <2> SUFFICES ASSUME PagesInv, \A s \in Sessions : At(s, "idle"),
                      NEW i \in published, pins[i] # {}
               PROVE  FALSE
    BY DEF NothingPinnedWhenIdle
  <2>1. PICK s \in Sessions : held[s] = i \/ place[s] = "release"
    BY DEF PagesInv, SomeoneReleases
  <2>2. held[s] = 0
    BY DEF At, PagesInv, IdleHoldsNothing
  <2>3. i # 0
    BY DEF PagesInv, Shapes, Snapshots
  <2>. QED
    BY <2>1, <2>2, <2>3 DEF At
<1>. QED
  BY <1>1, PagesInductive, PTL
-----------------------------------------------------------------------------
(* What is in the pages. *)

(* TypeOK, and what it leaves open of the variables that are updated in place. *)
Typed ==
    /\ TypeOK
    /\ version > 0
    /\ saveId \in [Sessions -> Nat]

(* One saved CSR at most, and its rows hold its bytes. *)
SavedHoldsItsBytes ==
    /\ \A copy, other \in savedCsr : copy = other
    /\ \A copy \in savedCsr : copy.version > 0
    /\ \A r \in savedPage : \E copy \in savedCsr : r.id = copy.id /\ r.version = copy.version

(* Ids start at one, so that 0 stands for none. *)
SavedIdsPositive ==
    /\ \A copy \in savedCsr : copy.id > 0
    /\ \A s \in Sessions : place[s] = "write" => saveId[s] > 0

(* The saved CSR that has the id a snapshot was loaded under is the one it was loaded
   from, unless the id was given away. *)
LoadedFromSaved ==
    \A i \in Snapshots \ reused : \A copy \in savedCsr :
        snap[i].id = copy.id => snap[i].version = copy.version

(* A page in memory holds its CSR's bytes, or was never filled. *)
BlocksHoldTheirBytes ==
    \A i \in Snapshots \ reused : \A p \in Pages :
        block[i][p] \in {snap[i].version, NotLoaded, Unfilled}

PinnedLoaded == \A i \in Snapshots : \A p \in pins[i] : block[i][p] # NotLoaded

(* What is being saved was built here, so all of it is in memory. *)
SavingBuilt ==
    \A s \in Sessions : place[s] \in {"save", "write"} =>
        /\ snap[held[s]].version > 0
        /\ snap[held[s]].id = 0
        /\ \A p \in Pages : block[held[s]][p] = snap[held[s]].version

UnmadeEmpty ==
    \A i \in Snapshots : i > made =>
        /\ snap[i] = NoSnapshot
        /\ block[i] = [p \in Pages |-> NotLoaded]

ContentsInv ==
    /\ Typed
    /\ SavedHoldsItsBytes
    /\ SavedIdsPositive
    /\ LoadedFromSaved
    /\ BlocksHoldTheirBytes
    /\ PinnedLoaded
    /\ SavingBuilt
    /\ UnmadeEmpty

LEMMA InitContents == Init => ContentsInv
  BY PagesConstantsAssumption DEF Init, InitMemory, ContentsInv, Typed, TypeOK, SavedHoldsItsBytes,
     SavedIdsPositive, LoadedFromSaved, BlocksHoldTheirBytes, PinnedLoaded, SavingBuilt, UnmadeEmpty,
     NoSnapshot, Places, NotLoaded, Unfilled, Snapshots

(* A step of a statement that leaves the contents alone. *)
LEMMA SameContents ==
  ASSUME PagesInv, ContentsInv, TypeOK',
         UNCHANGED <<version, savedCsr, savedPage, reused, made, snap, block, saveId>>,
         \A i \in Snapshots : \A p \in pins'[i] : p \in pins[i] \/ block[i][p] # NotLoaded,
         \A s \in Sessions : place'[s] \in {"save", "write"} =>
             place'[s] = place[s] /\ held'[s] = held[s]
  PROVE  ContentsInv'
  BY DEF ContentsInv, Typed, SavedHoldsItsBytes, SavedIdsPositive, LoadedFromSaved,
     BlocksHoldTheirBytes, PinnedLoaded,
     SavingBuilt, UnmadeEmpty

(* What TypeOK says beyond Shapes. *)
LEMMA TypesFromShapes ==
  ASSUME PagesInv',
         version' \in Nat, nextRow' \in Nat, writes' \in Nat, reused' \subseteq Snapshots,
         savedCsr' \subseteq [id : Nat, version : Nat],
         savedPage' \subseteq [row : Nat, id : Nat, page : Pages, version : Nat \cup {Unfilled}],
         snap' \in [Snapshots -> [version : Nat, writes : Nat, id : Nat,
                                  rows : SUBSET [page : Pages, row : Nat]]],
         block' \in [Snapshots -> [Pages -> Nat \cup {NotLoaded, Unfilled}]],
         saveId' \in [Sessions -> Nat],
         \A s \in Sessions : place'[s] \notin {"idle", "clear", "release"} => held'[s] # 0
  PROVE  TypeOK'
  BY DEF PagesInv, Shapes, TypeOK

(* A statement that moves on and holds a snapshot where it must. *)
LEMMA OthersStillHold ==
  ASSUME PagesInv, TypeOK, NEW s \in Sessions, NEW there, NEW i \in {0} \cup Snapshots,
         there \in {"idle", "clear", "release"} \/ i # 0,
         place' = [place EXCEPT ![s] = there], held' = [held EXCEPT ![s] = i]
  PROVE  \A t \in Sessions : place'[t] \notin {"idle", "clear", "release"} => held'[t] # 0
  BY DEF PagesInv, Shapes, TypeOK

LEMMA AcquireContents ==
  ASSUME PagesInv, PagesInv', ContentsInv, NEW s \in Sessions, Acquire(s)
  PROVE  ContentsInv'
<1>0. PICK i \in published : Hold(s, i)
  BY DEF Acquire
<1>1. i \in Snapshots /\ i # 0
  BY SnapshotNumbers DEF PagesInv, Shapes
<1>2. TypeOK'
  <2>1. \A t \in Sessions : place'[t] \notin {"idle", "clear", "release"} => held'[t] # 0
    BY <1>0, <1>1, OthersStillHold DEF Acquire, Goto, Hold, ContentsInv, Typed
  <2>. QED
    BY <2>1, TypesFromShapes DEF Acquire, diskVars, memoryVars, ContentsInv, Typed, TypeOK
<1>3. \A t \in Sessions : place'[t] \in {"save", "write"} =>
          place'[t] = place[t] /\ held'[t] = held[t]
  BY <1>0 DEF Acquire, Goto, Hold, PagesInv, Shapes
<1>. QED
  BY <1>2, <1>3, SameContents DEF Acquire, diskVars, memoryVars

LEMMA ReadPointerContents ==
  ASSUME PagesInv, PagesInv', ContentsInv, NEW s \in Sessions, ReadPointer(s)
  PROVE  ContentsInv'
<1>1. \A t \in Sessions : place'[t] \notin {"idle", "clear", "release"} => held'[t] # 0
  BY DEF ReadPointer, Goto, At, PagesInv, Shapes, ContentsInv, Typed, TypeOK
<1>2. TypeOK'
  BY <1>1, TypesFromShapes DEF ReadPointer, diskVars, memoryVars, ContentsInv, Typed, TypeOK
<1>3. \A t \in Sessions : place'[t] \in {"save", "write"} =>
          place'[t] = place[t] /\ held'[t] = held[t]
  BY DEF ReadPointer, Goto, PagesInv, Shapes
<1>. QED
  BY <1>2, <1>3, SameContents DEF ReadPointer, diskVars, memoryVars

LEMMA PinLoadedContents ==
  ASSUME PagesInv, PagesInv', ContentsInv, NEW s \in Sessions, PinLoaded(s)
  PROVE  ContentsInv'
<1>1. \A t \in Sessions : place'[t] \notin {"idle", "clear", "release"} => held'[t] # 0
  BY DEF PinLoaded, Goto, At, PagesInv, Shapes, ContentsInv, Typed, TypeOK
<1>2. TypeOK'
  BY <1>1, TypesFromShapes DEF PinLoaded, diskVars, ContentsInv, Typed, TypeOK
<1>3. \A t \in Sessions : place'[t] \in {"save", "write"} =>
          place'[t] = place[t] /\ held'[t] = held[t]
  BY DEF PinLoaded, Goto, PagesInv, Shapes
<1>4. \A i \in Snapshots : \A p \in pins'[i] : p \in pins[i] \/ block[i][p] # NotLoaded
  BY DEF PinLoaded, Pinned, PagesInv, Shapes, PointersPinned, ReadersHold, At
<1>. QED
  BY <1>2, <1>3, <1>4, SameContents DEF PinLoaded, diskVars

LEMMA DerefContents ==
  ASSUME PagesInv, PagesInv', ContentsInv, NEW s \in Sessions, Deref(s)
  PROVE  ContentsInv'
<1>1. \A t \in Sessions : place'[t] \notin {"idle", "clear", "release"} => held'[t] # 0
  BY DEF Deref, Goto, At, PagesInv, Shapes, ContentsInv, Typed, TypeOK
<1>2. TypeOK'
  BY <1>1, TypesFromShapes DEF Deref, diskVars, memoryVars, ContentsInv, Typed, TypeOK
<1>3. \A t \in Sessions : place'[t] \in {"save", "write"} =>
          place'[t] = place[t] /\ held'[t] = held[t]
  BY DEF Deref, Goto, PagesInv, Shapes
<1>. QED
  BY <1>2, <1>3, SameContents DEF Deref, diskVars, memoryVars

LEMMA ClearLeasesContents ==
  ASSUME PagesInv, PagesInv', ContentsInv, NEW s \in Sessions, ClearLeases(s)
  PROVE  ContentsInv'
<1>1. \A t \in Sessions : place'[t] \notin {"idle", "clear", "release"} => held'[t] # 0
  BY DEF ClearLeases, ReleaseNext, Goto, At, PagesInv, Shapes, ContentsInv, Typed, TypeOK
<1>2. TypeOK'
  BY <1>1, TypesFromShapes DEF ClearLeases, diskVars, memoryVars, ContentsInv, Typed, TypeOK
<1>3. \A t \in Sessions : place'[t] \in {"save", "write"} =>
          place'[t] = place[t] /\ held'[t] = held[t]
  BY DEF ClearLeases, ReleaseNext, Goto, PagesInv, Shapes
<1>. QED
  BY <1>2, <1>3, SameContents DEF ClearLeases, diskVars, memoryVars

LEMMA ReleaseUnheldContents ==
  ASSUME PagesInv, PagesInv', ContentsInv, NEW s \in Sessions, ReleaseUnheld(s)
  PROVE  ContentsInv'
<1>1. \A t \in Sessions : place'[t] \notin {"idle", "clear", "release"} => held'[t] # 0
  BY DEF ReleaseUnheld, Hold, Goto, At, PagesInv, Shapes, ContentsInv, Typed, TypeOK
<1>2. TypeOK'
  BY <1>1, TypesFromShapes DEF ReleaseUnheld, diskVars, ContentsInv, Typed, TypeOK
<1>3. \A t \in Sessions : place'[t] \in {"save", "write"} =>
          place'[t] = place[t] /\ held'[t] = held[t]
  BY DEF ReleaseUnheld, Hold, Goto, PagesInv, Shapes
<1>4. \A i \in Snapshots : \A p \in pins'[i] : p \in pins[i]
  BY DEF ReleaseUnheld
<1>. QED
  BY <1>2, <1>3, <1>4, SameContents DEF ReleaseUnheld, diskVars

LEMMA LoadContents ==
  ASSUME PagesInv, PagesInv', ContentsInv, NEW s \in Sessions, Load(s)
  PROVE  ContentsInv'
<1>0. made + 1 \in Snapshots /\ made + 1 # 0 /\ made \in Nat
  BY PagesConstantsAssumption DEF Load, Begin, MakeSnapshot, Snapshots, PagesInv, Shapes
<1> PICK copy \in savedCsr :
       MakeSnapshot(s, [NoSnapshot EXCEPT !.version = copy.version, !.id = copy.id, !.writes = writes])
  BY DEF Load
<1> DEFINE new == [NoSnapshot EXCEPT !.version = copy.version, !.id = copy.id, !.writes = writes]
<1>1. /\ copy.version \in Nat /\ copy.id \in Nat /\ writes \in Nat
      /\ new \in [version : Nat, writes : Nat, id : Nat, rows : SUBSET [page : Pages, row : Nat]]
      /\ new.id = copy.id /\ new.version = copy.version
  BY DEF ContentsInv, Typed, TypeOK, NoSnapshot
<1>2. snap' = [snap EXCEPT ![made + 1] = new] /\ made' = made + 1
  BY DEF MakeSnapshot
<1> HIDE DEF new
<1>3. \A t \in Sessions : place'[t] \notin {"idle", "clear", "release"} => held'[t] # 0
  BY <1>0, OthersStillHold DEF Load, MakeSnapshot, Goto, Hold, ContentsInv, Typed
<1>4. TypeOK'
  BY <1>0, <1>1, <1>2, <1>3, TypesFromShapes DEF Load, diskVars, ContentsInv, Typed, TypeOK
<1>5. snap'[made + 1] = new /\ \A i \in Snapshots : i # made + 1 => snap'[i] = snap[i]
  BY <1>0, <1>2 DEF ContentsInv, Typed, TypeOK
<1>6. UNCHANGED <<version, savedCsr, savedPage, reused, block, pins, saveId>>
  BY DEF Load, diskVars
<1>7. LoadedFromSaved'
  BY <1>1, <1>5, <1>6 DEF ContentsInv, LoadedFromSaved, SavedHoldsItsBytes
<1>8. BlocksHoldTheirBytes'
  BY <1>0, <1>5, <1>6 DEF ContentsInv, BlocksHoldTheirBytes, UnmadeEmpty
<1>9. SavingBuilt'
  <2> SUFFICES ASSUME NEW t \in Sessions, place'[t] \in {"save", "write"}
               PROVE  /\ snap'[held'[t]].version > 0
                      /\ snap'[held'[t]].id = 0
                      /\ \A p \in Pages : block'[held'[t]][p] = snap'[held'[t]].version
    BY DEF SavingBuilt
  <2>1. t # s
    BY DEF Load, Goto, PagesInv, Shapes
  <2>2. place[t] = place'[t] /\ held'[t] = held[t]
    BY <2>1 DEF Load, MakeSnapshot, Goto, Hold, PagesInv, Shapes
  <2>3. held[t] # made + 1 /\ held[t] \in Snapshots
    BY <1>0, <2>2, SnapshotNumbers DEF PagesInv, UnmadeUnpinned, ReadersHold
  <2>. QED
    BY <1>5, <1>6, <2>2, <2>3 DEF ContentsInv, SavingBuilt
<1>10. UnmadeEmpty'
  BY <1>0, <1>2, <1>5, <1>6, SnapshotNumbers DEF ContentsInv, UnmadeEmpty
<1>11. SavedIdsPositive'
  BY <1>6 DEF Load, Goto, PagesInv, Shapes, ContentsInv, SavedIdsPositive
<1>. QED
  BY <1>4, <1>6, <1>7, <1>8, <1>9, <1>10, <1>11 DEF ContentsInv, Typed, SavedHoldsItsBytes, PinnedLoaded

LEMMA BuildContents ==
  ASSUME PagesInv, PagesInv', ContentsInv, NEW s \in Sessions, Build(s)
  PROVE  ContentsInv'
<1>0. made + 1 \in Snapshots /\ made + 1 # 0 /\ made \in Nat
  BY PagesConstantsAssumption DEF Build, Begin, MakeSnapshot, Snapshots, PagesInv, Shapes
<1> DEFINE new == [NoSnapshot EXCEPT !.version = version, !.writes = writes]
<1>1. /\ version \in Nat /\ version > 0 /\ writes \in Nat
      /\ new \in [version : Nat, writes : Nat, id : Nat, rows : SUBSET [page : Pages, row : Nat]]
      /\ new.id = 0 /\ new.version = version
  BY DEF ContentsInv, Typed, TypeOK, NoSnapshot
<1>2. snap' = [snap EXCEPT ![made + 1] = new] /\ made' = made + 1
  BY DEF Build, MakeSnapshot
<1> HIDE DEF new
<1>3. \A t \in Sessions : place'[t] \notin {"idle", "clear", "release"} => held'[t] # 0
  BY <1>0, OthersStillHold DEF Build, MakeSnapshot, Goto, Hold, ContentsInv, Typed
<1>4. block' \in [Snapshots -> [Pages -> Nat \cup {NotLoaded, Unfilled}]]
  BY <1>1 DEF Build, ContentsInv, Typed, TypeOK
<1>41. TypeOK'
  BY <1>0, <1>1, <1>2, <1>3, <1>4, TypesFromShapes DEF Build, diskVars, ContentsInv, Typed, TypeOK
<1>5. snap'[made + 1] = new /\ \A i \in Snapshots : i # made + 1 => snap'[i] = snap[i]
  BY <1>0, <1>2 DEF ContentsInv, Typed, TypeOK
<1>51. /\ block'[made + 1] = [p \in Pages |-> version]
       /\ \A i \in Snapshots : i # made + 1 => block'[i] = block[i]
  BY <1>0 DEF Build, ContentsInv, Typed, TypeOK
<1>6. UNCHANGED <<version, savedCsr, savedPage, reused, pins, saveId>>
  BY DEF Build, diskVars
<1>7. LoadedFromSaved'
  <2> SUFFICES ASSUME NEW i \in Snapshots \ reused, NEW copy \in savedCsr, snap'[i].id = copy.id,
                      i = made + 1
               PROVE  snap'[i].version = copy.version
    BY <1>5, <1>6 DEF ContentsInv, LoadedFromSaved
  <2>. QED
    BY <1>0, <1>1, <1>5 DEF ContentsInv, SavedIdsPositive
<1>8. BlocksHoldTheirBytes'
  BY <1>1, <1>5, <1>51, <1>6 DEF ContentsInv, BlocksHoldTheirBytes
<1>9. SavingBuilt'
  <2> SUFFICES ASSUME NEW t \in Sessions, place'[t] \in {"save", "write"}
               PROVE  /\ snap'[held'[t]].version > 0
                      /\ snap'[held'[t]].id = 0
                      /\ \A p \in Pages : block'[held'[t]][p] = snap'[held'[t]].version
    BY DEF SavingBuilt
  <2>1. CASE t = s
    <3>1. held'[t] = made + 1
      BY <2>1 DEF Build, MakeSnapshot, Hold, PagesInv, Shapes
    <3>. QED
      BY <1>1, <1>5, <1>51, <3>1
  <2>2. CASE t # s
    <3>2. place[t] = place'[t] /\ held'[t] = held[t]
      BY <2>2 DEF Build, MakeSnapshot, Goto, Hold, PagesInv, Shapes
    <3>3. held[t] # made + 1 /\ held[t] \in Snapshots
      BY <1>0, <3>2, SnapshotNumbers DEF PagesInv, UnmadeUnpinned, ReadersHold
    <3>. QED
      BY <1>5, <1>51, <3>2, <3>3 DEF ContentsInv, SavingBuilt
  <2>. QED
    BY <2>1, <2>2
<1>10. UnmadeEmpty'
  BY <1>0, <1>2, <1>5, <1>51, SnapshotNumbers DEF ContentsInv, UnmadeEmpty
<1>11. PinnedLoaded'
  BY <1>1, <1>51, <1>6 DEF ContentsInv, PinnedLoaded, NotLoaded, PagesInv, Shapes
<1>12. SavedIdsPositive'
  BY <1>6 DEF Build, Goto, PagesInv, Shapes, ContentsInv, SavedIdsPositive
<1>. QED
  BY <1>41, <1>6, <1>7, <1>8, <1>9, <1>10, <1>11, <1>12 DEF ContentsInv, Typed, SavedHoldsItsBytes

(* The row that is read for a page, if the id was not given away, has the bytes of the
   snapshot's CSR. *)
LEMMA FetchedRowIsTheSnapshots ==
  ASSUME ContentsInv, NEW i \in Snapshots \ reused, NEW r \in savedPage, RowFetched(i, r)
  PROVE  r.version = snap[i].version
  BY DEF ContentsInv, RowFetched, SavedHoldsItsBytes, LoadedFromSaved

LEMMA KnownRowsTyped ==
  ASSUME TypeOK, NEW i \in Snapshots
  PROVE  KnownRows(i) \in SUBSET [page : Pages, row : Nat]
  BY DEF KnownRows, TypeOK

(* Pinning a page that was not in memory: of the snapshots, only its own changes. *)
LEMMA PinnedContents ==
  ASSUME PagesInv, PagesInv', ContentsInv, NEW s \in Sessions, At(s, "pin"),
         NEW bytes \in Nat \cup {Unfilled}, NEW rows \in SUBSET [page : Pages, row : Nat],
         bytes # NotLoaded,
         held[s] \notin reused => bytes \in {snap[held[s]].version, Unfilled},
         block[held[s]][page[s]] = NotLoaded,
         block' = [block EXCEPT ![held[s]][page[s]] = bytes],
         snap' = [snap EXCEPT ![held[s]].rows = rows],
         pins' = [pins EXCEPT ![held[s]] = @ \cup {page[s]}],
         UNCHANGED <<diskVars, reused, made, published, held, page, saveId>>,
         NEW there, there \notin {"save", "write"}, place' = [place EXCEPT ![s] = there]
  PROVE  ContentsInv'
<1> DEFINE i == held[s]
           p == page[s]
<1>1. i \in Snapshots /\ p \in Pages /\ i <= made
  BY DEF At, PagesInv, ReadersHold, UnmadeUnpinned
<1>2. /\ block' \in [Snapshots -> [Pages -> Nat \cup {NotLoaded, Unfilled}]]
      /\ block'[i][p] = bytes
      /\ \A q \in Pages : q # p => block'[i][q] = block[i][q]
      /\ \A j \in Snapshots : j # i => block'[j] = block[j]
  BY <1>1 DEF ContentsInv, Typed, TypeOK
<1>3. /\ snap' \in [Snapshots -> [version : Nat, writes : Nat, id : Nat,
                                  rows : SUBSET [page : Pages, row : Nat]]]
      /\ \A j \in Snapshots : snap'[j].version = snap[j].version /\ snap'[j].id = snap[j].id
      /\ \A j \in Snapshots : j # i => snap'[j] = snap[j]
  <2> DEFINE Record == [version : Nat, writes : Nat, id : Nat,
                        rows : SUBSET [page : Pages, row : Nat]]
  <2>1. snap \in [Snapshots -> Record]
    BY DEF ContentsInv, Typed, TypeOK
  <2>2. snap[i] \in Record
    BY <1>1, <2>1
  <2>3. /\ [snap[i] EXCEPT !.rows = rows] \in Record
        /\ [snap[i] EXCEPT !.rows = rows].version = snap[i].version
        /\ [snap[i] EXCEPT !.rows = rows].id = snap[i].id
    BY <2>2
  <2>4. snap' = [snap EXCEPT ![i] = [snap[i] EXCEPT !.rows = rows]]
    BY <2>1
  <2>5. /\ snap' \in [Snapshots -> Record]
        /\ snap'[i] = [snap[i] EXCEPT !.rows = rows]
        /\ \A j \in Snapshots : j # i => snap'[j] = snap[j]
    <3> HIDE DEF Record, i
    <3> QED
      BY <1>1, <2>1, <2>3, <2>4
  <2> QED
    BY <2>3, <2>5
<1>4. \A t \in Sessions : place'[t] \notin {"idle", "clear", "release"} => held'[t] # 0
  BY DEF At, PagesInv, Shapes, ContentsInv, Typed, TypeOK
<1>5. TypeOK'
  BY <1>2, <1>3, <1>4, TypesFromShapes DEF diskVars, ContentsInv, Typed, TypeOK
<1>6. BlocksHoldTheirBytes'
  BY <1>1, <1>2, <1>3 DEF ContentsInv, BlocksHoldTheirBytes
<1>7. PinnedLoaded'
  <2> SUFFICES ASSUME NEW j \in Snapshots, NEW q \in pins'[j]
               PROVE  block'[j][q] # NotLoaded
    BY DEF PinnedLoaded
  <2>1. CASE j = i /\ q = p
    BY <1>2, <2>1
  <2>2. CASE ~(j = i /\ q = p)
    <3>1. q \in pins[j] /\ q \in Pages
      BY <1>1, <2>2 DEF PagesInv, Shapes
    <3>. QED
      BY <1>2, <2>2, <3>1 DEF ContentsInv, PinnedLoaded
  <2>. QED
    BY <2>1, <2>2
<1>8. SavingBuilt'
  <2> SUFFICES ASSUME NEW t \in Sessions, place'[t] \in {"save", "write"}
               PROVE  /\ snap'[held'[t]].version > 0
                      /\ snap'[held'[t]].id = 0
                      /\ \A q \in Pages : block'[held'[t]][q] = snap'[held'[t]].version
    BY DEF SavingBuilt
  <2>1. place[t] = place'[t] /\ held'[t] = held[t]
    BY DEF PagesInv, Shapes
  <2>2. /\ held[t] \in Snapshots /\ snap[held[t]].version > 0 /\ snap[held[t]].id = 0
        /\ \A q \in Pages : block[held[t]][q] = snap[held[t]].version
    BY <2>1 DEF ContentsInv, SavingBuilt, PagesInv, ReadersHold
  <2>3. held[t] # i
    BY <1>1, <2>2 DEF NotLoaded
  <2>. QED
    BY <1>2, <1>3, <2>1, <2>2, <2>3
<1>9. UnmadeEmpty'
  BY <1>1, <1>2, <1>3, SnapshotNumbers DEF ContentsInv, UnmadeEmpty, PagesInv, Shapes
<1>10. LoadedFromSaved'
  BY <1>3 DEF ContentsInv, LoadedFromSaved, diskVars
<1>11. SavedIdsPositive'
  BY DEF PagesInv, Shapes, ContentsInv, SavedIdsPositive, diskVars
<1>. QED
  BY <1>5, <1>6, <1>7, <1>8, <1>9, <1>10, <1>11 DEF ContentsInv, Typed, SavedHoldsItsBytes, diskVars

LEMMA PinReadContents ==
  ASSUME PagesInv, PagesInv', ContentsInv, NEW s \in Sessions, PinRead(s)
  PROVE  ContentsInv'
<1>1. held[s] \in Snapshots
  BY DEF PinRead, At, PagesInv, ReadersHold
<1>2. PICK r \in savedPage :
        RowFetched(held[s], r) /\ block' = [block EXCEPT ![held[s]][page[s]] = r.version]
  BY DEF PinRead
<1>3. r.version \in Nat /\ r.version # NotLoaded
  BY DEF ContentsInv, Typed, TypeOK, SavedHoldsItsBytes, NotLoaded
<1>4. held[s] \notin reused => r.version = snap[held[s]].version
  BY <1>1, <1>2, FetchedRowIsTheSnapshots
<1>5. KnownRows(held[s]) \in SUBSET [page : Pages, row : Nat]
  BY <1>1, KnownRowsTyped DEF ContentsInv, Typed
<1>. QED
  BY <1>2, <1>3, <1>4, <1>5, PinnedContents DEF PinRead, Pinned, Goto

LEMMA PinThrowsContents ==
  ASSUME PagesInv, PagesInv', ContentsInv, NEW s \in Sessions, PinThrows(s)
  PROVE  ContentsInv'
<1>1. held[s] \in Snapshots
  BY DEF PinThrows, At, PagesInv, ReadersHold
<1>2. PICK rows \in {KnownRows(held[s]), snap[held[s]].rows} :
        snap' = [snap EXCEPT ![held[s]].rows = rows]
  BY DEF PinThrows
<1>3. rows \in SUBSET [page : Pages, row : Nat]
  BY <1>1, KnownRowsTyped DEF ContentsInv, Typed, TypeOK
<1>4. Unfilled # NotLoaded
  BY DEF Unfilled, NotLoaded
<1>. QED
  BY <1>2, <1>3, <1>4, PinnedContents DEF PinThrows, Pinned, Goto, diskVars

LEMMA NextIdPositive ==
  ASSUME TypeOK, SavedHoldsItsBytes
  PROVE  NextId \in Nat /\ NextId > 0
<1>1. CASE savedCsr = {}
  BY <1>1 DEF NextId
<1>2. CASE savedCsr # {}
  <2>1. PICK copy \in savedCsr : savedCsr = {copy}
    BY <1>2 DEF SavedHoldsItsBytes
  <2>2. {c.id : c \in savedCsr} = {copy.id}
    BY <2>1
  <2>3. copy.id \in Nat
    BY DEF TypeOK
  <2>4. Max({copy.id}) = copy.id
    BY <2>3 DEF Max
  <2>5. NextId = 1 + copy.id
    BY <1>2, <2>2, <2>4, Zenon DEF NextId
  <2>. QED
    BY <2>3, <2>5
<1>. QED
  BY <1>1, <1>2

LEMMA SaveChooseIdContents ==
  ASSUME PagesInv, PagesInv', ContentsInv, NEW s \in Sessions, SaveChooseId(s)
  PROVE  ContentsInv'
<1>0. NextId \in Nat /\ NextId > 0
  BY NextIdPositive DEF ContentsInv, Typed
<1>1. \A t \in Sessions : place'[t] \notin {"idle", "clear", "release"} => held'[t] # 0
  BY DEF SaveChooseId, Goto, At, PagesInv, Shapes, ContentsInv, Typed, TypeOK
<1>2. saveId' \in [Sessions -> Nat] /\ saveId'[s] = NextId
      /\ \A t \in Sessions : t # s => saveId'[t] = saveId[t] /\ place'[t] = place[t]
  BY <1>0 DEF SaveChooseId, Goto, ContentsInv, Typed, PagesInv, Shapes
<1>3. TypeOK'
  BY <1>1, <1>2, TypesFromShapes DEF SaveChooseId, diskVars, memoryVars, ContentsInv, Typed, TypeOK
<1>4. SavedIdsPositive'
  BY <1>0, <1>2 DEF SaveChooseId, diskVars, ContentsInv, SavedIdsPositive
<1>5. SavingBuilt'
  BY <1>2 DEF SaveChooseId, At, memoryVars, ContentsInv, SavingBuilt
<1>. QED
  BY <1>2, <1>3, <1>4, <1>5 DEF SaveChooseId, diskVars, memoryVars, ContentsInv, Typed,
     SavedHoldsItsBytes, LoadedFromSaved, BlocksHoldTheirBytes, PinnedLoaded, UnmadeEmpty

LEMMA SaveWriteContents ==
  ASSUME PagesInv, PagesInv', ContentsInv, NEW s \in Sessions, SaveWrite(s)
  PROVE  ContentsInv'
<1> DEFINE i == held[s]
<1>0. /\ i \in Snapshots /\ i <= made
      /\ snap[i].version > 0 /\ snap[i].version \in Nat
      /\ \A p \in Pages : block[i][p] = snap[i].version
      /\ saveId[s] \in Nat /\ saveId[s] > 0
  BY DEF SaveWrite, At, PagesInv, ReadersHold, UnmadeUnpinned, ContentsInv, SavingBuilt,
     SavedIdsPositive, Typed, TypeOK
<1>1. \A t \in Sessions : place'[t] \notin {"idle", "clear", "release"} => held'[t] # 0
  BY DEF SaveWrite, Goto, At, PagesInv, Shapes, ContentsInv, Typed, TypeOK
<1>2. savedPage' \subseteq [row : Nat, id : Nat, page : Pages, version : Nat \cup {Unfilled}]
  <2>1. \A p \in Pages : nextRow + p \in Nat
    BY DEF Pages, ContentsInv, Typed, TypeOK
  <2>. QED
    BY <1>0, <2>1 DEF SaveWrite, SavedRows
<1>3. nextRow' \in Nat
  BY PagesConstantsAssumption DEF SaveWrite, ContentsInv, Typed, TypeOK
<1>4. TypeOK'
  BY <1>0, <1>1, <1>2, <1>3, TypesFromShapes DEF SaveWrite, ContentsInv, Typed, TypeOK
<1>5. SavedHoldsItsBytes'
  BY <1>0 DEF SaveWrite, SavedRows, SavedHoldsItsBytes
<1>6. SavedIdsPositive'
  BY <1>0 DEF SaveWrite, Goto, PagesInv, Shapes, ContentsInv, SavedIdsPositive
<1>7. LoadedFromSaved'
  BY DEF SaveWrite, LoadedFromSaved
<1>8. PinnedLoaded'
  BY <1>0 DEF SaveWrite, PagesInv, Shapes, ContentsInv, PinnedLoaded, NotLoaded
<1>9. SavingBuilt'
  BY DEF SaveWrite, Goto, PagesInv, Shapes, ContentsInv, SavingBuilt
<1>10. BlocksHoldTheirBytes'
  BY DEF SaveWrite, ContentsInv, BlocksHoldTheirBytes
<1>. QED
  BY <1>4, <1>5, <1>6, <1>7, <1>8, <1>9, <1>10 DEF SaveWrite, ContentsInv, Typed, UnmadeEmpty

LEMMA SaveCheckContents ==
  ASSUME PagesInv, PagesInv', ContentsInv, NEW s \in Sessions, SaveCheck(s)
  PROVE  ContentsInv'
<1>1. \A t \in Sessions : place'[t] \notin {"idle", "clear", "release"} => held'[t] # 0
  BY DEF SaveCheck, Goto, At, PagesInv, Shapes, ContentsInv, Typed, TypeOK
<1>2. \/ savedCsr' = {} /\ savedPage' = {}
      \/ savedCsr' = savedCsr /\ savedPage' = savedPage
  BY DEF SaveCheck, DropSaved
<1>3. TypeOK'
  BY <1>1, <1>2, TypesFromShapes DEF SaveCheck, memoryVars, ContentsInv, Typed, TypeOK
<1>4. SavedHoldsItsBytes' /\ LoadedFromSaved'
  BY <1>2 DEF SaveCheck, memoryVars, ContentsInv, SavedHoldsItsBytes, LoadedFromSaved
<1>5. SavedIdsPositive' /\ SavingBuilt'
  BY <1>2 DEF SaveCheck, Goto, memoryVars, PagesInv, Shapes, ContentsInv, SavedIdsPositive, SavingBuilt
<1>. QED
  BY <1>3, <1>4, <1>5 DEF SaveCheck, memoryVars, ContentsInv, Typed, BlocksHoldTheirBytes,
     PinnedLoaded, UnmadeEmpty

LEMMA InsertContents ==
  ASSUME PagesInv, PagesInv', ContentsInv, Insert
  PROVE  ContentsInv'
<1>1. TypeOK'
  BY TypesFromShapes DEF Insert, memoryVars, statementVars, ContentsInv, Typed, TypeOK
<1>. QED
  BY <1>1 DEF Insert, memoryVars, statementVars, ContentsInv, Typed, TypeOK, SavedHoldsItsBytes,
     SavedIdsPositive, LoadedFromSaved, BlocksHoldTheirBytes, PinnedLoaded, SavingBuilt, UnmadeEmpty

LEMMA WriteContents ==
  ASSUME PagesInv, PagesInv', ContentsInv, Write
  PROVE  ContentsInv'
<1>1. TypeOK'
  BY TypesFromShapes DEF Write, DropSaved, memoryVars, statementVars, ContentsInv, Typed, TypeOK
<1>. QED
  BY <1>1 DEF Write, DropSaved, memoryVars, statementVars, ContentsInv, Typed, TypeOK,
     SavedHoldsItsBytes, SavedIdsPositive, LoadedFromSaved, BlocksHoldTheirBytes, PinnedLoaded,
     SavingBuilt, UnmadeEmpty

LEMMA EvictContents ==
  ASSUME PagesInv, PagesInv', ContentsInv, Evict
  PROVE  ContentsInv'
<1>0. PICK i \in Snapshots : \E q \in Pages :
         /\ snap[i].id # 0 /\ q \notin pins[i] /\ block[i][q] # NotLoaded
         /\ block' = [block EXCEPT ![i][q] = NotLoaded]
  BY DEF Evict
<1> PICK p \in Pages : /\ snap[i].id # 0 /\ p \notin pins[i] /\ block[i][p] # NotLoaded
                       /\ block' = [block EXCEPT ![i][p] = NotLoaded]
  BY <1>0
<1>1. /\ block' \in [Snapshots -> [Pages -> Nat \cup {NotLoaded, Unfilled}]]
      /\ block'[i][p] = NotLoaded
      /\ \A q \in Pages : q # p => block'[i][q] = block[i][q]
      /\ \A j \in Snapshots : j # i => block'[j] = block[j]
  BY DEF ContentsInv, Typed, TypeOK, NotLoaded
<1>2. TypeOK'
  BY <1>1, TypesFromShapes DEF Evict, diskVars, statementVars, ContentsInv, Typed, TypeOK
<1>3. BlocksHoldTheirBytes'
  BY <1>1 DEF Evict, ContentsInv, BlocksHoldTheirBytes
<1>4. PinnedLoaded'
  BY <1>1 DEF Evict, PagesInv, Shapes, ContentsInv, PinnedLoaded
<1>5. SavingBuilt'
  BY <1>1 DEF Evict, statementVars, PagesInv, ReadersHold, ContentsInv, SavingBuilt
<1>6. UnmadeEmpty'
  BY <1>1 DEF Evict, ContentsInv, UnmadeEmpty, NoSnapshot
<1>. QED
  BY <1>2, <1>3, <1>4, <1>5, <1>6 DEF Evict, diskVars, statementVars, ContentsInv, Typed,
     SavedHoldsItsBytes, SavedIdsPositive, LoadedFromSaved

LEMMA CrashContents ==
  ASSUME PagesInv, PagesInv', ContentsInv, Crash
  PROVE  ContentsInv'
<1>1. TypeOK'
  BY TypesFromShapes DEF Crash, diskVars, NoSnapshot, ContentsInv, Typed, TypeOK
<1>. QED
  BY <1>1 DEF Crash, diskVars, NoSnapshot, NotLoaded, ContentsInv, Typed, TypeOK,
     SavedHoldsItsBytes, SavedIdsPositive, LoadedFromSaved, BlocksHoldTheirBytes, PinnedLoaded,
     SavingBuilt, UnmadeEmpty

LEMMA StutterContents ==
  ASSUME ContentsInv, UNCHANGED vars
  PROVE  ContentsInv'
  BY DEF vars, diskVars, memoryVars, statementVars, ContentsInv, Typed, TypeOK,
     SavedHoldsItsBytes, SavedIdsPositive, LoadedFromSaved, BlocksHoldTheirBytes, PinnedLoaded,
     SavingBuilt, UnmadeEmpty

LEMMA StepContents ==
  ASSUME PagesInv, PagesInv', ContentsInv, [Next]_vars
  PROVE  ContentsInv'
<1>1. ASSUME NEW s \in Sessions, SessionStep(s)
      PROVE  ContentsInv'
  BY <1>1, AcquireContents, LoadContents, BuildContents, ReadPointerContents, PinLoadedContents,
     PinReadContents, PinThrowsContents, DerefContents, ClearLeasesContents, ReleaseUnheldContents,
     SaveChooseIdContents, SaveWriteContents, SaveCheckContents DEF SessionStep
<1>2. CASE Insert \/ Write \/ Evict \/ Crash
  BY <1>2, InsertContents, WriteContents, EvictContents, CrashContents
<1>3. CASE Ended \/ UNCHANGED vars
  BY <1>3, StutterContents DEF Ended
<1>. QED
  BY <1>1, <1>2, <1>3 DEF Next

LEMMA ContentsInductive == Spec => []ContentsInv
<1>1. Init => ContentsInv
  BY InitContents
<1>2. PagesInv /\ PagesInv' /\ ContentsInv /\ [Next]_vars => ContentsInv'
  BY StepContents
<1>. QED
  BY <1>1, <1>2, PagesInductive, PTL DEF Spec

(* The variables of CsrPages keep their shapes, and a statement that reads or saves
   holds a snapshot. *)
THEOREM PageTypesKept == Spec => []TypeOK
<1>1. ContentsInv => TypeOK
  BY DEF ContentsInv, Typed
<1>. QED
  BY <1>1, ContentsInductive, PTL

(* Whatever is dropped, replaced, evicted and read again while a reader holds a
   snapshot, a page it reads has the bytes of that snapshot's CSR or was never filled
   (TableCsrPageSource::Read compares the snapshot_id of the row it fetched), unless
   another CSR was saved under that id (SaveCsrSnapshot). *)
THEOREM PagesHaveTheirCsrsBytes == Spec => []NoForeignBytes
<1>1. PagesInv /\ ContentsInv => NoForeignBytes
  <2> SUFFICES ASSUME PagesInv, ContentsInv, NEW s \in Sessions, Reads(s)
               PROVE  Bytes(s) \in {snap[held[s]].version, Unfilled}
    BY DEF NoForeignBytes
  <2>1. held[s] \in Snapshots /\ page[s] \in Pages /\ page[s] \in pins[held[s]]
    BY DEF Reads, At, PagesInv, ReadersHold, NoReadAfterRelease
  <2>. QED
    BY <2>1 DEF Reads, Bytes, ContentsInv, BlocksHoldTheirBytes, PinnedLoaded
<1>. QED
  BY <1>1, PagesInductive, ContentsInductive, PTL
=============================================================================
