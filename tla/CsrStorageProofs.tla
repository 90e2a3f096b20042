-------------------------- MODULE CsrStorageProofs ---------------------------
(***************************************************************************)
(* The theorems about CsrStorage, for any number of writers and sessions,  *)
(* any kinds of statements and any bounds.  First type correctness, one    *)
(* lemma per group of actions; the writers' actions have theirs in         *)
(* CsrWriteObserverTypes.  Then the safety theorems: one automatic build at *)
(* a time, generations that cover every destructive write, and deltas that *)
(* only grow.  Each follows from an inductive invariant that adds to the   *)
(* property what the code keeps in the locals of a statement or of a       *)
(* transaction.                                                            *)
(***************************************************************************)
EXTENDS CsrStorage, CsrWriteObserverTypes, FiniteSetTheorems, TLAPS

-----------------------------------------------------------------------------
(* Row watermarks. *)

(* Row ids below a bound have a greatest one: a largest-first chain of the sets of ids
   above an id would be an endless chain of ever smaller finite sets. *)
LEMMA GreatestId ==
    ASSUME NEW ids \in SUBSET Nat, ids # {}, NEW n \in Nat, \A i \in ids : i < n
    PROVE  \E i \in ids : \A j \in ids : j <= i
<1> DEFINE AboveIt(i) == {j \in ids : i < j}
           Uppers == {AboveIt(i) : i \in ids}
<1>1. IsFiniteSet(ids)
  BY FS_BoundedSetOfNaturals
<1>2. FiniteSubsetsOf(ids) = SUBSET ids
  BY <1>1, FS_FiniteSubsetsOfFinite
<1>3. IsWellFoundedOn(StrictSubsetOrdering(ids), SUBSET ids)
  BY <1>2, FS_StrictSubsetOrderingWellFounded
<1>4. Uppers \subseteq SUBSET ids /\ Uppers # {}
  OBVIOUS
<1>5. PICK U \in Uppers : \A V \in Uppers : <<V, U>> \notin StrictSubsetOrdering(ids)
  <2> HIDE DEF Uppers
  <2> QED
    BY <1>3, <1>4, WFMin
<1>6. PICK i \in ids : U = AboveIt(i)
  BY <1>5
<1>7. SUFFICES ASSUME NEW j \in ids, ~(j <= i)
               PROVE  FALSE
  BY <1>6
<1>8. AboveIt(j) \subseteq AboveIt(i) /\ j \in AboveIt(i) /\ j \notin AboveIt(j)
  <2>1. i \in Nat /\ j \in Nat /\ i < j
    BY <1>7
  <2>2. \A k \in AboveIt(j) : k \in ids /\ k \in Nat /\ i < k
    BY <2>1
  <2>3. j \in AboveIt(i)
    BY <2>1
  <2>4. j \notin AboveIt(j)
    BY <2>1
  <2> QED
    BY <2>2, <2>3, <2>4
<1>9. <<AboveIt(j), U>> \in StrictSubsetOrdering(ids)
  BY <1>6, <1>8 DEF StrictSubsetOrdering
<1> QED
  BY <1>5, <1>9

(* ReadCsrRowWatermark gives a number when there is one above every row id. *)
LEMMA WatermarkIsNat ==
    ASSUME NEW rows \in SUBSET Row, NEW n \in Nat, \A i \in Ids(rows) : i < n
    PROVE  Watermark(rows) \in Nat
<1>1. Ids(rows) \subseteq Nat
  BY DEF Ids, Row
<1>2. CASE rows = {}
  BY <1>2 DEF Watermark
<1>3. CASE rows # {}
  <2>1. Ids(rows) # {}
    BY <1>3 DEF Ids
  <2>2. \E i \in Ids(rows) : \A j \in Ids(rows) : j <= i
    BY <1>1, <2>1, GreatestId
  <2> QED
    BY <1>1, <1>3, <2>2 DEF Watermark
<1> QED
  BY <1>2, <1>3

-----------------------------------------------------------------------------
(* Types: the sessions. *)

(* A published snapshot exists. *)
LEMMA SnapsLength ==
    ASSUME StorageTypeOK
    PROVE  /\ Len(snaps) \in Nat
           /\ \A i \in 1..Len(snaps) : snaps[i] \in Snapshots
           /\ \A i \in published : i \in 1..Len(snaps)
BY DEF StorageTypeOK

(* The fields of a call, as the lemmas below use them. *)
LEMMA CallFields ==
    ASSUME SessionTypeOK, NEW s \in Sessions
    PROVE  /\ call[s] \in Calls
           /\ call[s].op \in AllOperations \cup {"none"} /\ call[s].since \in SUBSET Nat
           /\ call[s].snap \in Nat /\ call[s].rows \in SUBSET Row
           /\ call[s].work \in Snapshots /\ call[s].gen \in Nat
           /\ call[s].lease \in [snap : Nat, rows : SUBSET Row] /\ call[s].lease.snap \in Nat
           /\ call[s].acquires \in Nat
           /\ call[s].snap <= Len(snaps) /\ call[s].lease.snap <= Len(snaps)
           /\ spc[s] \in {"lock", "synced", "scan", "store"} => call[s].snap # 0
           /\ spc[s] \in {"save", "save_write"} => call[s].lease.snap # 0
BY DEF SessionTypeOK, Calls

(* The initial values are of the right types. *)
LEMMA NoCallType == NoSnapshot \in Snapshots /\ NoCall \in Calls
<1>1. NoSnapshot \in Snapshots
  BY DEF NoSnapshot, Snapshots, NeverSynced
<1> QED
  BY <1>1 DEF NoCall, Calls, NoLease

(* What one session's step owes the types: a call and a place that fit together. *)
Fits(c, p) ==
    /\ c \in Calls /\ p \in Places
    /\ c.snap <= Len(snaps') /\ c.lease.snap <= Len(snaps')
    /\ p \in {"lock", "synced", "scan", "store"} => c.snap # 0
    /\ p \in {"save", "save_write"} => c.lease.snap # 0

(* A step that puts a fitting call and place in one session keeps the types. *)
LEMMA SessionMoves ==
    ASSUME SessionTypeOK, NEW s \in Sessions, NEW c, NEW p, Fits(c, p),
           call' = [call EXCEPT ![s] = c], spc' = [spc EXCEPT ![s] = p],
           calls' \in [Sessions -> Nat],
           Len(snaps) \in Nat, Len(snaps') \in Nat, Len(snaps) <= Len(snaps')
    PROVE  SessionTypeOK'
<1>1. spc' \in [Sessions -> Places] /\ call' \in [Sessions -> Calls]
  BY DEF SessionTypeOK, Fits
<1>2. ASSUME NEW t \in Sessions
      PROVE  /\ call'[t].snap <= Len(snaps') /\ call'[t].lease.snap <= Len(snaps')
             /\ spc'[t] \in {"lock", "synced", "scan", "store"} => call'[t].snap # 0
             /\ spc'[t] \in {"save", "save_write"} => call'[t].lease.snap # 0
  <2>1. CASE t = s
    BY <2>1 DEF SessionTypeOK, Fits
  <2>2. CASE t # s
    <3>1. call'[t] = call[t] /\ spc'[t] = spc[t]
      BY <2>2 DEF SessionTypeOK
    <3> QED
      BY <3>1, CallFields
  <2> QED
    BY <2>1, <2>2
<1> QED
  BY <1>1, <1>2 DEF SessionTypeOK

(* ReadVersion keeps the types. *)
LEMMA VersionTypes ==
    ASSUME TypeOK, NEW s \in Sessions, ReadVersion(s)
    PROVE  StorageTypeOK' /\ SessionTypeOK'
<1>1. StorageTypeOK' /\ snaps' = snaps /\ calls' = calls
  BY DEF ReadVersion, storageVars, TypeOK, StorageTypeOK
<1>2. PICK v \in (IF call[s].op \in {"algorithm", "narrow"} THEN Table.version ELSE cacheVersion)
                 .. Table.version :
         call' = [call EXCEPT ![s] = [call[s] EXCEPT !.version = v]]
  BY DEF ReadVersion
<1>3. v \in Nat
  BY TableIsState DEF TypeOK, ObserverTypeOK, GenTypeOK
<1>4. Fits([call[s] EXCEPT !.version = v], "find")
  BY <1>1, <1>3, CallFields DEF Fits, Calls, Places, TypeOK
<1>5. spc' = [spc EXCEPT ![s] = "find"] /\ calls' \in [Sessions -> Nat]
  BY <1>1 DEF ReadVersion, Goto, TypeOK, SessionTypeOK
<1> DEFINE c == [call[s] EXCEPT !.version = v]
<1>6. Fits(c, "find") /\ call' = [call EXCEPT ![s] = c]
  BY <1>2, <1>4
<1>7. SessionTypeOK /\ Len(snaps) \in Nat /\ Len(snaps') \in Nat /\ Len(snaps) <= Len(snaps')
  BY <1>1, SnapsLength DEF TypeOK
<1> HIDE DEF c
<1>8. SessionTypeOK'
  BY <1>5, <1>6, <1>7, SessionMoves
<1> QED
  BY <1>1, <1>8

(* So does handing out a lease of an existing snapshot. *)
LEMMA LeaseFits ==
    ASSUME TypeOK, NEW s \in Sessions, NEW i \in 1..Len(snaps), NEW rows \in SUBSET Row,
           Lease(s, i, rows), Len(snaps') \in Nat, Len(snaps) <= Len(snaps'),
           calls' \in [Sessions -> Nat]
    PROVE  SessionTypeOK'
<1> DEFINE c == [NoCall EXCEPT !.op = call[s].op, !.since = call[s].since,
                               !.lease = [snap |-> i, rows |-> rows],
                               !.acquires = call[s].acquires + 1]
           p == CASE call[s].op = "build" -> "save"
                  [] call[s].op = "build_memory" -> "unsave"
                  [] OTHER -> "leased"
<1>1. call' = [call EXCEPT ![s] = c] /\ spc' = [spc EXCEPT ![s] = p]
  BY DEF Lease, Goto
<1>2. p \in {"save", "unsave", "leased"}
  OBVIOUS
<1>3. i \in Nat /\ i # 0 /\ i <= Len(snaps')
  BY SnapsLength DEF TypeOK
<1>4. c \in Calls /\ c.snap = 0 /\ c.lease.snap = i
  <2>1. [snap |-> i, rows |-> rows] \in [snap : Nat, rows : SUBSET Row]
    BY <1>3
  <2>2. call[s].op \in AllOperations \cup {"none"} /\ call[s].since \in SUBSET Nat
        /\ call[s].acquires + 1 \in Nat
    BY CallFields DEF TypeOK
  <2>3. c \in Calls
    BY <2>1, <2>2, NoCallType DEF Calls
  <2>4. NoCall.snap = 0 /\ c.snap = NoCall.snap
    BY NoCallType DEF NoCall, Calls
  <2>5. c.lease = [snap |-> i, rows |-> rows]
    BY NoCallType DEF Calls
  <2> QED
    BY <2>3, <2>4, <2>5
<1> HIDE DEF c, p
<1>5. Fits(c, p)
  BY <1>2, <1>3, <1>4 DEF Fits, Places
<1> QED
  BY <1>1, <1>5, SessionMoves, SnapsLength DEF TypeOK

(* Most steps leave the snapshots alone. *)
LEMMA StepTypes ==
    ASSUME TypeOK, NEW s \in Sessions, NEW c, NEW p, Fits(c, p), snaps' = snaps,
           call' = [call EXCEPT ![s] = c], spc' = [spc EXCEPT ![s] = p], calls' = calls
    PROVE  SessionTypeOK'
<1>1. calls' \in [Sessions -> Nat] /\ SessionTypeOK
  BY DEF TypeOK, SessionTypeOK
<1>2. Len(snaps) \in Nat /\ Len(snaps') \in Nat /\ Len(snaps) <= Len(snaps')
  BY SnapsLength DEF TypeOK
<1> QED
  BY <1>1, <1>2, SessionMoves

(* A step that only moves a statement to another place. *)
LEMMA GotoTypes ==
    ASSUME TypeOK, NEW s \in Sessions, NEW p \in Places, Goto(s, p), snaps' = snaps,
           p \in {"lock", "synced", "scan", "store"} => call[s].snap # 0,
           p \in {"save", "save_write"} => call[s].lease.snap # 0,
           UNCHANGED <<call, calls>>
    PROVE  SessionTypeOK'
<1>1. Fits(call[s], p)
  BY CallFields DEF Fits, TypeOK
<1>2. call' = [call EXCEPT ![s] = call[s]]
  BY DEF TypeOK, SessionTypeOK
<1> QED
  BY <1>1, <1>2, StepTypes DEF Goto

(* A step that leaves the storage alone. *)
LEMMA StorageSame ==
    ASSUME TypeOK, UNCHANGED storageVars
    PROVE  StorageTypeOK' /\ snaps' = snaps
BY DEF TypeOK, StorageTypeOK, storageVars

(* Begin keeps the types. *)
LEMMA BeginTypes ==
    ASSUME TypeOK, NEW s \in Sessions, NEW op \in Operations, Begin(s, op)
    PROVE  StorageTypeOK' /\ SessionTypeOK'
<1> DEFINE c == [call[s] EXCEPT !.op = op, !.since = acked]
           p == IF op \in Builds THEN "generations" ELSE "version"
<1>1. StorageTypeOK' /\ snaps' = snaps
  BY StorageSame DEF Begin
<1>2. call' = [call EXCEPT ![s] = c] /\ spc' = [spc EXCEPT ![s] = p]
  BY DEF Begin, Goto, TypeOK, SessionTypeOK
<1>3. op \in AllOperations /\ acked \in SUBSET Nat
  BY StorageConstantsAssumption, TableIsState DEF TypeOK, ObserverTypeOK, LogTypeOK
<1>4. Fits(c, p)
  BY <1>1, <1>3, CallFields DEF Fits, Calls, Places, TypeOK
<1>5. calls' \in [Sessions -> Nat] /\ SessionTypeOK
  BY DEF Begin, TypeOK, SessionTypeOK
<1>6. Len(snaps) \in Nat /\ Len(snaps') \in Nat /\ Len(snaps) <= Len(snaps')
  BY <1>1, SnapsLength DEF TypeOK
<1> HIDE DEF c, p
<1> QED
  BY <1>1, <1>2, <1>4, <1>5, <1>6, SessionMoves

(* Find keeps the types: what it returns is published, so it exists. *)
LEMMA FindTypes ==
    ASSUME TypeOK, NEW s \in Sessions, Find(s)
    PROVE  StorageTypeOK' /\ SessionTypeOK'
<1> DEFINE kept == Kept(call[s].version)
           prepared == Prepared(call[s].version, WantsFull(s))
           follow == {i \in kept : CanCatchUp(snaps[i])}
<1>1. /\ snaps' = snaps /\ calls' = calls /\ published' = kept
      /\ UNCHANGED <<noSavedAt, building, catchUp>>
  BY DEF Find
<1>2. kept \subseteq 1..Len(snaps)
  BY DEF Kept, TypeOK, StorageTypeOK
<1>3. prepared \subseteq kept /\ follow \subseteq kept
  BY DEF Prepared
<1>4. StorageTypeOK'
  BY <1>1, <1>2 DEF TypeOK, StorageTypeOK
<1>5. Len(snaps') \in Nat /\ Len(snaps) <= Len(snaps') /\ calls' \in [Sessions -> Nat]
  BY <1>1, SnapsLength DEF TypeOK, SessionTypeOK
<1>6. ASSUME NEW i \in 1..Len(snaps), Lease(s, i, snaps[i].base)
      PROVE  SessionTypeOK'
  <2>1. snaps[i].base \in SUBSET Row
    BY SnapsLength DEF TypeOK, Snapshots
  <2> QED
    BY <1>5, <1>6, <2>1, LeaseFits
<1>7. ASSUME NEW i \in {0} \cup 1..Len(snaps), Looked(s, i),
             NEW p \in Places, Goto(s, p), p \notin {"synced", "scan", "store", "save", "save_write"},
             p = "lock" => i # 0
      PROVE  SessionTypeOK'
  <2> DEFINE c == [call[s] EXCEPT !.version = 0, !.snap = i]
  <2>1. call' = [call EXCEPT ![s] = c] /\ spc' = [spc EXCEPT ![s] = p]
    BY <1>7 DEF Looked, Goto, TypeOK, SessionTypeOK
  <2>2. i \in Nat /\ i <= Len(snaps')
    BY <1>1, SnapsLength DEF TypeOK
  <2>3. Fits(c, p)
    BY <1>1, <1>7, <2>2, CallFields DEF Fits, Calls, TypeOK
  <2> HIDE DEF c
  <2> QED
    BY <1>1, <2>1, <2>3, StepTypes
<1>8. CASE call[s].op \in {"algorithm", "narrow", "unchanged"} /\ prepared # {}
  <2>1. PICK i \in prepared : Lease(s, i, snaps[i].base)
    BY <1>8 DEF Find
  <2> QED
    BY <1>2, <1>3, <1>4, <1>6, <2>1
<1>9. CASE call[s].op \in {"algorithm", "narrow"} /\ prepared = {}
  <2>1. Looked(s, 0) /\ Goto(s, IF call[s].tried THEN "claim" ELSE "load")
    BY <1>9 DEF Find
  <2> QED
    BY <1>4, <1>7, <2>1 DEF Places
<1>10. CASE call[s].op = "unchanged" /\ prepared = {}
  <2>1. Looked(s, 0) /\ Goto(s, "failed")
    BY <1>10 DEF Find
  <2> QED
    BY <1>4, <1>7, <2>1 DEF Places
<1>11. CASE call[s].op \notin {"algorithm", "narrow", "unchanged"}
  <2> DEFINE found == IF prepared # {} THEN prepared ELSE follow
  <2>1. IF found = {} THEN Goto(s, "load") /\ Looked(s, 0)
        ELSE (\E i \in found : Looked(s, i)) /\ Goto(s, "lock")
    BY <1>11 DEF Find
  <2>2. found \subseteq 1..Len(snaps)
    BY <1>2, <1>3
  <2> HIDE DEF found, prepared, follow, kept
  <2>3. CASE found = {}
    BY <1>4, <1>7, <2>1, <2>3 DEF Places
  <2>4. CASE found # {}
    <3>1. PICK i \in found : Looked(s, i)
      BY <2>1, <2>4
    <3>2. i \in 1..Len(snaps) /\ i # 0
      BY <2>2, SnapsLength DEF TypeOK
    <3> QED
      BY <1>4, <1>7, <2>1, <2>4, <3>1, <3>2 DEF Places
  <2> QED
    BY <2>3, <2>4
<1> QED
  BY <1>4, <1>8, <1>9, <1>10, <1>11

(* A step that changes the statement's locals and its place, but no snapshot. *)
LEMMA CallTypes ==
    ASSUME TypeOK, NEW s \in Sessions, NEW c \in Calls, NEW p \in Places, snaps' = snaps,
           c.snap \in {0, call[s].snap}, c.lease.snap \in {0, call[s].lease.snap},
           p \in {"lock", "synced", "scan", "store"} => c.snap # 0,
           p \notin {"save", "save_write"},
           call' = [call EXCEPT ![s] = c], spc' = [spc EXCEPT ![s] = p], calls' = calls
    PROVE  SessionTypeOK'
<1>1. Fits(c, p)
  BY CallFields, SnapsLength DEF Fits, TypeOK
<1> QED
  BY <1>1, StepTypes

(* The steps of a load before its publication keep the types. *)
LEMMA LoadTypes ==
    ASSUME TypeOK, NEW s \in Sessions, LoadCheck(s) \/ LoadRead(s) \/ LoadStamp(s)
    PROVE  StorageTypeOK' /\ SessionTypeOK'
<1>0. call \in [Sessions -> Calls] /\ spc \in [Sessions -> Places] /\ GenTypeOK
      /\ saved \subseteq Copy /\ NoSnapshot \in Snapshots
      /\ call[s].gen \in Nat /\ call[s].work \in Snapshots
  BY NoCallType, CallFields DEF TypeOK, SessionTypeOK, ObserverTypeOK, SavedTypeOK
<1>1. CASE LoadCheck(s)
  <2>1. StorageTypeOK' /\ snaps' = snaps /\ calls' = calls
    BY <1>1, StorageSame DEF LoadCheck
  <2>2. CASE dbGen \in noSavedAt
    <3>1. PICK p \in {"claim", "failed"} : Goto(s, p) /\ UNCHANGED call
      BY <1>1, <2>2 DEF LoadCheck, NotLoaded
    <3> QED
      BY <2>1, <3>1, GotoTypes DEF Places
  <2>3. CASE dbGen \notin noSavedAt
    <3> DEFINE c == [call[s] EXCEPT !.gen = dbGen]
    <3>1. call' = [call EXCEPT ![s] = c] /\ spc' = [spc EXCEPT ![s] = "load_read"]
      BY <1>1, <2>3 DEF LoadCheck, Goto
    <3>2. c \in Calls /\ c.snap = call[s].snap /\ c.lease.snap = call[s].lease.snap
      BY <1>0 DEF Calls, GenTypeOK
    <3> HIDE DEF c
    <3> QED
      BY <2>1, <3>1, <3>2, CallTypes DEF Places
  <2> QED
    BY <2>2, <2>3
<1>2. CASE LoadRead(s)
  <2>1. snaps' = snaps /\ calls' = calls /\ published' = published /\ building' = building
        /\ catchUp' = catchUp
    BY <1>2 DEF LoadRead
  <2>2. StorageTypeOK'
    BY <1>0, <1>2, <2>1 DEF LoadRead, TypeOK, StorageTypeOK
  <2>3. CASE saved = {}
    <3> DEFINE c == [call[s] EXCEPT !.gen = 0]
    <3>1. PICK p \in {"claim", "failed"} :
             call' = [call EXCEPT ![s] = c] /\ spc' = [spc EXCEPT ![s] = p]
      BY <1>2, <2>3 DEF LoadRead, NotLoaded, Goto
    <3>2. c \in Calls /\ c.snap = call[s].snap /\ c.lease.snap = call[s].lease.snap
      BY <1>0 DEF Calls
    <3> HIDE DEF c
    <3> QED
      BY <2>1, <2>2, <3>1, <3>2, CallTypes DEF Places
  <2>4. CASE saved # {}
    <3>1. PICK copy \in saved :
             call' = [call EXCEPT ![s].gen = 0, ![s].work = [NoSnapshot EXCEPT
                         !.base = copy.base, !.version = copy.version,
                         !.watermark = copy.watermark, !.full = TRUE, !.disk = TRUE]]
      BY <1>2, <2>4 DEF LoadRead
    <3> DEFINE work == [NoSnapshot EXCEPT
                          !.base = copy.base, !.version = copy.version,
                          !.watermark = copy.watermark, !.full = TRUE, !.disk = TRUE]
               c == [call[s] EXCEPT !.gen = 0, !.work = work]
    <3>2. work \in Snapshots
      BY <1>0 DEF Snapshots, Copy
    <3>3. call' = [call EXCEPT ![s] = c] /\ spc' = [spc EXCEPT ![s] = "load_stamp"]
      <4> HIDE DEF work
      <4> QED
        BY <1>0, <1>2, <2>4, <3>1 DEF LoadRead, Goto, work
    <3>4. c \in Calls /\ c.snap = call[s].snap /\ c.lease.snap = call[s].lease.snap
      <4> HIDE DEF work
      <4> QED
        BY <1>0, <3>2 DEF Calls
    <3> HIDE DEF c
    <3> QED
      BY <2>1, <2>2, <3>3, <3>4, CallTypes DEF Places
  <2> QED
    BY <2>3, <2>4
<1>3. CASE LoadStamp(s)
  <2>1. StorageTypeOK' /\ snaps' = snaps /\ calls' = calls
    BY <1>3, StorageSame DEF LoadStamp
  <2> DEFINE work == [call[s].work EXCEPT !.write = writeGen, !.table = tableGen,
                                          !.destr = destrGen, !.synced = LoadedSync]
             c == [call[s] EXCEPT !.work = work]
  <2>2. work \in Snapshots
    BY <1>0 DEF Snapshots, GenTypeOK, LoadedSync
  <2>3. call' = [call EXCEPT ![s] = c] /\ spc' = [spc EXCEPT ![s] = "load_publish"]
    BY <1>0, <1>3 DEF LoadStamp, Goto
  <2>4. c \in Calls /\ c.snap = call[s].snap /\ c.lease.snap = call[s].lease.snap
    <3> HIDE DEF work
    <3> QED
      BY <1>0, <2>2 DEF Calls
  <2> HIDE DEF c
  <2> QED
    BY <2>1, <2>3, <2>4, CallTypes DEF Places
<1> QED
  BY <1>1, <1>2, <1>3

(* The publication of a loaded snapshot keeps the types. *)
LEMMA LoadPublishTypes ==
    ASSUME TypeOK, NEW s \in Sessions, LoadPublish(s)
    PROVE  StorageTypeOK' /\ SessionTypeOK'
<1>0. call \in [Sessions -> Calls] /\ call[s] \in Calls /\ call[s].work \in Snapshots
      /\ NoSnapshot \in Snapshots /\ calls' \in [Sessions -> Nat] /\ SessionTypeOK
  BY NoCallType, CallFields DEF TypeOK, SessionTypeOK, LoadPublish
<1>1. PICK i \in Nat \ {0} :
         /\ Loaded(s, i) /\ i <= Len(snaps') /\ StorageTypeOK'
         /\ Len(snaps') \in Nat /\ Len(snaps) \in Nat /\ Len(snaps) <= Len(snaps')
  <2> DEFINE existing == {i \in published : snaps[i].full}
  <2>1. CASE existing # {}
    <3>1. UNCHANGED storageVars /\ \E i \in existing : Loaded(s, i)
      BY <2>1 DEF LoadPublish, storageVars
    <3> QED
      BY <3>1, SnapsLength, StorageSame DEF TypeOK
  <2>2. CASE existing = {}
    <3>1. /\ snaps' = Append(snaps, call[s].work)
          /\ published' = published \cup {Len(snaps) + 1}
          /\ UNCHANGED <<noSavedAt, building, catchUp>>
          /\ Loaded(s, Len(snaps) + 1)
      BY <2>2 DEF LoadPublish
    <3>2. Len(snaps) \in Nat /\ Len(snaps') = Len(snaps) + 1
      BY <3>1, SnapsLength DEF TypeOK, StorageTypeOK
    <3>3. StorageTypeOK'
      <4>1. snaps' \in Seq(Snapshots)
        BY <1>0, <3>1 DEF TypeOK, StorageTypeOK
      <4>2. published' \subseteq 1..Len(snaps')
        BY <3>1, <3>2, SnapsLength DEF TypeOK
      <4> QED
        BY <3>1, <4>1, <4>2 DEF TypeOK, StorageTypeOK
    <3> QED
      BY <3>1, <3>2, <3>3
  <2> QED
    BY <2>1, <2>2
<1>2. CASE call[s].op \in {"algorithm", "narrow"}
  <2> DEFINE c == [call[s] EXCEPT !.work = NoSnapshot, !.tried = TRUE]
  <2>1. call' = [call EXCEPT ![s] = c] /\ spc' = [spc EXCEPT ![s] = "version"]
    BY <1>0, <1>1, <1>2 DEF Loaded, Goto
  <2>2. Fits(c, "version")
    <3>1. c \in Calls /\ c.snap = call[s].snap /\ c.lease.snap = call[s].lease.snap
      BY <1>0 DEF Calls
    <3> HIDE DEF c
    <3> QED
      BY <1>0, <1>1, <3>1, CallFields DEF Fits, Places
  <2> HIDE DEF c
  <2> QED
    BY <1>0, <1>1, <2>1, <2>2, SessionMoves
<1>3. CASE call[s].op \notin {"algorithm", "narrow"}
  <2> DEFINE c == [call[s] EXCEPT !.work = NoSnapshot, !.snap = i]
  <2>1. call' = [call EXCEPT ![s] = c] /\ spc' = [spc EXCEPT ![s] = "lock"]
    BY <1>0, <1>1, <1>3 DEF Loaded, Goto
  <2>2. Fits(c, "lock")
    <3>1. c \in Calls /\ c.snap = i /\ c.lease.snap = call[s].lease.snap
      BY <1>0, <1>1 DEF Calls
    <3> HIDE DEF c
    <3> QED
      BY <1>0, <1>1, <3>1, CallFields DEF Fits, Places
  <2> HIDE DEF c
  <2> QED
    BY <1>0, <1>1, <2>1, <2>2, SessionMoves
<1> QED
  BY <1>1, <1>2, <1>3

(* The lock's holder releases it, or the lock stays as it is. *)
LEMMA CatchUpLock ==
    ASSUME StorageTypeOK, NEW s \in Sessions
    PROVE  /\ catchUp \ {s} \in {{}} \cup {{t} : t \in Sessions}
           /\ CatchUpFree => catchUp \cup {s} \in {{}} \cup {{t} : t \in Sessions}
<1>1. CASE catchUp = {}
  BY <1>1
<1>2. ASSUME NEW t \in Sessions, catchUp = {t}
      PROVE  catchUp \ {s} \in {{}} \cup {{u} : u \in Sessions} /\ ~CatchUpFree
  <2>1. catchUp \ {s} = {} \/ catchUp \ {s} = {t}
    BY <1>2
  <2> QED
    BY <1>2, <2>1 DEF CatchUpFree
<1> QED
  BY <1>1, <1>2 DEF StorageTypeOK, CatchUpFree

(* The steps of a catch-up before it stores its delta keep the types. *)
LEMMA CatchUpTypes ==
    ASSUME TypeOK, NEW s \in Sessions, LockCatchUp(s) \/ CheckSynced(s) \/ Scan(s)
    PROVE  StorageTypeOK' /\ SessionTypeOK'
<1>0. /\ call \in [Sessions -> Calls] /\ spc \in [Sessions -> Places] /\ call[s] \in Calls
      /\ call[s].rows \in SUBSET Row /\ call[s].snap \in Nat /\ call[s].snap <= Len(snaps)
      /\ spc[s] \in {"lock", "synced", "scan", "store"} => call[s].snap # 0
      /\ dbGen \in Nat
  BY CallFields DEF TypeOK, SessionTypeOK, ObserverTypeOK, GenTypeOK
<1>1. ASSUME snaps' = snaps, published' = published, noSavedAt' = noSavedAt,
             building' = building, catchUp' \in {{}} \cup {{t} : t \in Sessions}
      PROVE  StorageTypeOK'
  BY <1>1 DEF TypeOK, StorageTypeOK
<1>2. CASE LockCatchUp(s)
  <2> DEFINE c == [call[s] EXCEPT !.gen = dbGen]
  <2>1. call' = [call EXCEPT ![s] = c] /\ spc' = [spc EXCEPT ![s] = "synced"]
    BY <1>2 DEF LockCatchUp, Goto
  <2>2. c \in Calls /\ c.snap = call[s].snap /\ c.lease.snap = call[s].lease.snap
    BY <1>0 DEF Calls
  <2>3. c.snap # 0
    BY <1>0, <1>2, <2>2 DEF LockCatchUp, At
  <2>4. snaps' = snaps /\ calls' = calls
    BY <1>2 DEF LockCatchUp
  <2>5. StorageTypeOK'
    BY <1>1, <1>2, CatchUpLock DEF LockCatchUp, TypeOK
  <2> HIDE DEF c
  <2> QED
    BY <2>1, <2>2, <2>3, <2>4, <2>5, CallTypes DEF Places
<1>3. CASE CheckSynced(s)
  <2>1. snaps' = snaps /\ calls' = calls /\ StorageTypeOK'
    <3>1. catchUp' \in {catchUp, catchUp \ {s}}
      BY <1>3 DEF CheckSynced
    <3>2. catchUp \in {{}} \cup {{t} : t \in Sessions}
      BY DEF TypeOK, StorageTypeOK
    <3>3. catchUp' \in {{}} \cup {{t} : t \in Sessions}
      BY <3>1, <3>2, CatchUpLock DEF TypeOK
    <3> QED
      BY <1>1, <1>3, <3>3 DEF CheckSynced
  <2>2. call[s].snap \in 1..Len(snaps) /\ snaps[call[s].snap] \in Snapshots
    BY <1>0, <1>3, SnapsLength DEF CheckSynced, At, TypeOK
  <2>3. /\ snaps[call[s].snap].delta \in SUBSET Row
        /\ Content(call[s].snap) \in SUBSET Row
    BY <2>2 DEF Snapshots, Content
  <2>4. CASE snaps[call[s].snap].synced = call[s].gen
    <3>1. Lease(s, call[s].snap, Content(call[s].snap))
      BY <1>3, <2>4 DEF CheckSynced
    <3>2. Len(snaps') \in Nat /\ Len(snaps) <= Len(snaps') /\ calls' \in [Sessions -> Nat]
      BY <2>1, SnapsLength DEF TypeOK, SessionTypeOK
    <3> QED
      BY <2>1, <2>2, <2>3, <3>1, <3>2, LeaseFits
  <2>5. CASE snaps[call[s].snap].synced # call[s].gen
    <3> DEFINE c == [call[s] EXCEPT !.rows = snaps[call[s].snap].delta]
    <3>1. call' = [call EXCEPT ![s] = c] /\ spc' = [spc EXCEPT ![s] = "scan"]
      BY <1>3, <2>5 DEF CheckSynced, Goto
    <3>2. c \in Calls /\ c.snap = call[s].snap /\ c.lease.snap = call[s].lease.snap
      BY <1>0, <2>3 DEF Calls
    <3>3. c.snap # 0
      BY <2>2, <3>2
    <3> HIDE DEF c
    <3> QED
      BY <2>1, <3>1, <3>2, <3>3, CallTypes DEF Places
  <2> QED
    BY <2>4, <2>5
<1>4. CASE Scan(s)
  <2> DEFINE fits == ScanFits(snaps[call[s].snap], call[s].rows)
             found == call[s].rows \cup ScanFinds(snaps[call[s].snap], call[s].rows)
  <2>1. snaps' = snaps /\ calls' = calls /\ StorageTypeOK'
    <3>1. catchUp' \in {catchUp, catchUp \ {s}}
      BY <1>4 DEF Scan
    <3>2. catchUp \in {{}} \cup {{t} : t \in Sessions}
      BY DEF TypeOK, StorageTypeOK
    <3>3. catchUp' \in {{}} \cup {{t} : t \in Sessions}
      BY <3>1, <3>2, CatchUpLock DEF TypeOK
    <3> QED
      BY <1>1, <1>4, <3>3 DEF Scan
  <2>2. found \in SUBSET Row
    BY <1>0, TableIsState DEF ScanFinds, TypeOK, ObserverTypeOK
  <2>3. CASE fits
    <3> DEFINE c == [call[s] EXCEPT !.rows = found]
    <3>1. call' = [call EXCEPT ![s] = c] /\ spc' = [spc EXCEPT ![s] = "store"]
      BY <1>4, <2>3 DEF Scan, Goto
    <3>2. c \in Calls /\ c.snap = call[s].snap /\ c.lease.snap = call[s].lease.snap
      <4> HIDE DEF found
      <4> QED
        BY <1>0, <2>2 DEF Calls
    <3>3. c.snap # 0
      BY <1>0, <1>4, <3>2 DEF Scan, At
    <3> HIDE DEF c
    <3> QED
      BY <2>1, <3>1, <3>2, <3>3, CallTypes DEF Places
  <2>4. CASE ~fits
    <3> DEFINE c == [call[s] EXCEPT !.rows = {}, !.snap = 0, !.gen = 0]
    <3>1. PICK p \in {"outrun", "claim"} :
             call' = [call EXCEPT ![s] = c] /\ spc' = [spc EXCEPT ![s] = p]
      BY <1>0, <1>4, <2>4 DEF Scan, Rebuild, Goto
    <3>2. c \in Calls /\ c.snap = 0 /\ c.lease.snap = call[s].lease.snap
      BY <1>0 DEF Calls
    <3> HIDE DEF c
    <3> QED
      BY <2>1, <3>1, <3>2, CallTypes DEF Places
  <2> QED
    BY <2>3, <2>4
<1> QED
  BY <1>2, <1>3, <1>4

(* Storing a delta keeps the types. *)
LEMMA StoreTypes ==
    ASSUME TypeOK, NEW s \in Sessions, StoreDelta(s)
    PROVE  StorageTypeOK' /\ SessionTypeOK'
<1> DEFINE i == call[s].snap
<1>1. /\ call[s].rows \in SUBSET Row /\ call[s].gen \in Nat
      /\ i \in 1..Len(snaps) /\ snaps[i] \in Snapshots
  BY CallFields, SnapsLength DEF TypeOK, StoreDelta, At
<1>2. PICK delta \in SUBSET Row, synced \in Nat :
         /\ snaps' = [snaps EXCEPT ![i] = [snaps[i] EXCEPT !.delta = delta, !.synced = synced]]
         /\ delta = call[s].rows
  BY <1>1 DEF StoreDelta, SyncGeneration, TypeOK, StorageTypeOK
<1>3. [snaps[i] EXCEPT !.delta = delta, !.synced = synced] \in Snapshots
  BY <1>1 DEF Snapshots
<1> HIDE DEF i
<1>4. snaps' \in Seq(Snapshots) /\ Len(snaps') = Len(snaps) /\ Len(snaps) \in Nat
  BY <1>1, <1>2, <1>3 DEF TypeOK, StorageTypeOK
<1>5. StorageTypeOK'
  <2>1. catchUp' \in {{}} \cup {{t} : t \in Sessions}
    BY CatchUpLock DEF StoreDelta, TypeOK
  <2> QED
    BY <1>4, <2>1 DEF StoreDelta, TypeOK, StorageTypeOK
<1>6. snaps[i].base \cup call[s].rows \in SUBSET Row
  BY <1>1 DEF Snapshots
<1>7. Lease(s, i, snaps[i].base \cup call[s].rows) /\ calls' \in [Sessions -> Nat]
  BY DEF StoreDelta, i, TypeOK, SessionTypeOK
<1>8. Len(snaps') \in Nat /\ Len(snaps) <= Len(snaps')
  BY <1>4
<1> QED
  BY <1>1, <1>5, <1>6, <1>7, <1>8, LeaseFits

(* The steps of a build other than its publication keep the types. *)
LEMMA BuildTypes ==
    ASSUME TypeOK, NEW s \in Sessions,
           \/ Claim(s) \/ Wait(s) \/ BuildGenerations(s) \/ BuildRead(s) \/ BuildValidate(s)
           \/ BuildThrows(s) \/ Release(s) \/ ReleaseFailed(s)
    PROVE  StorageTypeOK' /\ SessionTypeOK'
<1>0. /\ call \in [Sessions -> Calls] /\ spc \in [Sessions -> Places] /\ call[s] \in Calls
      /\ call[s].work \in Snapshots /\ call[s].claimed \in BOOLEAN
      /\ NoSnapshot \in Snapshots /\ GenTypeOK /\ building \in BOOLEAN
  BY CallFields, NoCallType
     DEF TypeOK, SessionTypeOK, ObserverTypeOK, StorageTypeOK, Calls
<1>1. ASSUME snaps' = snaps, published' = published, noSavedAt' = noSavedAt,
             building' \in BOOLEAN, catchUp' = catchUp
      PROVE  StorageTypeOK'
  BY <1>1 DEF TypeOK, StorageTypeOK
<1>2. CASE Claim(s)
  <2>1. PICK b \in BOOLEAN, p \in {"wait", "generations"} :
           /\ call' = [call EXCEPT ![s] = [call[s] EXCEPT !.rebuilt = TRUE, !.claimed = b]]
           /\ spc' = [spc EXCEPT ![s] = p]
    <3>1. CASE BuildInProgress
      <4>1. [call[s] EXCEPT !.rebuilt = TRUE, !.claimed = call[s].claimed]
              = [call[s] EXCEPT !.rebuilt = TRUE]
        BY <1>0 DEF Calls
      <4>2. call' = [call EXCEPT ![s] = [call[s] EXCEPT !.rebuilt = TRUE]]
            /\ spc' = [spc EXCEPT ![s] = "wait"]
        BY <1>2, <3>1 DEF Claim, Goto
      <4> QED
        BY <1>0, <4>1, <4>2
    <3>2. CASE ~BuildInProgress
      BY <1>0, <1>2, <3>2 DEF Claim, Goto
    <3> QED
      BY <3>1, <3>2
  <2> DEFINE c == [call[s] EXCEPT !.rebuilt = TRUE, !.claimed = b]
  <2>2. c \in Calls /\ c.snap = call[s].snap /\ c.lease.snap = call[s].lease.snap
    BY <1>0 DEF Calls
  <2>3. snaps' = snaps /\ calls' = calls /\ StorageTypeOK'
    BY <1>0, <1>1, <1>2 DEF Claim
  <2>4. call' = [call EXCEPT ![s] = c]
    BY <2>1
  <2> HIDE DEF c
  <2> QED
    BY <2>1, <2>2, <2>3, <2>4, CallTypes DEF Places
<1>3. CASE Wait(s)
  BY <1>3, StorageSame, GotoTypes DEF Wait, Places
<1>4. CASE BuildGenerations(s)
  <2> DEFINE work == [NoSnapshot EXCEPT !.write = writeGen, !.table = tableGen,
                          !.destr = destrGen, !.synced = dbGen, !.full = WantsFull(s)]
             c == [call[s] EXCEPT !.work = work]
  <2>1. work \in Snapshots
    BY <1>0 DEF Snapshots, GenTypeOK, WantsFull
  <2>2. call' = [call EXCEPT ![s] = c] /\ spc' = [spc EXCEPT ![s] = "read"]
    BY <1>4 DEF BuildGenerations, Goto
  <2>3. c \in Calls /\ c.snap = call[s].snap /\ c.lease.snap = call[s].lease.snap
    <3> HIDE DEF work
    <3> QED
      BY <1>0, <2>1 DEF Calls
  <2>4. snaps' = snaps /\ calls' = calls /\ StorageTypeOK'
    BY <1>4, StorageSame DEF BuildGenerations
  <2> HIDE DEF c
  <2> QED
    BY <2>2, <2>3, <2>4, CallTypes DEF Places
<1>5. CASE BuildRead(s)
  <2> DEFINE work == [call[s].work EXCEPT
                         !.base = Table.rows, !.at = Len(log), !.version = Table.version,
                         !.watermark = Watermark(Table.rows)]
             c == [call[s] EXCEPT !.work = work]
  <2>1. Watermark(Table.rows) \in Nat
    <3>1. Table.rows \in SUBSET Row /\ nextRow \in Nat
          /\ \A i \in Ids(Table.rows) : i < nextRow
      BY TableIsState DEF TypeOK, ObserverTypeOK, LogTypeOK
    <3> QED
      BY <3>1, WatermarkIsNat
  <2>2. work \in Snapshots
    BY <1>0, <2>1, TableIsState DEF Snapshots, TypeOK, ObserverTypeOK
  <2>3. call' = [call EXCEPT ![s] = c] /\ spc' = [spc EXCEPT ![s] = "validate"]
    BY <1>0, <1>5 DEF BuildRead, Goto
  <2>4. c \in Calls /\ c.snap = call[s].snap /\ c.lease.snap = call[s].lease.snap
    <3> HIDE DEF work
    <3> QED
      BY <1>0, <2>2 DEF Calls
  <2>5. snaps' = snaps /\ calls' = calls /\ StorageTypeOK'
    BY <1>5, StorageSame DEF BuildRead
  <2> HIDE DEF c
  <2> QED
    BY <2>3, <2>4, <2>5, CallTypes DEF Places
<1>6. CASE BuildValidate(s)
  <2>1. PICK p \in {"publish", "fail"} : Goto(s, p) /\ UNCHANGED <<call, calls>>
    BY <1>6 DEF BuildValidate
  <2>2. StorageTypeOK' /\ snaps' = snaps
    BY <1>6, StorageSame DEF BuildValidate
  <2> QED
    BY <2>1, <2>2, GotoTypes DEF Places
<1>7. CASE BuildThrows(s)
  BY <1>7, StorageSame, GotoTypes DEF BuildThrows, Places
<1>8. CASE Release(s) \/ ReleaseFailed(s)
  <2>1. PICK work \in Snapshots, p \in {"version", "failed"} :
           /\ call' = [call EXCEPT ![s] = [call[s] EXCEPT !.claimed = FALSE, !.work = work]]
           /\ spc' = [spc EXCEPT ![s] = p]
    <3>1. CASE Release(s)
      <4>1. [call[s] EXCEPT !.claimed = FALSE, !.work = call[s].work]
              = [call[s] EXCEPT !.claimed = FALSE]
        BY <1>0 DEF Calls
      <4>2. call' = [call EXCEPT ![s] = [call[s] EXCEPT !.claimed = FALSE]]
            /\ spc' = [spc EXCEPT ![s] = "version"]
        BY <3>1 DEF Release, Goto
      <4> QED
        BY <1>0, <4>1, <4>2
    <3>2. CASE ReleaseFailed(s)
      BY <1>0, <3>2 DEF ReleaseFailed, Goto
    <3> QED
      BY <1>8, <3>1, <3>2
  <2> DEFINE c == [call[s] EXCEPT !.claimed = FALSE, !.work = work]
  <2>2. c \in Calls /\ c.snap = call[s].snap /\ c.lease.snap = call[s].lease.snap
    BY <1>0 DEF Calls
  <2>3. snaps' = snaps /\ calls' = calls /\ StorageTypeOK'
    BY <1>0, <1>1, <1>8 DEF Release, ReleaseFailed, BuildingAfterFailure
  <2>4. call' = [call EXCEPT ![s] = c]
    BY <2>1
  <2> HIDE DEF c
  <2> QED
    BY <2>1, <2>2, <2>3, <2>4, CallTypes DEF Places
<1> QED
  BY <1>2, <1>3, <1>4, <1>5, <1>6, <1>7, <1>8

(* What a publication does to the snapshots: none changes, at most one is added. *)
LEMMA PublishedSnapshot ==
    ASSUME StorageTypeOK, NEW new \in Snapshots, PublishSnapshot(new)
    PROVE  /\ snaps' = snaps \/ snaps' = Append(snaps, new)
           /\ snaps' \in Seq(Snapshots) /\ published' \subseteq 1..Len(snaps')
           /\ Len(snaps) \in Nat /\ Len(snaps') \in Nat /\ Len(snaps) <= Len(snaps')
<1> DEFINE kept == {i \in published : ~Replaced(snaps[i], new)}
<1>1. kept \subseteq 1..Len(snaps) /\ Len(snaps) \in Nat
  BY SnapsLength
<1>2. CASE published' = kept /\ UNCHANGED snaps
  BY <1>1, <1>2 DEF StorageTypeOK
<1>3. CASE snaps' = Append(snaps, new) /\ published' = kept \cup {Len(snaps) + 1}
  <2> HIDE DEF kept
  <2>1. snaps' \in Seq(Snapshots) /\ Len(snaps') = Len(snaps) + 1
    BY <1>3 DEF StorageTypeOK
  <2>2. ASSUME NEW i \in kept \cup {Len(snaps) + 1}
        PROVE  i \in 1..Len(snaps')
    <3>1. i \in 1..Len(snaps) \/ i = Len(snaps) + 1
      BY <1>1
    <3> QED
      BY <1>1, <2>1, <3>1
  <2>3. Len(snaps') \in Nat /\ Len(snaps) <= Len(snaps')
    BY <1>1, <2>1
  <2> QED
    BY <1>1, <1>3, <2>1, <2>2, <2>3
<1> QED
  BY <1>2, <1>3 DEF PublishSnapshot

(* The publication of a build keeps the types. *)
LEMMA PublishTypes ==
    ASSUME TypeOK, NEW s \in Sessions, Publish(s)
    PROVE  StorageTypeOK' /\ SessionTypeOK'
<1>0. /\ call \in [Sessions -> Calls] /\ call[s] \in Calls /\ call[s].work \in Snapshots
      /\ NoSnapshot \in Snapshots
      /\ calls' \in [Sessions -> Nat] /\ SessionTypeOK /\ StorageTypeOK
  BY CallFields, NoCallType DEF TypeOK, SessionTypeOK, Publish
<1>1. /\ snaps' \in Seq(Snapshots) /\ published' \subseteq 1..Len(snaps')
      /\ Len(snaps) \in Nat /\ Len(snaps') \in Nat /\ Len(snaps) <= Len(snaps')
  BY <1>0, PublishedSnapshot DEF Publish
<1>2. StorageTypeOK'
  BY <1>0, <1>1 DEF Publish, StorageTypeOK
<1> DEFINE c == [call[s] EXCEPT !.work = NoSnapshot]
<1>3. PICK p \in {"release", "version"} :
         call' = [call EXCEPT ![s] = c] /\ spc' = [spc EXCEPT ![s] = p]
  BY DEF Publish, Goto
<1>4. c \in Calls /\ c.snap = call[s].snap /\ c.lease.snap = call[s].lease.snap
  BY <1>0 DEF Calls
<1> HIDE DEF c
<1>5. Fits(c, p)
  BY <1>0, <1>1, <1>4, CallFields DEF Fits, Places
<1> QED
  BY <1>0, <1>1, <1>2, <1>3, <1>5, SessionMoves

(* What a statement does once it holds its lease keeps the types. *)
LEMMA LeasedTypes ==
    ASSUME TypeOK, NEW s \in Sessions,
           \/ SaveFlag(s) \/ SaveWrite(s) \/ SaveCheck(s) \/ Unsave(s)
           \/ Reacquire(s) \/ Finish(s)
    PROVE  StorageTypeOK' /\ SessionTypeOK'
<1>0. /\ call \in [Sessions -> Calls] /\ spc \in [Sessions -> Places] /\ call[s] \in Calls
      /\ NoCall \in Calls
  BY CallFields, NoCallType DEF TypeOK, SessionTypeOK
<1>1. StorageTypeOK' /\ snaps' = snaps /\ calls' = calls
  BY StorageSame DEF SaveFlag, SaveWrite, SaveCheck, Unsave, Reacquire, Finish
<1>2. CASE SaveFlag(s)
  BY <1>1, <1>2, CallFields, GotoTypes DEF SaveFlag, At, Places, TypeOK
<1>3. CASE SaveWrite(s)
  BY <1>1, <1>3, GotoTypes DEF SaveWrite, Places
<1>4. CASE SaveCheck(s)
  BY <1>1, <1>4, GotoTypes DEF SaveCheck, Places
<1>5. CASE Unsave(s)
  BY <1>1, <1>5, GotoTypes DEF Unsave, Places
<1>6. CASE Reacquire(s)
  <2>1. CASE Reusable(snaps[call[s].lease.snap])
    <3> DEFINE c == [call[s] EXCEPT !.acquires = @ + 1]
    <3>1. call' = [call EXCEPT ![s] = c] /\ spc' = [spc EXCEPT ![s] = "leased"]
      <4>1. spc[s] = "leased" /\ spc' = spc
        BY <1>6, <2>1 DEF Reacquire, At
      <4>2. spc' = [spc EXCEPT ![s] = "leased"]
        BY <1>0, <4>1
      <4>3. call' = [call EXCEPT ![s] = c]
        BY <1>6, <2>1 DEF Reacquire
      <4> QED
        BY <4>2, <4>3
    <3>2. call[s].acquires + 1 \in Nat
      BY CallFields DEF TypeOK
    <3>3. c = [call[s] EXCEPT !.acquires = call[s].acquires + 1]
      BY <1>0 DEF Calls
    <3>4. c \in Calls /\ c.snap = call[s].snap /\ c.lease.snap = call[s].lease.snap
      <4> HIDE DEF c
      <4> QED
        BY <1>0, <3>2, <3>3 DEF Calls
    <3> HIDE DEF c
    <3> QED
      BY <1>1, <3>1, <3>4, CallTypes DEF Places
  <2>2. CASE ~Reusable(snaps[call[s].lease.snap])
    <3> DEFINE c == [call[s] EXCEPT !.lease = NoLease, !.rebuilt = FALSE]
    <3>1. call' = [call EXCEPT ![s] = c] /\ spc' = [spc EXCEPT ![s] = "version"]
      BY <1>0, <1>6, <2>2 DEF Reacquire, Goto
    <3>2. c \in Calls /\ c.snap = call[s].snap /\ c.lease.snap = 0
      BY <1>0 DEF Calls, NoLease
    <3> HIDE DEF c
    <3> QED
      BY <1>1, <3>1, <3>2, CallTypes DEF Places
  <2> QED
    BY <2>1, <2>2
<1>7. CASE Finish(s)
  <2>1. call' = [call EXCEPT ![s] = NoCall] /\ spc' = [spc EXCEPT ![s] = "idle"]
    BY <1>7 DEF Finish, Goto
  <2>2. NoCall.snap = 0 /\ NoCall.lease.snap = 0
    BY DEF NoCall, NoLease
  <2> QED
    BY <1>0, <1>1, <2>1, <2>2, CallTypes DEF Places
<1> QED
  BY <1>2, <1>3, <1>4, <1>5, <1>6, <1>7

(* An instance that has just opened has published nothing. *)
LEMMA NothingPublished ==
    ASSUME snaps = <<>>, published = {}, noSavedAt = {}, building = FALSE, catchUp = {}
    PROVE  StorageTypeOK
<1>1. snaps \in Seq(Snapshots)
  OBVIOUS
<1> QED
  BY <1>1 DEF StorageTypeOK

(* ... and so has one that has just restarted. *)
LEMMA NothingPublishedNext ==
    ASSUME snaps' = <<>>, published' = {}, noSavedAt' = {}, building' = FALSE, catchUp' = {}
    PROVE  StorageTypeOK'
<1>1. snaps' \in Seq(Snapshots)
  OBVIOUS
<1> QED
  BY <1>1 DEF StorageTypeOK

(* A crash keeps the types: what it keeps of the tables was committed. *)
LEMMA CrashTypes ==
    ASSUME TypeOK, Crash
    PROVE  TypeOK'
<1>1. LogTypeOK' /\ GenTypeOK'
  BY TableIsState DEF Crash, TypeOK, ObserverTypeOK, LogTypeOK, GenTypeOK
<1>2. SavedTypeOK'
  BY DEF Crash, TypeOK, ObserverTypeOK, SavedTypeOK
<1>3. WriterTypeOK'
  BY TableIsState
     DEF Crash, TypeOK, ObserverTypeOK, WriterTypeOK, Unplanned, PlannedTables
<1>4. StorageTypeOK'
  BY NothingPublishedNext DEF Crash
<1>5. SessionTypeOK'
  <2>1. NoCall.snap = 0 /\ NoCall.lease.snap = 0
    BY DEF NoCall, NoLease
  <2>2. snaps' = <<>> /\ Len(snaps') = 0
    BY DEF Crash
  <2> QED
    BY <2>1, <2>2, NoCallType DEF Crash, TypeOK, SessionTypeOK, Places
<1>6. crashes' \in Nat
  BY DEF Crash, TypeOK
<1> QED
  BY <1>1, <1>2, <1>3, <1>4, <1>5, <1>6 DEF TypeOK, ObserverTypeOK

(* The initial states have the types. *)
LEMMA InitTypes ==
    ASSUME Init
    PROVE  TypeOK
<1> DEFINE first == [rows |-> {<<i, 0>> : i \in 0..(InitialRows - 1)}, version |-> 0,
                     destructive |-> FALSE]
<1>1. first \in State /\ Ids(first.rows) \subseteq 0..(InitialRows - 1)
  BY ConstantsAssumption DEF State, Row, Ids
<1>2. log = <<first>>
  BY DEF Init, InitObserver
<1> HIDE DEF first
<1>3. log \in Seq(State) /\ Len(log) = 1 /\ log[1] = first
  BY <1>1, <1>2
<1>4. LogTypeOK
  <2>1. \A k \in 1..Len(log) : log[k] = first
    BY <1>3
  <2>2. log # <<>> /\ 1 \in 1..Len(log)
    BY <1>3
  <2>3. nextRow = InitialRows /\ acked = {1}
    BY DEF Init, InitObserver
  <2> QED
    BY <1>1, <1>3, <2>1, <2>2, <2>3, ConstantsAssumption DEF LogTypeOK, State
<1>5. GenTypeOK /\ SavedTypeOK
  BY DEF Init, InitObserver, GenTypeOK, SavedTypeOK
<1>6. WriterTypeOK
  BY <1>3, ConstantsAssumption
     DEF Init, InitObserver, WriterTypeOK, Unplanned, PlannedTables
<1>7. StorageTypeOK
  BY NothingPublished DEF Init, InitStorage
<1>8. SessionTypeOK
  <2>1. NoCall.snap = 0 /\ NoCall.lease.snap = 0
    BY DEF NoCall, NoLease
  <2>2. snaps = <<>> /\ Len(snaps) = 0
    BY DEF Init, InitStorage
  <2> QED
    BY <2>1, <2>2, NoCallType DEF Init, InitStorage, SessionTypeOK, Places
<1> QED
  BY <1>4, <1>5, <1>6, <1>7, <1>8 DEF Init, TypeOK, ObserverTypeOK

(* A session's step changes of the writers' state only what InvalidateCache, a save and
   its flags and DropSavedCsrs change. *)
LEMMA SessionObserverTypes ==
    ASSUME TypeOK, NEW s \in Sessions, SessionStep(s)
    PROVE  ObserverTypeOK'
<1>0. s \in Connections /\ ObserverTypeOK
  BY DEF Connections, TypeOK
<1>1. CASE Dropping(s)
  BY <1>0, <1>1, DropTypes DEF Dropping
<1>2. CASE SaveFlag(s)
  BY <1>0, <1>2
     DEF SaveFlag, ObserverTypeOK, LogTypeOK, GenTypeOK, SavedTypeOK, WriterTypeOK, tableVars,
         genVars, writerVars
<1>3. CASE SaveWrite(s)
  <2> DEFINE snap == snaps[call[s].lease.snap]
             copy == [base |-> snap.base, version |-> snap.version, watermark |-> snap.watermark]
  <2>1. snap \in Snapshots
    BY <1>3, CallFields, SnapsLength DEF SaveWrite, At, TypeOK
  <2>2. copy \in Copy
    BY <2>1 DEF Snapshots, Copy
  <2>3. saved' = {copy} /\ InvalidateCache
    BY <1>3 DEF SaveWrite
  <2> HIDE DEF copy
  <2>4. dbGen' \in Nat /\ cacheVersion' \in Nat
    BY <1>0, <2>3, InvalidateTypes DEF ObserverTypeOK
  <2> QED
    BY <1>0, <1>3, <2>2, <2>3, <2>4
       DEF SaveWrite, ObserverTypeOK, LogTypeOK, GenTypeOK, SavedTypeOK, WriterTypeOK, tableVars,
           writerVars
<1>4. CASE SaveCheck(s) \/ Unsave(s)
  <2>1. drop' \in {drop, [drop EXCEPT ![s] = "check"]}
    BY <1>4 DEF SaveCheck, Unsave
  <2>2. SavedTypeOK'
    BY <1>0, <1>4, <2>1 DEF SaveCheck, Unsave, savedVars, ObserverTypeOK, SavedTypeOK
  <2> QED
    BY <1>0, <1>4, <2>2
       DEF SaveCheck, Unsave, ObserverTypeOK, LogTypeOK, GenTypeOK, WriterTypeOK, tableVars,
           genVars, writerVars
<1>5. CASE UNCHANGED observerVars
  BY <1>0, <1>5, ObserverSame
<1>6. \/ Dropping(s) \/ SaveFlag(s) \/ SaveWrite(s) \/ SaveCheck(s) \/ Unsave(s)
      \/ UNCHANGED observerVars
  BY DEF SessionStep, Resolving, Begin, ReadVersion, Find, LoadCheck, LoadRead, LoadStamp,
         LoadPublish, LockCatchUp, CheckSynced, Scan, StoreDelta, Claim, Wait,
         BuildGenerations, BuildRead, BuildValidate, BuildThrows, Publish, Release,
         ReleaseFailed, Reacquire, Finish
<1> QED
  BY <1>1, <1>2, <1>3, <1>4, <1>5, <1>6

(* Every step of a session keeps the types. *)
LEMMA SessionStepTypes ==
    ASSUME TypeOK, NEW s \in Sessions, SessionStep(s)
    PROVE  TypeOK'
<1>1. StorageTypeOK' /\ SessionTypeOK'
  <2>1. CASE Dropping(s)
    BY <2>1 DEF Dropping, TypeOK, StorageTypeOK, SessionTypeOK, storageVars, sessionVars
  <2> QED
    BY <2>1, BeginTypes, VersionTypes, FindTypes, LoadTypes, LoadPublishTypes, CatchUpTypes,
       StoreTypes, BuildTypes, PublishTypes, LeasedTypes DEF SessionStep, Resolving
<1>2. crashes' \in Nat
  BY DEF TypeOK, SessionStep, Resolving, Dropping, Begin, ReadVersion, Find, LoadCheck, LoadRead,
         LoadStamp, LoadPublish, LockCatchUp, CheckSynced, Scan, StoreDelta, Claim, Wait,
         BuildGenerations, BuildRead, BuildValidate, BuildThrows, Publish, Release,
         ReleaseFailed, SaveFlag, SaveWrite, SaveCheck, Unsave, Reacquire, Finish
<1> QED
  BY <1>1, <1>2, SessionObserverTypes DEF TypeOK

(* The variables keep their types in every behaviour. *)
THEOREM TypeCorrect == Spec => []TypeOK
<1>1. Init => TypeOK
  BY InitTypes
<1>2. TypeOK /\ [Next]_vars => TypeOK'
  <2> SUFFICES ASSUME TypeOK, [Next]_vars
               PROVE  TypeOK'
    OBVIOUS
  <2>1. ASSUME NEW w \in Writers, Writing(w)
        PROVE  TypeOK'
    <3>1. ObserverTypeOK'
      BY <2>1, WriterTypes DEF Writing, TypeOK
    <3> QED
      BY <2>1, <3>1
         DEF Writing, TypeOK, StorageTypeOK, SessionTypeOK, storageVars, sessionVars
  <2>2. ASSUME NEW s \in Sessions, SessionStep(s)
        PROVE  TypeOK'
    BY <2>2, SessionStepTypes
  <2>3. CASE UNCHANGED vars
    <3>1. ObserverTypeOK'
      BY <2>3, ObserverSame DEF vars, TypeOK
    <3> QED
      BY <2>3, <3>1
         DEF vars, TypeOK, StorageTypeOK, SessionTypeOK, storageVars, sessionVars
  <2> QED
    BY <2>1, <2>2, <2>3, CrashTypes DEF Next, Ended
<1> QED
  BY <1>1, <1>2, PTL DEF Spec

-----------------------------------------------------------------------------
(* What a session's step does to its statement. *)

(* A step of one session is none of another's. *)
Others(s) == \A t \in Sessions \ {s} : call'[t] = call[t] /\ spc'[t] = spc[t]

(* The types of what the proofs below look at. *)
LEMMA CallTyped ==
    ASSUME TypeOK, NEW s \in Sessions
    PROVE  /\ call \in [Sessions -> Calls] /\ spc \in [Sessions -> Places]
           /\ call[s] \in Calls /\ call[s].claimed \in BOOLEAN /\ call[s].work \in Snapshots
           /\ snaps \in Seq(Snapshots) /\ Len(snaps) \in Nat
BY SnapsLength DEF TypeOK, SessionTypeOK, StorageTypeOK, Calls

(* Where a step goes ... *)
LEMMA Moved ==
    ASSUME TypeOK, NEW s \in Sessions, NEW p, Goto(s, p)
    PROVE  spc'[s] = p /\ \A t \in Sessions \ {s} : spc'[t] = spc[t]
BY CallTyped DEF Goto

(* ... and what it does to the statement's locals. *)
LEMMA Called ==
    ASSUME TypeOK, NEW s \in Sessions, NEW c, call' = [call EXCEPT ![s] = c]
    PROVE  call'[s] = c /\ \A t \in Sessions \ {s} : call'[t] = call[t]
BY CallTyped

Leases(s) == \E i, rows : Lease(s, i, rows)

(* The steps that neither claim or release a build, nor make a snapshot, nor hand out a
   lease. *)
Quiet(s) ==
    \/ (\E op \in Operations : Begin(s, op)) \/ ReadVersion(s) \/ LoadCheck(s)
    \/ Find(s) /\ ~Leases(s)
    \/ LockCatchUp(s) \/ Scan(s)
    \/ CheckSynced(s) /\ ~Leases(s)
    \/ Wait(s) \/ BuildValidate(s) \/ BuildThrows(s)
    \/ SaveFlag(s) \/ SaveWrite(s) \/ SaveCheck(s) \/ Unsave(s) \/ Reacquire(s)

(* They keep the claim and the snapshot being made. *)
LEMMA QuietLocals ==
    ASSUME TypeOK, NEW s \in Sessions, Quiet(s)
    PROVE  /\ Others(s)
           /\ call'[s].claimed = call[s].claimed /\ call'[s].work = call[s].work
           /\ spc'[s] \notin {"release", "load_stamp"}
           /\ spc[s] \in {"validate", "read"} => spc'[s] \in {"publish", "fail"}
           /\ snaps' = snaps /\ building' = building
<1>1. snaps' = snaps /\ building' = building
  BY DEF Quiet, Begin, ReadVersion, Find, LoadCheck, LockCatchUp, CheckSynced, Scan, Wait,
         BuildValidate, BuildThrows, SaveFlag, SaveWrite, SaveCheck, Unsave, Reacquire, storageVars
<1>2. /\ \A t \in Sessions \ {s} : spc'[t] = spc[t]
      /\ spc'[s] \notin {"release", "load_stamp"}
      /\ spc[s] \in {"validate", "read"} => spc'[s] \in {"publish", "fail"}
  <2>1. CASE Reacquire(s)
    BY <2>1, Moved DEF Reacquire, At
  <2>2. CASE BuildValidate(s) \/ BuildThrows(s)
    BY <2>2, Moved DEF BuildValidate, BuildThrows
  <2>3. CASE ~Reacquire(s) /\ ~BuildValidate(s) /\ ~BuildThrows(s)
    <3>1. spc[s] \notin {"validate", "read"}
      BY <2>3 DEF Quiet, Begin, ReadVersion, Find, LoadCheck, LockCatchUp, CheckSynced, Scan,
                  Wait, SaveFlag, SaveWrite, SaveCheck, Unsave, At
    <3>2. PICK p \in Places \ {"release", "load_stamp"} : Goto(s, p)
      BY <2>3 DEF Quiet, Leases, Begin, ReadVersion, Find, LoadCheck, NotLoaded, LockCatchUp,
                  CheckSynced, Scan, Rebuild, Wait, SaveFlag, SaveWrite, SaveCheck, Unsave, Places
    <3> QED
      BY <3>1, <3>2, Moved
  <2> QED
    BY <2>1, <2>2, <2>3
<1>3. /\ \A t \in Sessions \ {s} : call'[t] = call[t]
      /\ call'[s].claimed = call[s].claimed /\ call'[s].work = call[s].work
  <2>1. ASSUME NEW c, call' = [call EXCEPT ![s] = c],
               c.claimed = call[s].claimed, c.work = call[s].work
        PROVE  /\ \A t \in Sessions \ {s} : call'[t] = call[t]
               /\ call'[s].claimed = call[s].claimed /\ call'[s].work = call[s].work
    BY <2>1, Called
  <2>2. CASE UNCHANGED call
    BY <2>2, CallTyped
  <2>3. CASE \E op \in Operations : Begin(s, op)
    <3>1. PICK op \in Operations :
             call' = [call EXCEPT ![s] = [call[s] EXCEPT !.op = op, !.since = acked]]
      BY <2>3, CallTyped DEF Begin
    <3>5. /\ [call[s] EXCEPT !.op = op, !.since = acked].claimed = call[s].claimed
          /\ [call[s] EXCEPT !.op = op, !.since = acked].work = call[s].work
      BY CallTyped DEF Calls
    <3> QED
      BY <2>1, <3>1, <3>5
  <2>4. CASE ReadVersion(s)
    <3>1. PICK v : call' = [call EXCEPT ![s] = [call[s] EXCEPT !.version = v]]
      BY <2>4 DEF ReadVersion
    <3>5. /\ [call[s] EXCEPT !.version = v].claimed = call[s].claimed
          /\ [call[s] EXCEPT !.version = v].work = call[s].work
      BY CallTyped DEF Calls
    <3> QED
      BY <2>1, <3>1, <3>5
  <2>5. CASE LockCatchUp(s) \/ (LoadCheck(s) /\ call' # call)
    <3>1. call' = [call EXCEPT ![s] = [call[s] EXCEPT !.gen = dbGen]]
      BY <2>5 DEF LoadCheck, LockCatchUp
    <3>5. /\ [call[s] EXCEPT !.gen = dbGen].claimed = call[s].claimed
          /\ [call[s] EXCEPT !.gen = dbGen].work = call[s].work
      BY CallTyped DEF Calls
    <3> QED
      BY <2>1, <3>1, <3>5
  <2>6. CASE Find(s) /\ ~Leases(s)
    <3>1. PICK i : Looked(s, i)
      BY <2>6 DEF Find, Leases
    <3>2. call' = [call EXCEPT ![s] = [call[s] EXCEPT !.version = 0, !.snap = i]]
      BY <3>1, CallTyped DEF Looked
    <3>5. /\ [call[s] EXCEPT !.version = 0, !.snap = i].claimed = call[s].claimed
          /\ [call[s] EXCEPT !.version = 0, !.snap = i].work = call[s].work
      BY CallTyped DEF Calls
    <3> QED
      BY <2>1, <3>2, <3>5
  <2>7. CASE CheckSynced(s) /\ ~Leases(s)
    <3>1. call' = [call EXCEPT ![s] = [call[s] EXCEPT !.rows = snaps[call[s].snap].delta]]
      BY <2>7 DEF CheckSynced, Leases
    <3>5. /\ [call[s] EXCEPT !.rows = snaps[call[s].snap].delta].claimed = call[s].claimed
          /\ [call[s] EXCEPT !.rows = snaps[call[s].snap].delta].work = call[s].work
      BY CallTyped DEF Calls
    <3> QED
      BY <2>1, <3>1, <3>5
  <2>8. CASE Scan(s)
    <3> DEFINE found == call[s].rows \cup ScanFinds(snaps[call[s].snap], call[s].rows)
    <3>1. \/ call' = [call EXCEPT ![s] = [call[s] EXCEPT !.rows = found]]
          \/ call' = [call EXCEPT ![s] = [call[s] EXCEPT !.rows = {}, !.snap = 0, !.gen = 0]]
      BY <2>8, CallTyped DEF Scan, Rebuild
    <3> HIDE DEF found
    <3>5. /\ [call[s] EXCEPT !.rows = found].claimed = call[s].claimed
          /\ [call[s] EXCEPT !.rows = found].work = call[s].work
      BY CallTyped DEF Calls
    <3>6. /\ [call[s] EXCEPT !.rows = {}, !.snap = 0, !.gen = 0].claimed = call[s].claimed
          /\ [call[s] EXCEPT !.rows = {}, !.snap = 0, !.gen = 0].work = call[s].work
      BY CallTyped DEF Calls
    <3> QED
      BY <2>1, <3>1, <3>5, <3>6
  <2>9. CASE Reacquire(s)
    <3>1. \/ call' = [call EXCEPT ![s] = [call[s] EXCEPT !.acquires = @ + 1]]
          \/ call' = [call EXCEPT ![s] = [call[s] EXCEPT !.lease = NoLease, !.rebuilt = FALSE]]
      BY <2>9, CallTyped DEF Reacquire
    <3>5. /\ [call[s] EXCEPT !.acquires = @ + 1].claimed = call[s].claimed
          /\ [call[s] EXCEPT !.acquires = @ + 1].work = call[s].work
      BY CallTyped DEF Calls
    <3>6. /\ [call[s] EXCEPT !.lease = NoLease, !.rebuilt = FALSE].claimed = call[s].claimed
          /\ [call[s] EXCEPT !.lease = NoLease, !.rebuilt = FALSE].work = call[s].work
      BY CallTyped DEF Calls
    <3> QED
      BY <2>1, <3>1, <3>5, <3>6
  <2> QED
    BY <2>2, <2>3, <2>4, <2>5, <2>6, <2>7, <2>8, <2>9
       DEF Quiet, Wait, BuildValidate, BuildThrows, SaveFlag, SaveWrite, SaveCheck, Unsave
<1> QED
  BY <1>1, <1>2, <1>3 DEF Others

(* A lease, or the end of the statement, leaves neither a claim nor a snapshot behind. *)
LEMMA LeaseLocals ==
    ASSUME TypeOK, NEW s \in Sessions, Leases(s) \/ Finish(s)
    PROVE  /\ Others(s)
           /\ call'[s].claimed = FALSE /\ call'[s].work = NoSnapshot
           /\ spc'[s] \in {"save", "unsave", "leased", "idle"}
<1>1. CASE Leases(s)
  <2>1. PICK i, rows : Lease(s, i, rows)
    BY <1>1 DEF Leases
  <2>2. spc'[s] \in {"save", "unsave", "leased"} /\ \A t \in Sessions \ {s} : spc'[t] = spc[t]
    BY <2>1, CallTyped DEF Lease, Goto
  <2>3. call'[s].claimed = FALSE /\ call'[s].work = NoSnapshot
        /\ \A t \in Sessions \ {s} : call'[t] = call[t]
    BY <2>1, CallTyped DEF Lease, NoCall
  <2> QED
    BY <2>2, <2>3 DEF Others
<1>2. CASE Finish(s)
  BY <1>2, CallTyped DEF Finish, Goto, NoCall, Others
<1> QED
  BY <1>1, <1>2

(* A load makes a snapshot that was not read from the tables ... *)
LEMMA LoadLocals ==
    ASSUME TypeOK, NEW s \in Sessions, LoadRead(s) \/ LoadStamp(s) \/ LoadPublish(s)
    PROVE  /\ Others(s)
           /\ call'[s].claimed = call[s].claimed /\ building' = building
           /\ LoadRead(s) =>
                 \/ call'[s].work = call[s].work /\ spc'[s] \in {"claim", "failed"}
                 \/ /\ call'[s].work.at = 0 /\ call'[s].work.write = 0
                    /\ call'[s].work.destr = 0 /\ call'[s].work.table = 0
                    /\ spc'[s] = "load_stamp"
           /\ LoadStamp(s) =>
                 /\ call'[s].work.at = call[s].work.at /\ call'[s].work.write = writeGen
                 /\ call'[s].work.destr = destrGen /\ call'[s].work.table = tableGen
                 /\ spc'[s] = "load_publish"
           /\ LoadPublish(s) =>
                 call'[s].work = NoSnapshot /\ spc'[s] \in {"version", "lock"}
<1>1. CASE LoadRead(s)
  <2>1. ~LoadStamp(s) /\ ~LoadPublish(s) /\ building' = building
    BY <1>1 DEF LoadRead, LoadStamp, LoadPublish, At
  <2>2. CASE saved = {}
    <3>1. call' = [call EXCEPT ![s] = [call[s] EXCEPT !.gen = 0]]
      BY <1>1, <2>2 DEF LoadRead
    <3>2. PICK p \in {"claim", "failed"} : Goto(s, p)
      BY <1>1, <2>2 DEF LoadRead, NotLoaded
    <3>3. /\ [call[s] EXCEPT !.gen = 0].claimed = call[s].claimed
          /\ [call[s] EXCEPT !.gen = 0].work = call[s].work
      BY CallTyped DEF Calls
    <3> QED
      BY <2>1, <3>1, <3>2, <3>3, Moved, Called DEF Others
  <2>3. CASE saved # {}
    <3>1. PICK copy \in saved :
             call' = [call EXCEPT ![s].gen = 0, ![s].work = [NoSnapshot EXCEPT
                         !.base = copy.base, !.version = copy.version,
                         !.watermark = copy.watermark, !.full = TRUE, !.disk = TRUE]]
      BY <1>1, <2>3 DEF LoadRead
    <3> DEFINE work == [NoSnapshot EXCEPT
                          !.base = copy.base, !.version = copy.version,
                          !.watermark = copy.watermark, !.full = TRUE, !.disk = TRUE]
    <3>2. work.at = 0 /\ work.write = 0 /\ work.destr = 0 /\ work.table = 0
      BY DEF NoSnapshot
    <3>3. call' = [call EXCEPT ![s].gen = 0, ![s].work = work] /\ Goto(s, "load_stamp")
      BY <1>1, <2>3, <3>1 DEF LoadRead
    <3> HIDE DEF work
    <3>4. call' = [call EXCEPT ![s] = [call[s] EXCEPT !.gen = 0, !.work = work]]
      BY <3>3, CallTyped
    <3>5. /\ [call[s] EXCEPT !.gen = 0, !.work = work].claimed = call[s].claimed
          /\ [call[s] EXCEPT !.gen = 0, !.work = work].work = work
      BY CallTyped DEF Calls
    <3>6. call'[s] = [call[s] EXCEPT !.gen = 0, !.work = work]
          /\ \A t \in Sessions \ {s} : call'[t] = call[t]
      BY <3>4, Called
    <3>7. spc'[s] = "load_stamp" /\ \A t \in Sessions \ {s} : spc'[t] = spc[t]
      BY <3>3, Moved
    <3> QED
      BY <2>1, <3>2, <3>5, <3>6, <3>7 DEF Others
  <2> QED
    BY <2>2, <2>3
<1>2. CASE LoadStamp(s)
  <2> DEFINE work == [call[s].work EXCEPT !.write = writeGen, !.table = tableGen,
                                          !.destr = destrGen, !.synced = LoadedSync]
  <2>1. ~LoadRead(s) /\ ~LoadPublish(s) /\ building' = building
    BY <1>2 DEF LoadRead, LoadStamp, LoadPublish, At, storageVars
  <2>2. /\ call' = [call EXCEPT ![s] = [call[s] EXCEPT !.work = work]]
        /\ Goto(s, "load_publish")
    BY <1>2 DEF LoadStamp
  <2>3. /\ work.at = call[s].work.at /\ work.write = writeGen /\ work.destr = destrGen
        /\ work.table = tableGen
    BY CallTyped DEF Snapshots
  <2> HIDE DEF work
  <2>4. /\ [call[s] EXCEPT !.work = work].claimed = call[s].claimed
        /\ [call[s] EXCEPT !.work = work].work = work
    BY CallTyped DEF Calls
  <2> QED
    BY <2>1, <2>2, <2>3, <2>4, Moved, Called DEF Others
<1>3. CASE LoadPublish(s)
  <2>1. ~LoadRead(s) /\ ~LoadStamp(s) /\ building' = building
    BY <1>3 DEF LoadRead, LoadStamp, LoadPublish, At
  <2>2. PICK i : Loaded(s, i)
    BY <1>3 DEF LoadPublish
  <2>3. PICK p \in {"version", "lock"} : Goto(s, p)
    BY <2>2 DEF Loaded
  <2>4. \/ call' = [call EXCEPT ![s] = [call[s] EXCEPT !.work = NoSnapshot, !.tried = TRUE]]
        \/ call' = [call EXCEPT ![s] = [call[s] EXCEPT !.work = NoSnapshot, !.snap = i]]
    BY <2>2, CallTyped DEF Loaded
  <2>5. /\ [call[s] EXCEPT !.work = NoSnapshot, !.tried = TRUE].claimed = call[s].claimed
        /\ [call[s] EXCEPT !.work = NoSnapshot, !.tried = TRUE].work = NoSnapshot
        /\ [call[s] EXCEPT !.work = NoSnapshot, !.snap = i].claimed = call[s].claimed
        /\ [call[s] EXCEPT !.work = NoSnapshot, !.snap = i].work = NoSnapshot
    BY CallTyped DEF Calls
  <2>6. /\ call'[s].claimed = call[s].claimed /\ call'[s].work = NoSnapshot
        /\ \A t \in Sessions \ {s} : call'[t] = call[t]
    BY <2>4, <2>5, Called
  <2>7. spc'[s] \in {"version", "lock"} /\ \A t \in Sessions \ {s} : spc'[t] = spc[t]
    BY <2>3, Moved
  <2> QED
    BY <2>1, <2>6, <2>7 DEF Others
<1> QED
  BY <1>1, <1>2, <1>3

(* ... and a build one that has the generations from before it was read. *)
LEMMA BuildLocals ==
    ASSUME TypeOK, NEW s \in Sessions, BuildGenerations(s) \/ BuildRead(s) \/ Publish(s)
    PROVE  /\ Others(s)
           /\ call'[s].claimed = call[s].claimed /\ building' = building
           /\ BuildGenerations(s) =>
                 /\ call'[s].work.at = 0 /\ call'[s].work.write = writeGen
                 /\ call'[s].work.destr = destrGen /\ call'[s].work.table = tableGen
                 /\ spc'[s] = "read"
           /\ BuildRead(s) =>
                 /\ call'[s].work.at = Len(log) /\ call'[s].work.write = call[s].work.write
                 /\ call'[s].work.destr = call[s].work.destr
                 /\ call'[s].work.table = call[s].work.table /\ spc'[s] = "validate"
           /\ Publish(s) =>
                 /\ call'[s].work = NoSnapshot
                 /\ spc'[s] = IF call[s].claimed THEN "release" ELSE "version"
<1>1. ASSUME NEW work, call' = [call EXCEPT ![s] = [call[s] EXCEPT !.work = work]]
      PROVE  /\ call'[s].claimed = call[s].claimed /\ call'[s].work = work
             /\ \A t \in Sessions \ {s} : call'[t] = call[t]
  <2>1. /\ [call[s] EXCEPT !.work = work].claimed = call[s].claimed
        /\ [call[s] EXCEPT !.work = work].work = work
    BY CallTyped DEF Calls
  <2> QED
    BY <1>1, <2>1, Called
<1>2. CASE BuildGenerations(s)
  <2> DEFINE work == [NoSnapshot EXCEPT !.write = writeGen, !.table = tableGen,
                          !.destr = destrGen, !.synced = dbGen, !.full = WantsFull(s)]
  <2>1. /\ work.at = 0 /\ work.write = writeGen /\ work.destr = destrGen
        /\ work.table = tableGen
    BY DEF NoSnapshot
  <2>2. /\ call' = [call EXCEPT ![s] = [call[s] EXCEPT !.work = work]] /\ Goto(s, "read")
        /\ ~BuildRead(s) /\ ~Publish(s) /\ building' = building
    BY <1>2 DEF BuildGenerations, BuildRead, Publish, At, storageVars
  <2> HIDE DEF work
  <2> QED
    BY <1>1, <2>1, <2>2, Moved DEF Others
<1>3. CASE BuildRead(s)
  <2> DEFINE work == [call[s].work EXCEPT
                         !.base = Table.rows, !.at = Len(log), !.version = Table.version,
                         !.watermark = Watermark(Table.rows)]
  <2>1. /\ work.at = Len(log) /\ work.write = call[s].work.write
        /\ work.destr = call[s].work.destr /\ work.table = call[s].work.table
    BY CallTyped DEF Snapshots
  <2>2. /\ call' = [call EXCEPT ![s] = [call[s] EXCEPT !.work = work]] /\ Goto(s, "validate")
        /\ ~BuildGenerations(s) /\ ~Publish(s) /\ building' = building
    BY <1>3 DEF BuildGenerations, BuildRead, Publish, At, storageVars
  <2> HIDE DEF work
  <2> QED
    BY <1>1, <2>1, <2>2, Moved DEF Others
<1>4. CASE Publish(s)
  <2>1. /\ call' = [call EXCEPT ![s] = [call[s] EXCEPT !.work = NoSnapshot]]
        /\ Goto(s, IF call[s].claimed THEN "release" ELSE "version")
        /\ ~BuildGenerations(s) /\ ~BuildRead(s) /\ building' = building
    BY <1>4 DEF BuildGenerations, BuildRead, Publish, At
  <2> QED
    BY <1>1, <2>1, Moved DEF Others
<1> QED
  BY <1>2, <1>3, <1>4

(* The claim and both ways it is released. *)
LEMMA ReleaseLocals ==
    ASSUME TypeOK, NEW s \in Sessions, Claim(s) \/ Release(s) \/ ReleaseFailed(s)
    PROVE  /\ Others(s) /\ call'[s].work \in {call[s].work, NoSnapshot} /\ snaps' = snaps
           /\ Claim(s) =>
                 \/ /\ building /\ building' = building /\ spc'[s] = "wait"
                    /\ call'[s].claimed = call[s].claimed
                 \/ ~building /\ building' = TRUE /\ spc'[s] = "generations" /\ call'[s].claimed
           /\ Release(s) => building' = FALSE /\ spc'[s] = "version" /\ ~call'[s].claimed
           /\ ReleaseFailed(s) =>
                 /\ building' = (building /\ ~call[s].claimed)
                 /\ spc'[s] = "failed" /\ ~call'[s].claimed
<1>1. CASE Claim(s)
  <2>1. ~Release(s) /\ ~ReleaseFailed(s) /\ snaps' = snaps
    BY <1>1 DEF Claim, Release, ReleaseFailed, At
  <2>2. CASE building
    <3>1. /\ call' = [call EXCEPT ![s] = [call[s] EXCEPT !.rebuilt = TRUE]]
          /\ Goto(s, "wait") /\ building' = building
      BY <1>1, <2>2 DEF Claim, BuildInProgress
    <3>2. /\ [call[s] EXCEPT !.rebuilt = TRUE].claimed = call[s].claimed
          /\ [call[s] EXCEPT !.rebuilt = TRUE].work = call[s].work
      BY CallTyped DEF Calls
    <3> QED
      BY <2>1, <2>2, <3>1, <3>2, Moved, Called DEF Others
  <2>3. CASE ~building
    <3>1. /\ call' = [call EXCEPT ![s] = [call[s] EXCEPT !.rebuilt = TRUE, !.claimed = TRUE]]
          /\ Goto(s, "generations") /\ building' = TRUE
      BY <1>1, <2>3, CallTyped DEF Claim, BuildInProgress
    <3>2. /\ [call[s] EXCEPT !.rebuilt = TRUE, !.claimed = TRUE].claimed = TRUE
          /\ [call[s] EXCEPT !.rebuilt = TRUE, !.claimed = TRUE].work = call[s].work
      BY CallTyped DEF Calls
    <3> QED
      BY <2>1, <2>3, <3>1, <3>2, Moved, Called DEF Others
  <2> QED
    BY <2>2, <2>3
<1>2. CASE Release(s)
  <2>1. ~Claim(s) /\ ~ReleaseFailed(s) /\ snaps' = snaps
    BY <1>2 DEF Claim, Release, ReleaseFailed, At
  <2>2. /\ call' = [call EXCEPT ![s] = [call[s] EXCEPT !.claimed = FALSE]]
        /\ Goto(s, "version") /\ building' = FALSE
    BY <1>2 DEF Release
  <2>3. /\ [call[s] EXCEPT !.claimed = FALSE].claimed = FALSE
        /\ [call[s] EXCEPT !.claimed = FALSE].work = call[s].work
    BY CallTyped DEF Calls
  <2> QED
    BY <2>1, <2>2, <2>3, Moved, Called DEF Others
<1>3. CASE ReleaseFailed(s)
  <2>1. ~Claim(s) /\ ~Release(s) /\ snaps' = snaps
    BY <1>3 DEF Claim, Release, ReleaseFailed, At
  <2>2. /\ call' = [call EXCEPT ![s] = [call[s] EXCEPT !.claimed = FALSE, !.work = NoSnapshot]]
        /\ Goto(s, "failed") /\ building' = (building /\ ~call[s].claimed)
    BY <1>3, CallTyped DEF ReleaseFailed, BuildingAfterFailure
  <2>3. /\ [call[s] EXCEPT !.claimed = FALSE, !.work = NoSnapshot].claimed = FALSE
        /\ [call[s] EXCEPT !.claimed = FALSE, !.work = NoSnapshot].work = NoSnapshot
    BY CallTyped DEF Calls
  <2> QED
    BY <2>1, <2>2, <2>3, Moved, Called DEF Others
<1> QED
  BY <1>1, <1>2, <1>3

(* There are no other steps. *)
LEMMA SessionSteps ==
    ASSUME NEW s \in Sessions, SessionStep(s)
    PROVE  \/ Quiet(s) \/ Dropping(s)
           \/ Leases(s) /\ (Find(s) \/ CheckSynced(s) \/ StoreDelta(s))
           \/ Finish(s)
           \/ LoadRead(s) \/ LoadStamp(s) \/ LoadPublish(s)
           \/ BuildGenerations(s) \/ BuildRead(s) \/ Publish(s)
           \/ Claim(s) \/ Release(s) \/ ReleaseFailed(s)
<1>1. StoreDelta(s) => Leases(s)
  BY DEF StoreDelta, Leases
<1> QED
  BY <1>1 DEF SessionStep, Resolving, Quiet

-----------------------------------------------------------------------------
(* One automatic build at a time. *)

(* Where a statement may be while its graph is in builds_in_progress on its behalf. *)
ClaimPlaces == {"generations", "read", "validate", "publish", "release", "fail"}

(* A claim is released before its statement goes on, and only who holds it comes to
   the release. *)
ClaimInv ==
    /\ OneAutomaticBuild
    /\ \A s \in Sessions :
          /\ call[s].claimed => spc[s] \in ClaimPlaces
          /\ spc[s] = "release" => call[s].claimed

(* Steps that leave builds_in_progress and the statement's claim alone. *)
LEMMA ClaimKept ==
    ASSUME TypeOK, ClaimInv, NEW s \in Sessions, building' = building, Others(s),
           call'[s].claimed = call[s].claimed,
           call[s].claimed => spc'[s] \in ClaimPlaces,
           spc'[s] = "release" => call[s].claimed
    PROVE  ClaimInv'
<1>1. \A t \in Sessions : call'[t].claimed = call[t].claimed
  BY DEF Others
<1>2. OneAutomaticBuild'
  BY <1>1 DEF ClaimInv, OneAutomaticBuild
<1> QED
  BY <1>1, <1>2 DEF ClaimInv, Others

(* Steps outside a build: their statement has no claim to lose. *)
LEMMA UnclaimedStep ==
    ASSUME TypeOK, ClaimInv, NEW s \in Sessions, building' = building, Others(s),
           spc[s] \notin ClaimPlaces, call'[s].claimed \in {FALSE, call[s].claimed},
           spc'[s] # "release"
    PROVE  ClaimInv'
<1>1. call[s].claimed = FALSE
  BY CallTyped DEF ClaimInv
<1> QED
  BY <1>1, ClaimKept

(* Every step of a session keeps the claims in order. *)
LEMMA ClaimSession ==
    ASSUME TypeOK, ClaimInv, NEW s \in Sessions, SessionStep(s)
    PROVE  ClaimInv'
<1>1. CASE Dropping(s)
  BY <1>1 DEF Dropping, storageVars, sessionVars, ClaimInv, OneAutomaticBuild
<1>2. CASE Quiet(s)
  <2>1. spc[s] \in {"validate", "read"} \/ spc[s] \notin ClaimPlaces
    BY <1>2 DEF Quiet, Begin, ReadVersion, LoadCheck, Find, LockCatchUp, Scan, CheckSynced, Wait,
                BuildValidate, BuildThrows, SaveFlag, SaveWrite, SaveCheck, Unsave, Reacquire, At,
                ClaimPlaces
  <2>2. CASE spc[s] \in {"validate", "read"}
    BY <1>2, <2>2, QuietLocals, ClaimKept DEF ClaimPlaces
  <2>3. CASE spc[s] \notin ClaimPlaces
    BY <1>2, <2>3, QuietLocals, UnclaimedStep
  <2> QED
    BY <2>1, <2>2, <2>3
<1>3. CASE Finish(s) \/ (Leases(s) /\ (Find(s) \/ CheckSynced(s) \/ StoreDelta(s)))
  <2>1. spc[s] \notin ClaimPlaces /\ building' = building
    BY <1>3 DEF Finish, Find, CheckSynced, StoreDelta, At, ClaimPlaces, storageVars
  <2> QED
    BY <1>3, <2>1, LeaseLocals, UnclaimedStep
<1>4. CASE LoadRead(s) \/ LoadStamp(s) \/ LoadPublish(s)
  <2>1. spc[s] \notin ClaimPlaces
    BY <1>4 DEF LoadRead, LoadStamp, LoadPublish, At, ClaimPlaces
  <2> QED
    BY <1>4, <2>1, LoadLocals, UnclaimedStep
<1>5. CASE BuildGenerations(s) \/ BuildRead(s) \/ Publish(s)
  BY <1>5, BuildLocals, ClaimKept DEF ClaimPlaces
<1>6. CASE Claim(s)
  <2>1. spc[s] \notin ClaimPlaces
    BY <1>6 DEF Claim, At, ClaimPlaces
  <2>2. CASE building' = building /\ spc'[s] = "wait" /\ call'[s].claimed = call[s].claimed
    BY <1>6, <2>1, <2>2, ReleaseLocals, UnclaimedStep
  <2>3. CASE ~building /\ building' = TRUE /\ spc'[s] = "generations" /\ call'[s].claimed
    <3>1. \A t \in Sessions : ~call[t].claimed
      BY <2>3 DEF ClaimInv, OneAutomaticBuild
    <3>2. \A t \in Sessions \ {s} : ~call'[t].claimed /\ spc'[t] = spc[t]
      BY <1>6, <3>1, ReleaseLocals DEF Others
    <3>3. OneAutomaticBuild'
      BY <2>3, <3>2 DEF OneAutomaticBuild
    <3> QED
      BY <2>3, <3>1, <3>2, <3>3 DEF ClaimInv, ClaimPlaces
  <2> QED
    BY <1>6, <2>2, <2>3, ReleaseLocals
<1>7. CASE Release(s)
  <2>1. call[s].claimed
    BY <1>7 DEF Release, At, ClaimInv
  <2>2. \A t \in Sessions \ {s} : ~call[t].claimed
    BY <2>1 DEF ClaimInv, OneAutomaticBuild
  <2> QED
    BY <1>7, <2>2, ReleaseLocals DEF ClaimInv, OneAutomaticBuild, Others
<1>8. CASE ReleaseFailed(s)
  <2>1. CASE call[s].claimed
    <3>1. \A t \in Sessions \ {s} : ~call[t].claimed
      BY <2>1 DEF ClaimInv, OneAutomaticBuild
    <3> QED
      BY <1>8, <2>1, <3>1, ReleaseLocals DEF ClaimInv, OneAutomaticBuild, Others
  <2>2. CASE ~call[s].claimed
    <3>1. building' <=> building
      BY <1>8, <2>2, ReleaseLocals, Zenon
    <3>2. \A t \in Sessions : call'[t].claimed <=> call[t].claimed
      BY <1>8, <2>2, ReleaseLocals DEF Others
    <3>3. OneAutomaticBuild'
      BY <3>1, <3>2 DEF ClaimInv, OneAutomaticBuild
    <3> QED
      BY <1>8, <2>2, <3>2, <3>3, ReleaseLocals DEF ClaimInv, Others
  <2> QED
    BY <2>1, <2>2
<1> QED
  BY <1>1, <1>2, <1>3, <1>4, <1>5, <1>6, <1>7, <1>8, SessionSteps

(* Every step keeps the claims apart. *)
LEMMA ClaimStep ==
    ASSUME TypeOK, ClaimInv, [Next]_vars
    PROVE  ClaimInv'
<1>1. ASSUME NEW s \in Sessions, SessionStep(s)
      PROVE  ClaimInv'
  BY <1>1, ClaimSession
<1>2. ASSUME NEW w \in Writers, Writing(w)
      PROVE  ClaimInv'
  BY <1>2 DEF Writing, storageVars, sessionVars, ClaimInv, OneAutomaticBuild
<1>3. CASE Crash
  <2>1. NoCall.claimed = FALSE
    BY DEF NoCall
  <2> QED
    BY <1>3, <2>1 DEF Crash, ClaimInv, OneAutomaticBuild
<1>4. CASE UNCHANGED vars
  BY <1>4 DEF vars, storageVars, sessionVars, ClaimInv, OneAutomaticBuild
<1> QED
  BY <1>1, <1>2, <1>3, <1>4 DEF Next, Ended

(* At any time at most one session is between the claim of an automatic build and its
   release, and the graph is in builds_in_progress exactly while one is. *)
THEOREM OneBuildAtATime == Spec => []OneAutomaticBuild
<1>1. Init => ClaimInv
  <2>1. NoCall.claimed = FALSE
    BY DEF NoCall
  <2> QED
    BY <2>1 DEF Init, InitStorage, ClaimInv, OneAutomaticBuild
<1>2. TypeOK /\ ClaimInv /\ [Next]_vars => ClaimInv'
  BY ClaimStep
<1>3. ClaimInv => OneAutomaticBuild
  BY DEF ClaimInv
<1> QED
  BY <1>1, <1>2, <1>3, TypeCorrect, PTL DEF Spec

-----------------------------------------------------------------------------
(* The generations cover every destructive write. *)

(* What the transaction's planned writes say of its statements. *)
Announced(w) ==
    /\ stmts[w] \cap {"update", "delete"} # {} => planned[w].table = "destructive"
    /\ stmts[w] \cap InsertsOnly # {} => planned[w].table # "none"
    /\ "prepared" \in stmts[w] => planned[w].prepared

(* The callback of a commit advances some generation, unless an appender wrote it. *)
Advances(w) == planned[w].table # "none" \/ planned[w].prepared

(* A destructive transaction has announced itself before it commits, and its callback
   knows that it has. *)
WriterInv ==
    /\ destrGen <= tableGen
    /\ \A w \in Writers :
          /\ stmts[w] \subseteq Kinds
          /\ wpc[w] \in {"idle", "open", "flushed"} => Announced(w)
          /\ wpc[w] \in {"open", "flushed"} => stmts[w] # {}
          /\ wpc[w] = "committed" =>
                /\ commitAt[w] \in 1..Len(log)
                /\ log[commitAt[w]].destructive =>
                      planned[w].table = "destructive" \/ planned[w].prepared
                /\ "appender" \notin Kinds => Advances(w)

(* Where there are no appenders, the table generation misses no commit at all. *)
AllCounted(snap) ==
    "appender" \notin Kinds /\ snap.at # 0 =>
        \A j \in (snap.at + 1)..Len(log) :
            Unannounced(j) \/ snap.write < writeGen \/ snap.table < tableGen

(* The snapshots of which the property holds, and whose generations are not ahead of the
   storage's: else an advance would not leave them behind.  A destructive generation does
   not advance alone. *)
GoodSnapshots ==
    {snap \in Snapshots :
        /\ snap.write <= writeGen /\ snap.destr <= destrGen /\ snap.table <= tableGen
        /\ snap.table = tableGen => snap.destr = destrGen
        /\ NoneMissed(snap) /\ AllCounted(snap)}

(* A snapshot being built has to be good before it is published, and one being loaded
   was not read from the tables when it is given its generations. *)
GenInv ==
    /\ WriterInv
    /\ \A i \in 1..Len(snaps) : snaps[i] \in GoodSnapshots
    /\ \A s \in Sessions :
          /\ call[s].work \in GoodSnapshots
          /\ spc[s] = "load_stamp" => call[s].work.at = 0

(* The types the proofs of the write side use. *)
LEMMA ObserverTyped ==
    ASSUME TypeOK
    PROVE  /\ writeGen \in Nat /\ destrGen \in Nat /\ tableGen \in Nat /\ Len(log) \in Nat
           /\ wpc \in [Writers -> {"idle", "open", "flushed", "committed", "advanced"}]
           /\ stmts \in [Writers -> SUBSET AllKinds]
           /\ planned \in [Writers -> [table : PlannedTables, prepared : BOOLEAN]]
           /\ commitAt \in [Writers -> 0..Len(log)]
BY TableIsState DEF TypeOK, ObserverTypeOK, GenTypeOK, WriterTypeOK

(* Generations only advance: as long as no commit is made and none is settled, a good
   snapshot stays good. *)
LEMMA StayGood ==
    ASSUME TypeOK, writeGen' \in Nat, destrGen' \in Nat, tableGen' \in Nat,
           writeGen <= writeGen', destrGen <= destrGen', tableGen <= tableGen', log' = log,
           tableGen' = tableGen => destrGen' = destrGen,
           \A v \in Writers : wpc[v] = "committed" =>
               wpc'[v] = "committed" /\ commitAt'[v] = commitAt[v]
    PROVE  GoodSnapshots \subseteq GoodSnapshots'
<1> SUFFICES ASSUME NEW snap \in GoodSnapshots
             PROVE  snap \in GoodSnapshots'
  OBVIOUS
<1>1. /\ snap \in Snapshots /\ snap.write \in Nat /\ snap.destr \in Nat /\ snap.table \in Nat
      /\ snap.write <= writeGen /\ snap.destr <= destrGen /\ snap.table <= tableGen
      /\ snap.table = tableGen => snap.destr = destrGen
      /\ NoneMissed(snap) /\ AllCounted(snap)
  BY DEF GoodSnapshots, Snapshots
<1>2. /\ snap.write <= writeGen' /\ snap.destr <= destrGen' /\ snap.table <= tableGen'
      /\ snap.table = tableGen' => snap.destr = destrGen'
  BY <1>1, ObserverTyped
<1>3. ASSUME NEW j, Unannounced(j)
      PROVE  \E v \in Writers : wpc'[v] = "committed" /\ commitAt'[v] = j
  BY <1>3 DEF Unannounced
<1>4. ASSUME snap.at # 0, NEW j \in (snap.at + 1)..Len(log), log[j].destructive
      PROVE  \/ \E v \in Writers : wpc'[v] = "committed" /\ commitAt'[v] = j
             \/ snap.write < writeGen' \/ snap.destr < destrGen'
  <2>1. CASE snap.write < writeGen \/ snap.destr < destrGen
    BY <1>1, <2>1, ObserverTyped
  <2> QED
    BY <1>1, <1>3, <1>4, <2>1 DEF NoneMissed, Behind
<1>5. ASSUME "appender" \notin Kinds, snap.at # 0, NEW j \in (snap.at + 1)..Len(log)
      PROVE  \/ \E v \in Writers : wpc'[v] = "committed" /\ commitAt'[v] = j
             \/ snap.write < writeGen' \/ snap.table < tableGen'
  <2>1. CASE snap.write < writeGen \/ snap.table < tableGen
    BY <1>1, <2>1, ObserverTyped
  <2> QED
    BY <1>1, <1>3, <1>5, <2>1 DEF AllCounted
<1> QED
  BY <1>1, <1>2, <1>4, <1>5 DEF GoodSnapshots, NoneMissed, AllCounted, Unannounced, Behind

(* Statements that are planned announce themselves. *)
LEMMA PlanInv ==
    ASSUME TypeOK, WriterInv, NEW w \in Writers,
           \/ \E k \in Kinds : PlanTableWrite(w, k)
           \/ PlanPreparedWrite(w) \/ AppendRows(w) \/ Rollback(w) \/ FlushRows(w)
    PROVE  WriterInv' /\ GoodSnapshots \subseteq GoodSnapshots'
<1>1. /\ Len(log) \in Nat /\ log' = log /\ commitAt' = commitAt
      /\ wpc[w] \in {"idle", "open", "flushed"} /\ wpc'[w] \in {"idle", "open", "flushed"}
      /\ \A v \in Writers \ {w} : wpc'[v] = wpc[v] /\ stmts'[v] = stmts[v]
                                 /\ planned'[v] = planned[v]
  BY ObserverTyped
     DEF PlanTableWrite, PlanPreparedWrite, AppendRows, Rollback, FlushRows, MayIssue, Issue,
         tableVars
<1>2. /\ writeGen' \in Nat /\ destrGen' \in Nat /\ tableGen' \in Nat
      /\ writeGen <= writeGen' /\ destrGen <= destrGen' /\ tableGen <= tableGen'
      /\ tableGen' = tableGen => destrGen' = destrGen
      /\ destrGen' <= tableGen'
  BY ObserverTyped
     DEF PlanTableWrite, PlanPreparedWrite, AppendRows, Rollback, FlushRows, genVars, WriterInv
<1>3. Announced(w)
  BY <1>1 DEF WriterInv
<1>4. Announced(w)'
  <2>1. ASSUME NEW k \in Kinds, PlanTableWrite(w, k)
        PROVE  Announced(w)'
    <3>1. /\ stmts'[w] = stmts[w] \cup {k}
          /\ planned'[w].table = PlanTable(planned[w].table, k \in InsertsOnly)
          /\ planned'[w].prepared = planned[w].prepared
          /\ k \in InsertsOnly \cup {"update", "delete"}
      BY <2>1, ObserverTyped DEF PlanTableWrite, Issue
    <3> QED
      BY <1>3, <3>1, ObserverTyped DEF Announced, PlanTable, InsertsOnly
  <2>2. CASE PlanPreparedWrite(w)
    <3>1. /\ stmts'[w] = stmts[w] \cup {"prepared"}
          /\ planned'[w].table = planned[w].table /\ planned'[w].prepared
      BY <2>2, ObserverTyped DEF PlanPreparedWrite, Issue
    <3> QED
      BY <1>3, <3>1 DEF Announced, InsertsOnly
  <2>3. CASE AppendRows(w)
    <3>1. stmts'[w] = stmts[w] \cup {"appender"} /\ planned' = planned
      BY <2>3, ObserverTyped DEF AppendRows, Issue
    <3> QED
      BY <1>3, <3>1 DEF Announced, InsertsOnly
  <2>4. CASE Rollback(w)
    BY <2>4, ObserverTyped DEF Rollback, Announced
  <2>5. CASE FlushRows(w)
    BY <1>3, <2>5 DEF FlushRows, Announced
  <2> QED
    BY <2>1, <2>2, <2>3, <2>4, <2>5
<1>5. WriterInv'
  <2>1. \A v \in Writers \ {w} : Announced(v) => Announced(v)'
    BY <1>1 DEF Announced
  <2>2. stmts'[w] \subseteq Kinds /\ (wpc'[w] \in {"open", "flushed"} => stmts'[w] # {})
    <3>1. stmts[w] \subseteq Kinds
      BY DEF WriterInv
    <3>2. ASSUME NEW k, MayIssue(w, k), Issue(w, k)
          PROVE  stmts'[w] \subseteq Kinds /\ stmts'[w] # {}
      BY <3>1, <3>2, ObserverTyped DEF MayIssue, Issue
    <3>3. CASE Rollback(w)
      BY <3>3, ObserverTyped DEF Rollback
    <3>4. CASE FlushRows(w)
      BY <3>1, <3>4 DEF FlushRows
    <3> QED
      BY <3>2, <3>3, <3>4 DEF PlanTableWrite, PlanPreparedWrite, AppendRows
  <2> QED
    BY <1>1, <1>2, <1>4, <2>1, <2>2 DEF WriterInv, Advances
<1>6. GoodSnapshots \subseteq GoodSnapshots'
  BY <1>1, <1>2, StayGood
<1> QED
  BY <1>5, <1>6

(* A commit that is destructive is one its own writer has yet to settle. *)
LEMMA CommitInv ==
    ASSUME TypeOK, WriterInv, NEW w \in Writers, CommitRows(w)
    PROVE  WriterInv' /\ GoodSnapshots \subseteq GoodSnapshots'
<1>1. /\ Len(log') = Len(log) + 1 /\ Len(log) \in Nat
      /\ \A j \in 1..Len(log) : log'[j] = log[j]
      /\ log'[Len(log) + 1].destructive = ~(stmts[w] \subseteq Inserting)
  <2>1. PICK entry : log' = Append(log, entry)
                     /\ entry.destructive = ~(stmts[w] \subseteq Inserting)
    BY DEF CommitRows
  <2> QED
    BY <2>1, TableIsState DEF TypeOK, ObserverTypeOK
<1>2. /\ wpc[w] \in {"open", "flushed"} /\ wpc'[w] = "committed"
      /\ commitAt'[w] = Len(log) + 1 /\ planned' = planned /\ stmts' = stmts
      /\ \A v \in Writers \ {w} : wpc'[v] = wpc[v] /\ commitAt'[v] = commitAt[v]
      /\ writeGen' = writeGen /\ destrGen' = destrGen /\ tableGen' = tableGen
  BY <1>1, ObserverTyped DEF CommitRows, genVars
<1>6. "appender" \notin Kinds => Advances(w)
  <2>1. Announced(w) /\ stmts[w] # {} /\ stmts[w] \subseteq Kinds
    BY <1>2 DEF WriterInv
  <2>2. "appender" \notin Kinds =>
           \/ stmts[w] \cap {"update", "delete"} # {} \/ stmts[w] \cap InsertsOnly # {}
           \/ "prepared" \in stmts[w]
    BY <2>1, ObserverTyped DEF AllKinds, InsertsOnly
  <2> QED
    BY <2>1, <2>2 DEF Announced, Advances
<1>3. log'[commitAt'[w]].destructive => planned'[w].table = "destructive" \/ planned'[w].prepared
  <2>1. Announced(w)
    BY <1>2 DEF WriterInv
  <2>2. ~(stmts[w] \subseteq Inserting) =>
           stmts[w] \cap {"update", "delete"} # {} \/ "prepared" \in stmts[w]
    BY ObserverTyped DEF AllKinds, Inserting
  <2> QED
    BY <1>1, <1>2, <2>1, <2>2 DEF Announced
<1>4. WriterInv'
  <2>1. \A v \in Writers \ {w} : Announced(v) => Announced(v)'
    BY <1>2 DEF Announced
  <2>2. \A v \in Writers \ {w} : wpc'[v] = "committed" =>
             /\ commitAt'[v] \in 1..Len(log')
             /\ log'[commitAt'[v]].destructive =>
                   planned'[v].table = "destructive" \/ planned'[v].prepared
    BY <1>1, <1>2 DEF WriterInv
  <2>3. commitAt'[w] \in 1..Len(log')
    BY <1>1, <1>2
  <2> QED
    BY <1>2, <1>3, <1>6, <2>1, <2>2, <2>3 DEF WriterInv, Advances
<1>5. ASSUME NEW snap \in GoodSnapshots
      PROVE  snap \in GoodSnapshots'
  <2>1. /\ snap \in Snapshots /\ snap.at \in Nat /\ NoneMissed(snap) /\ AllCounted(snap)
        /\ snap.write <= writeGen' /\ snap.destr <= destrGen' /\ snap.table <= tableGen'
        /\ snap.table = tableGen' => snap.destr = destrGen'
    BY <1>2 DEF GoodSnapshots, Snapshots
  <2>2. ASSUME NEW j \in (snap.at + 1)..Len(log')
        PROVE  \/ \E v \in Writers : wpc'[v] = "committed" /\ commitAt'[v] = j
               \/ j \in (snap.at + 1)..Len(log) /\ log'[j] = log[j] /\ ~Unannounced(j)
    <3>1. CASE j = Len(log) + 1
      BY <1>2, <3>1
    <3>2. CASE j \in 1..Len(log)
      <4>1. j \in (snap.at + 1)..Len(log) /\ log'[j] = log[j]
        BY <1>1, <2>1, <3>2
      <4>2. ASSUME NEW v \in Writers, wpc[v] = "committed", commitAt[v] = j
            PROVE  wpc'[v] = "committed" /\ commitAt'[v] = j
        <5>1. v # w
          BY <1>2, <4>2
        <5> QED
          BY <1>2, <4>2, <5>1
      <4> QED
        BY <4>1, <4>2 DEF Unannounced
    <3> QED
      BY <1>1, <2>1, <3>1, <3>2
  <2>3. NoneMissed(snap)'
    BY <1>2, <2>1, <2>2 DEF NoneMissed, Unannounced, Behind
  <2>4. AllCounted(snap)'
    BY <1>2, <2>1, <2>2 DEF AllCounted, Unannounced
  <2> QED
    BY <2>1, <2>3, <2>4 DEF GoodSnapshots
<1> QED
  BY <1>4, <1>5

(* The callback settles the commit by an advance that leaves every snapshot behind. *)
LEMMA AdvanceInv ==
    ASSUME TypeOK, WriterInv, NEW w \in Writers, AdvancePlanned(w)
    PROVE  WriterInv' /\ GoodSnapshots \subseteq GoodSnapshots'
<1>1. /\ wpc[w] = "committed" /\ wpc'[w] = "advanced" /\ log' = log /\ commitAt' = commitAt
      /\ stmts' = stmts
      /\ \A v \in Writers \ {w} : wpc'[v] = wpc[v] /\ planned'[v] = planned[v]
      /\ Len(log) \in Nat
  BY ObserverTyped DEF AdvancePlanned, tableVars
<1>2. /\ writeGen' = IF planned[w].prepared THEN writeGen + 1 ELSE writeGen
      /\ destrGen' = IF planned[w].table = "destructive" THEN destrGen + 1 ELSE destrGen
      /\ tableGen' = IF planned[w].table = "none" THEN tableGen ELSE tableGen + 1
      /\ writeGen \in Nat /\ destrGen \in Nat /\ tableGen \in Nat
  BY ObserverTyped DEF AdvancePlanned, DestructiveAfterCommit, PreparedAfterCommit
<1>3. WriterInv'
  <2>1. \A v \in Writers \ {w} : Announced(v) => Announced(v)'
    BY <1>1 DEF Announced
  <2>2. destrGen' <= tableGen'
    <3>1. planned[w].table = "destructive" => planned[w].table # "none"
      OBVIOUS
    <3> QED
      BY <1>2, <3>1 DEF WriterInv
  <2> QED
    BY <1>1, <2>1, <2>2 DEF WriterInv, Advances
<1>4. ASSUME NEW snap \in GoodSnapshots
      PROVE  snap \in GoodSnapshots'
  <2>1. /\ snap \in Snapshots /\ snap.write \in Nat /\ snap.destr \in Nat /\ snap.table \in Nat
        /\ NoneMissed(snap) /\ AllCounted(snap)
        /\ snap.write <= writeGen /\ snap.destr <= destrGen /\ snap.table <= tableGen
        /\ snap.table = tableGen => snap.destr = destrGen
    BY DEF GoodSnapshots, Snapshots
  <2>2. ASSUME NEW j, Unannounced(j), commitAt[w] # j
        PROVE  Unannounced(j)'
    BY <1>1, <2>2 DEF Unannounced
  <2>3. ASSUME snap.at # 0, NEW j \in (snap.at + 1)..Len(log), log[j].destructive
        PROVE  Unannounced(j)' \/ snap.write < writeGen' \/ snap.destr < destrGen'
    <3>1. CASE commitAt[w] = j
      <4>1. planned[w].table = "destructive" \/ planned[w].prepared
        BY <1>1, <2>3, <3>1 DEF WriterInv
      <4> QED
        BY <1>2, <2>1, <4>1
    <3>2. CASE snap.write < writeGen \/ snap.destr < destrGen
      BY <1>2, <2>1, <3>2
    <3> QED
      BY <2>1, <2>2, <2>3, <3>1, <3>2 DEF NoneMissed, Behind
  <2>4. ASSUME "appender" \notin Kinds, snap.at # 0, NEW j \in (snap.at + 1)..Len(log)
        PROVE  Unannounced(j)' \/ snap.write < writeGen' \/ snap.table < tableGen'
    <3>1. CASE commitAt[w] = j
      <4>1. Advances(w)
        BY <1>1, <2>4 DEF WriterInv
      <4> QED
        BY <1>2, <2>1, <4>1 DEF Advances
    <3>2. CASE snap.write < writeGen \/ snap.table < tableGen
      BY <1>2, <2>1, <3>2
    <3> QED
      BY <2>1, <2>2, <2>4, <3>1, <3>2 DEF AllCounted
  <2>5. /\ snap.write <= writeGen' /\ snap.destr <= destrGen' /\ snap.table <= tableGen'
        /\ snap.table = tableGen' => snap.destr = destrGen'
    <3>1. planned[w].table = "destructive" => planned[w].table # "none"
      OBVIOUS
    <3> QED
      BY <1>2, <2>1, <3>1
  <2> QED
    BY <1>1, <2>1, <2>3, <2>4, <2>5 DEF GoodSnapshots, NoneMissed, AllCounted, Behind
<1> QED
  BY <1>3, <1>4

(* Every step of a writer. *)
LEMMA WriterStepInv ==
    ASSUME TypeOK, WriterInv, NEW w \in Writers, WriterStep(w)
    PROVE  WriterInv' /\ GoodSnapshots \subseteq GoodSnapshots'
<1>1. CASE InvalidateAfterCommit(w)
  <2>1. /\ log' = log /\ writeGen' = writeGen /\ destrGen' = destrGen /\ tableGen' = tableGen
        /\ planned' = planned
        /\ wpc[w] = "advanced" /\ wpc'[w] = "idle" /\ stmts'[w] = {}
        /\ \A v \in Writers \ {w} : /\ wpc'[v] = wpc[v] /\ stmts'[v] = stmts[v]
                                   /\ commitAt'[v] = commitAt[v]
    BY <1>1, ObserverTyped DEF InvalidateAfterCommit
  <2>2. \A v \in Writers \ {w} : Announced(v) => Announced(v)'
    BY <2>1 DEF Announced
  <2>3. Announced(w)'
    BY <2>1 DEF Announced
  <2>4. WriterInv'
    BY <2>1, <2>2, <2>3 DEF WriterInv, Advances
  <2>5. GoodSnapshots \subseteq GoodSnapshots'
    BY <2>1, ObserverTyped, StayGood
  <2> QED
    BY <2>4, <2>5
<1>2. CASE DropSavedCsrs(w)
  <2>1. /\ log' = log /\ writeGen' = writeGen /\ destrGen' = destrGen /\ tableGen' = tableGen
        /\ UNCHANGED writerVars
    BY <1>2 DEF DropSavedCsrs, DropCheck, DropSelect, DropFoundNone, DropDelete, tableVars,
                genVars
  <2>2. WriterInv'
    BY <2>1 DEF writerVars, WriterInv, Announced, Advances
  <2>3. GoodSnapshots \subseteq GoodSnapshots'
    BY <2>1, ObserverTyped, StayGood DEF writerVars
  <2> QED
    BY <2>2, <2>3
<1> QED
  BY <1>1, <1>2, PlanInv, CommitInv, AdvanceInv DEF WriterStep, Finishing

(* Nothing has been missed by a snapshot that was not read from the tables, nor by one
   that has just been. *)
LEMMA UnreadGood ==
    ASSUME NEW snap \in Snapshots, snap.write <= writeGen, snap.destr <= destrGen,
           snap.table <= tableGen, snap.table = tableGen => snap.destr = destrGen,
           snap.at = 0 \/ snap.at = Len(log), Len(log) \in Nat
    PROVE  snap \in GoodSnapshots
BY DEF GoodSnapshots, NoneMissed, AllCounted

(* ... so a statement that is making no snapshot has a good one. *)
LEMMA NoSnapshotGood ==
    ASSUME TypeOK, WriterInv
    PROVE  NoSnapshot \in GoodSnapshots /\ NoCall.work = NoSnapshot
<1>1. /\ NoSnapshot.write = 0 /\ NoSnapshot.table = 0 /\ NoSnapshot.destr = 0
      /\ NoSnapshot.at = 0 /\ NoCall.work = NoSnapshot
  BY DEF NoSnapshot, NoCall
<1>2. 0 <= tableGen /\ (0 = tableGen => 0 = destrGen)
  BY ObserverTyped DEF WriterInv
<1> QED
  BY <1>1, <1>2, NoCallType, ObserverTyped, UnreadGood

(* What a session's step owes the invariant. *)
LEMMA SessionGood ==
    ASSUME TypeOK, GenInv, NEW s \in Sessions, UNCHANGED <<log, wpc, stmts, planned, commitAt>>,
           writeGen' = writeGen, destrGen' = destrGen, tableGen' = tableGen, Others(s),
           \A i \in 1..Len(snaps') : snaps'[i] \in GoodSnapshots,
           call'[s].work \in GoodSnapshots,
           spc'[s] = "load_stamp" => call'[s].work.at = 0
    PROVE  GenInv'
<1>1. GoodSnapshots' = GoodSnapshots
  BY DEF GoodSnapshots, NoneMissed, AllCounted, Unannounced, Behind
<1>2. WriterInv'
  BY DEF GenInv, WriterInv, Announced, Advances
<1> QED
  BY <1>1, <1>2 DEF GenInv, Others

(* Steps that leave the snapshots alone and do not make one. *)
LEMMA SameGood ==
    ASSUME TypeOK, GenInv, NEW s \in Sessions, UNCHANGED <<log, wpc, stmts, planned, commitAt>>,
           writeGen' = writeGen, destrGen' = destrGen, tableGen' = tableGen, snaps' = snaps,
           Others(s),
           call'[s].work \in {call[s].work, NoSnapshot}, spc'[s] # "load_stamp"
    PROVE  GenInv'
<1>1. /\ \A i \in 1..Len(snaps') : snaps'[i] \in GoodSnapshots
      /\ call[s].work \in GoodSnapshots
  BY DEF GenInv
<1> QED
  BY <1>1, NoSnapshotGood, SessionGood DEF GenInv

(* No session's step commits anything or advances these generations. *)
LEMMA SessionObserver ==
    ASSUME NEW s \in Sessions, SessionStep(s)
    PROVE  /\ UNCHANGED <<log, wpc, stmts, planned, commitAt>>
           /\ writeGen' = writeGen /\ destrGen' = destrGen /\ tableGen' = tableGen
BY DEF SessionStep, Resolving, Begin, ReadVersion, Find, LoadCheck, LoadRead, LoadStamp,
       LoadPublish, LockCatchUp, CheckSynced, Scan, StoreDelta, Claim, Wait, BuildGenerations,
       BuildRead, BuildValidate, BuildThrows, Publish, Release, ReleaseFailed, SaveFlag, SaveWrite,
       SaveCheck, Unsave, Reacquire, Finish, Dropping, DropSavedCsrs, DropCheck, DropSelect,
       DropFoundNone, DropDelete, observerVars, tableVars, genVars, writerVars

(* A snapshot that is made. *)
LEMMA MakingGood ==
    ASSUME TypeOK, GenInv, NEW s \in Sessions, SessionStep(s),
           LoadRead(s) \/ LoadStamp(s) \/ BuildGenerations(s) \/ BuildRead(s)
    PROVE  GenInv'
<1>1. /\ UNCHANGED <<log, wpc, stmts, planned, commitAt>>
      /\ writeGen' = writeGen /\ destrGen' = destrGen /\ tableGen' = tableGen
      /\ writeGen \in Nat /\ destrGen \in Nat /\ tableGen \in Nat /\ Len(log) \in Nat
  BY SessionObserver, ObserverTyped
<1>2. Others(s)
  BY LoadLocals, BuildLocals
<1>3. snaps' = snaps
  BY DEF LoadRead, LoadStamp, BuildGenerations, BuildRead, storageVars
<1>4. \A i \in 1..Len(snaps') : snaps'[i] \in GoodSnapshots
  BY <1>3 DEF GenInv
<1>5. call[s].work \in GoodSnapshots /\ (spc[s] = "load_stamp" => call[s].work.at = 0)
  BY DEF GenInv
<1>6. call'[s].work \in Snapshots
  BY SessionStepTypes DEF TypeOK, SessionTypeOK, Calls
<1>7. CASE LoadRead(s)
  <2>1. CASE call'[s].work = call[s].work /\ spc'[s] \in {"claim", "failed"}
    BY <1>1, <1>2, <1>3, <2>1, SameGood
  <2>2. CASE /\ call'[s].work.at = 0 /\ call'[s].work.write = 0 /\ call'[s].work.table = 0
             /\ call'[s].work.destr = 0 /\ spc'[s] = "load_stamp"
    <3>0. 0 <= tableGen /\ (0 = tableGen => 0 = destrGen)
      BY <1>1 DEF GenInv, WriterInv
    <3>1. call'[s].work \in GoodSnapshots
      BY <1>1, <1>6, <2>2, <3>0, UnreadGood
    <3> QED
      BY <1>1, <1>2, <1>4, <2>2, <3>1, SessionGood
  <2> QED
    BY <1>7, <2>1, <2>2, LoadLocals
<1>8. CASE LoadStamp(s)
  <2>1. /\ call'[s].work.at = call[s].work.at /\ call'[s].work.write = writeGen
        /\ call'[s].work.destr = destrGen /\ call'[s].work.table = tableGen
        /\ spc'[s] = "load_publish"
    BY <1>8, LoadLocals
  <2>2. call[s].work.at = 0
    BY <1>5, <1>8 DEF LoadStamp, At
  <2>3. call'[s].work \in GoodSnapshots
    BY <1>1, <1>6, <2>1, <2>2, UnreadGood
  <2> QED
    BY <1>1, <1>2, <1>4, <2>1, <2>3, SessionGood
<1>9. CASE BuildGenerations(s)
  <2>1. /\ call'[s].work.at = 0 /\ call'[s].work.write = writeGen
        /\ call'[s].work.destr = destrGen /\ call'[s].work.table = tableGen
        /\ spc'[s] = "read"
    BY <1>9, BuildLocals
  <2>2. call'[s].work \in GoodSnapshots
    BY <1>1, <1>6, <2>1, UnreadGood
  <2> QED
    BY <1>1, <1>2, <1>4, <2>1, <2>2, SessionGood
<1>10. CASE BuildRead(s)
  <2>1. /\ call'[s].work.at = Len(log) /\ call'[s].work.write = call[s].work.write
        /\ call'[s].work.destr = call[s].work.destr
        /\ call'[s].work.table = call[s].work.table /\ spc'[s] = "validate"
    BY <1>10, BuildLocals
  <2>2. /\ call[s].work.write <= writeGen /\ call[s].work.destr <= destrGen
        /\ call[s].work.table <= tableGen
        /\ call[s].work.table = tableGen => call[s].work.destr = destrGen
    BY <1>5 DEF GoodSnapshots
  <2>3. call'[s].work \in GoodSnapshots
    BY <1>1, <1>6, <2>1, <2>2, UnreadGood
  <2> QED
    BY <1>1, <1>2, <1>4, <2>1, <2>3, SessionGood
<1> QED
  BY <1>7, <1>8, <1>9, <1>10

(* A snapshot that is published is the one that was made. *)
LEMMA PublishGood ==
    ASSUME TypeOK, GenInv, NEW s \in Sessions, SessionStep(s), LoadPublish(s) \/ Publish(s)
    PROVE  GenInv'
<1>1. /\ UNCHANGED <<log, wpc, stmts, planned, commitAt>>
      /\ writeGen' = writeGen /\ destrGen' = destrGen /\ tableGen' = tableGen
  BY SessionObserver
<1>2. /\ Others(s) /\ call'[s].work = NoSnapshot /\ spc'[s] # "load_stamp"
  BY LoadLocals, BuildLocals
<1>3. /\ \A i \in 1..Len(snaps) : snaps[i] \in GoodSnapshots
      /\ call[s].work \in GoodSnapshots
  BY DEF GenInv
<1>4. snaps' = snaps \/ snaps' = Append(snaps, call[s].work)
  <2>1. CASE LoadPublish(s)
    BY <2>1 DEF LoadPublish
  <2>2. CASE Publish(s)
    BY <2>2 DEF Publish, PublishSnapshot
  <2> QED
    BY <2>1, <2>2
<1>5. \A i \in 1..Len(snaps') : snaps'[i] \in GoodSnapshots
  <2>1. CASE snaps' = snaps
    BY <1>3, <2>1
  <2>2. CASE snaps' = Append(snaps, call[s].work)
    <3>1. /\ Len(snaps') = Len(snaps) + 1 /\ Len(snaps) \in Nat
          /\ snaps'[Len(snaps) + 1] = call[s].work
          /\ \A i \in 1..Len(snaps) : snaps'[i] = snaps[i]
      BY <2>2, CallTyped
    <3> QED
      BY <1>3, <3>1
  <2> QED
    BY <1>4, <2>1, <2>2
<1>7. WriterInv
  BY DEF GenInv
<1> QED
  BY <1>1, <1>2, <1>5, <1>7, NoSnapshotGood, SessionGood

(* A delta does not change what its snapshot was built from. *)
LEMMA StoreGood ==
    ASSUME TypeOK, GenInv, NEW s \in Sessions, SessionStep(s), StoreDelta(s)
    PROVE  GenInv'
<1>1. /\ UNCHANGED <<log, wpc, stmts, planned, commitAt>>
      /\ writeGen' = writeGen /\ destrGen' = destrGen /\ tableGen' = tableGen
  BY SessionObserver
<1>2. /\ Others(s) /\ call'[s].work = NoSnapshot /\ spc'[s] # "load_stamp"
  <2>1. Leases(s)
    BY DEF StoreDelta, Leases
  <2> QED
    BY <2>1, LeaseLocals
<1>3. PICK i \in 1..Len(snaps), delta \in SUBSET Row, synced \in Nat :
         snaps' = [snaps EXCEPT ![i] = [snaps[i] EXCEPT !.delta = delta, !.synced = synced]]
  <2>1. /\ call[s].snap \in 1..Len(snaps) /\ call[s].rows \in SUBSET Row /\ call[s].gen \in Nat
        /\ snaps[call[s].snap] \in Snapshots
    BY CallFields, SnapsLength DEF TypeOK, StoreDelta, At
  <2>2. snaps' = [snaps EXCEPT ![call[s].snap].delta = call[s].rows,
                               ![call[s].snap].synced = call[s].gen]
    BY DEF StoreDelta, SyncGeneration
  <2>3. snaps' = [snaps EXCEPT ![call[s].snap] =
                      [snaps[call[s].snap] EXCEPT !.delta = call[s].rows, !.synced = call[s].gen]]
    BY <2>1, <2>2, CallTyped
  <2> QED
    BY <2>1, <2>3
<1>4. snaps[i] \in GoodSnapshots /\ snaps[i] \in Snapshots
  BY CallTyped DEF GenInv, GoodSnapshots
<1>5. [snaps[i] EXCEPT !.delta = delta, !.synced = synced] \in GoodSnapshots
  <2> DEFINE new == [snaps[i] EXCEPT !.delta = delta, !.synced = synced]
  <2>1. new \in Snapshots
    BY <1>4 DEF Snapshots
  <2>2. /\ new.write = snaps[i].write /\ new.destr = snaps[i].destr /\ new.at = snaps[i].at
        /\ new.table = snaps[i].table
    BY <1>4 DEF Snapshots
  <2> HIDE DEF new
  <2>3. new \in GoodSnapshots
    BY <1>4, <2>1, <2>2 DEF GoodSnapshots, NoneMissed, AllCounted, Behind
  <2> QED
    BY <2>3 DEF new
<1>6. \A k \in 1..Len(snaps') : snaps'[k] \in GoodSnapshots
  <2>1. Len(snaps') = Len(snaps)
    BY <1>3, CallTyped
  <2> QED
    BY <1>3, <1>5, <2>1, CallTyped DEF GenInv
<1>7. WriterInv
  BY DEF GenInv
<1> QED
  BY <1>1, <1>2, <1>6, <1>7, NoSnapshotGood, SessionGood

(* Every step of a session. *)
LEMMA SessionStepGood ==
    ASSUME TypeOK, GenInv, NEW s \in Sessions, SessionStep(s)
    PROVE  GenInv'
<1>1. /\ UNCHANGED <<log, wpc, stmts, planned, commitAt>>
      /\ writeGen' = writeGen /\ destrGen' = destrGen /\ tableGen' = tableGen
  BY SessionObserver
<1>2. CASE Quiet(s)
  BY <1>1, <1>2, QuietLocals, SameGood
<1>3. CASE Dropping(s)
  <2>1. GoodSnapshots' = GoodSnapshots
    BY <1>1 DEF GoodSnapshots, NoneMissed, AllCounted, Unannounced, Behind
  <2>2. WriterInv'
    BY <1>1 DEF GenInv, WriterInv, Announced, Advances
  <2> QED
    BY <1>3, <2>1, <2>2 DEF Dropping, storageVars, sessionVars, GenInv
<1>4. CASE Finish(s) \/ (Leases(s) /\ (Find(s) \/ CheckSynced(s)))
  <2>1. snaps' = snaps
    BY <1>4 DEF Finish, Find, CheckSynced, storageVars
  <2> QED
    BY <1>1, <1>4, <2>1, LeaseLocals, SameGood
<1>5. CASE Claim(s) \/ Release(s) \/ ReleaseFailed(s)
  BY <1>1, <1>5, ReleaseLocals, SameGood
<1> QED
  BY <1>2, <1>3, <1>4, <1>5, StoreGood, MakingGood, PublishGood, SessionSteps

(* The invariant holds throughout. *)
LEMMA GenAlways == Spec => []GenInv
<1>1. Init => GenInv
  <2> SUFFICES ASSUME Init
               PROVE  GenInv
    OBVIOUS
  <2>1. WriterInv
    BY DEF Init, InitObserver, WriterInv, Announced
  <2>2. NoSnapshot \in GoodSnapshots /\ NoCall.work = NoSnapshot
    BY <2>1, InitTypes, NoSnapshotGood
  <2> QED
    BY <2>1, <2>2 DEF Init, InitStorage, GenInv
<1>2. TypeOK /\ GenInv /\ [Next]_vars => GenInv'
  <2> SUFFICES ASSUME TypeOK, GenInv, [Next]_vars
               PROVE  GenInv'
    OBVIOUS
  <2>1. ASSUME NEW w \in Writers, Writing(w)
        PROVE  GenInv'
    <3>1. WriterInv' /\ GoodSnapshots \subseteq GoodSnapshots'
      BY <2>1, WriterStepInv DEF Writing, GenInv
    <3> QED
      BY <2>1, <3>1 DEF Writing, storageVars, sessionVars, GenInv
  <2>2. CASE Crash
    <3>1. NoSnapshot \in GoodSnapshots'
      <4>1. /\ NoSnapshot.write = 0 /\ NoSnapshot.destr = 0 /\ NoSnapshot.table = 0
            /\ NoSnapshot.at = 0
        BY DEF NoSnapshot
      <4>2. writeGen' = 0 /\ destrGen' = 0 /\ tableGen' = 0
        BY <2>2 DEF Crash
      <4> QED
        BY <4>1, <4>2, NoCallType DEF GoodSnapshots, NoneMissed, AllCounted
    <3>2. WriterInv'
      BY <2>2 DEF Crash, WriterInv, Announced
    <3>3. Len(snaps') = 0 /\ NoCall.work = NoSnapshot
      BY <2>2 DEF Crash, NoCall
    <3> QED
      BY <2>2, <3>1, <3>2, <3>3 DEF Crash, GenInv
  <2>3. CASE UNCHANGED vars
    <3>1. GoodSnapshots' = GoodSnapshots
      BY <2>3 DEF vars, observerVars, tableVars, genVars, writerVars, GoodSnapshots, NoneMissed,
                  AllCounted, Unannounced, Behind
    <3>2. WriterInv'
      BY <2>3 DEF vars, observerVars, tableVars, genVars, writerVars, GenInv, WriterInv,
                  Announced, Advances
    <3> QED
      BY <2>3, <3>1, <3>2 DEF vars, storageVars, sessionVars, GenInv
  <2> QED
    BY <2>1, <2>2, <2>3, SessionStepGood DEF Next, Ended
<1> QED
  BY <1>1, <1>2, TypeCorrect, PTL DEF Spec

(* A committed write that may do more than insert, made after a snapshot of this instance
   was read from the tables, has advanced a generation past the snapshot's, unless its
   writer has not reached its callback yet. *)
THEOREM DestructiveWritesCovered == Spec => []GenerationsCoverDestructiveWrites
<1>1. GenInv => GenerationsCoverDestructiveWrites
  BY DEF GenInv, GoodSnapshots, GenerationsCoverDestructiveWrites
<1> QED
  BY <1>1, GenAlways, PTL

-----------------------------------------------------------------------------
(* A delta only grows, whoever catches it up. *)

(* Where a statement is while it holds delta_catch_up_lock. *)
CatchUpPlaces == {"synced", "scan", "store"}

(* Only the holder of the lock reads a delta, and until it has stored its own, the one
   it read is still the snapshot's. *)
CatchUpInv ==
    \A s \in Sessions :
        /\ spc[s] \in CatchUpPlaces => catchUp = {s}
        /\ spc[s] = "scan" => call[s].rows = snaps[call[s].snap].delta
        /\ spc[s] = "store" => snaps[call[s].snap].delta \subseteq call[s].rows

(* The snapshots there are stay as they are: at most one is added. *)
SnapshotsKept == snaps' = snaps \/ \E new \in Snapshots : snaps' = Append(snaps, new)

(* A snapshot stays where it is in the list. *)
LEMMA KeptSame ==
    ASSUME TypeOK, SnapshotsKept
    PROVE  \A i \in 1..Len(snaps) : snaps'[i] = snaps[i]
BY CallTyped DEF SnapshotsKept

(* A statement that catches up has a snapshot. *)
LEMMA CatchUpSnapshot ==
    ASSUME TypeOK, NEW s \in Sessions, spc[s] \in {"lock", "synced", "scan", "store"}
    PROVE  call[s].snap \in 1..Len(snaps) /\ snaps[call[s].snap] \in Snapshots
BY CallFields, SnapsLength, CallTyped DEF TypeOK

(* Steps of a statement that is not catching up when they are done, by which the lock
   does not change hands. *)
LEMMA AsideKeeps ==
    ASSUME TypeOK, CatchUpInv, NEW s \in Sessions, Others(s), SnapshotsKept,
           catchUp' = catchUp, spc'[s] \notin CatchUpPlaces
    PROVE  CatchUpInv'
<1> SUFFICES ASSUME NEW t \in Sessions
             PROVE  /\ spc'[t] \in CatchUpPlaces => catchUp' = {t}
                    /\ spc'[t] = "scan" => call'[t].rows = snaps'[call'[t].snap].delta
                    /\ spc'[t] = "store" => snaps'[call'[t].snap].delta \subseteq call'[t].rows
  BY DEF CatchUpInv
<1>1. CASE t = s
  BY <1>1 DEF CatchUpPlaces
<1>2. CASE t # s
  <2>1. spc'[t] = spc[t] /\ call'[t] = call[t]
    BY <1>2 DEF Others
  <2>2. spc[t] \in CatchUpPlaces => snaps'[call[t].snap] = snaps[call[t].snap]
    BY KeptSame, CatchUpSnapshot DEF CatchUpPlaces
  <2> QED
    BY <2>1, <2>2 DEF CatchUpInv, CatchUpPlaces
<1> QED
  BY <1>1, <1>2

(* Steps by which the holder goes on, or lets go of the lock. *)
LEMMA HolderKeeps ==
    ASSUME TypeOK, CatchUpInv, NEW s \in Sessions, Others(s),
           \A t \in Sessions \ {s} : spc[t] \notin CatchUpPlaces,
           spc'[s] \in CatchUpPlaces => catchUp' = {s},
           spc'[s] = "scan" => call'[s].rows = snaps'[call'[s].snap].delta,
           spc'[s] = "store" => snaps'[call'[s].snap].delta \subseteq call'[s].rows
    PROVE  CatchUpInv'
BY DEF CatchUpInv, Others, CatchUpPlaces
-----------------------------------------------------------------------------
(* A step outside the catch-up. *)
LEMMA AsideStep ==
    ASSUME TypeOK, NEW s \in Sessions, SessionStep(s), ~Dropping(s),
           ~LockCatchUp(s), ~CheckSynced(s), ~Scan(s), ~StoreDelta(s)
    PROVE  /\ Others(s) /\ SnapshotsKept /\ catchUp' = catchUp
           /\ spc'[s] \notin CatchUpPlaces
<1>1. CASE Quiet(s)
  <2>1. spc'[s] \notin CatchUpPlaces
    <3>1. CASE Reacquire(s)
      BY <3>1, CallTyped DEF Reacquire, At, Goto, CatchUpPlaces
    <3>2. CASE ~Reacquire(s)
      <4>1. PICK p \in Places \ CatchUpPlaces : Goto(s, p)
        BY <1>1, <3>2
           DEF Quiet, Leases, Begin, ReadVersion, Find, LoadCheck, NotLoaded, Wait, BuildValidate,
               BuildThrows, SaveFlag, SaveWrite, SaveCheck, Unsave, Places, CatchUpPlaces
      <4> QED
        BY <4>1, Moved
    <3> QED
      BY <3>1, <3>2
  <2>2. catchUp' = catchUp
    BY <1>1 DEF Quiet, Begin, ReadVersion, Find, LoadCheck, Wait, BuildValidate, BuildThrows,
                SaveFlag, SaveWrite, SaveCheck, Unsave, Reacquire, storageVars
  <2> QED
    BY <1>1, <2>1, <2>2, QuietLocals DEF SnapshotsKept
<1>2. CASE Finish(s) \/ (Leases(s) /\ Find(s))
  BY <1>2, LeaseLocals DEF Finish, Find, storageVars, SnapshotsKept, CatchUpPlaces
<1>3. CASE LoadRead(s) \/ LoadStamp(s)
  <2>1. spc'[s] \notin CatchUpPlaces
    BY <1>3, LoadLocals DEF CatchUpPlaces
  <2> QED
    BY <1>3, <2>1, LoadLocals DEF LoadRead, LoadStamp, storageVars, SnapshotsKept
<1>4. CASE BuildGenerations(s) \/ BuildRead(s)
  <2>1. spc'[s] \notin CatchUpPlaces
    BY <1>4, BuildLocals DEF CatchUpPlaces
  <2> QED
    BY <1>4, <2>1, BuildLocals DEF BuildGenerations, BuildRead, storageVars, SnapshotsKept
<1>5. CASE LoadPublish(s) \/ Publish(s)
  <2>1. Others(s) /\ spc'[s] \notin CatchUpPlaces
    BY <1>5, LoadLocals, BuildLocals DEF CatchUpPlaces
  <2>2. snaps' = snaps \/ snaps' = Append(snaps, call[s].work)
    BY <1>5 DEF LoadPublish, Publish, PublishSnapshot
  <2>3. catchUp' = catchUp
    BY <1>5 DEF LoadPublish, Publish
  <2> QED
    BY <2>1, <2>2, <2>3, CallTyped DEF SnapshotsKept
<1>6. CASE Claim(s) \/ Release(s) \/ ReleaseFailed(s)
  <2>1. spc'[s] \notin CatchUpPlaces
    BY <1>6, ReleaseLocals DEF CatchUpPlaces
  <2> QED
    BY <1>6, <2>1, ReleaseLocals DEF Claim, Release, ReleaseFailed, SnapshotsKept
<1> QED
  BY <1>1, <1>2, <1>3, <1>4, <1>5, <1>6, SessionSteps

(* The lock is taken when it is free. *)
LEMMA LockStep ==
    ASSUME TypeOK, CatchUpInv, NEW s \in Sessions, LockCatchUp(s)
    PROVE  CatchUpInv' /\ snaps' = snaps
<1>1. Others(s) /\ snaps' = snaps
  <2>1. Quiet(s)
    BY DEF Quiet
  <2> QED
    BY <2>1, QuietLocals
<1>2. spc'[s] = "synced" /\ catchUp' = {s} /\ catchUp = {}
  BY Moved DEF LockCatchUp, CatchUpFree
<1>3. \A t \in Sessions : spc[t] \notin CatchUpPlaces
  BY <1>2 DEF CatchUpInv
<1> QED
  BY <1>1, <1>2, <1>3, HolderKeeps

(* The holder of the lock has no rival. *)
LEMMA HolderAlone ==
    ASSUME CatchUpInv, NEW s \in Sessions, spc[s] \in CatchUpPlaces
    PROVE  catchUp = {s} /\ \A t \in Sessions \ {s} : spc[t] \notin CatchUpPlaces
BY DEF CatchUpInv

(* The holder reads the delta, or finds the snapshot synced. *)
LEMMA CheckStep ==
    ASSUME TypeOK, CatchUpInv, NEW s \in Sessions, CheckSynced(s)
    PROVE  CatchUpInv' /\ snaps' = snaps
<1>1. spc[s] \in CatchUpPlaces /\ snaps' = snaps
  BY DEF CheckSynced, At, CatchUpPlaces
<1>2. CASE Leases(s)
  <2>1. Others(s) /\ spc'[s] \in {"save", "unsave", "leased", "idle"}
    BY <1>2, LeaseLocals
  <2> QED
    BY <1>1, <2>1, HolderAlone, HolderKeeps DEF CatchUpPlaces
<1>3. CASE ~Leases(s)
  <2>1. Others(s)
    BY <1>3, QuietLocals DEF Quiet
  <2>2. /\ call' = [call EXCEPT ![s] = [call[s] EXCEPT !.rows = snaps[call[s].snap].delta]]
        /\ Goto(s, "scan") /\ catchUp' = catchUp
    BY <1>3 DEF CheckSynced, Leases
  <2>3. call'[s].rows = snaps[call[s].snap].delta /\ call'[s].snap = call[s].snap
    BY <2>2, Called, CallTyped DEF Calls
  <2>4. spc'[s] = "scan"
    BY <2>2, Moved
  <2> QED
    BY <1>1, <2>1, <2>2, <2>3, <2>4, HolderAlone, HolderKeeps
<1> QED
  BY <1>1, <1>2, <1>3

(* A scan adds to the delta it was given, or gives up. *)
LEMMA ScanStep ==
    ASSUME TypeOK, CatchUpInv, NEW s \in Sessions, Scan(s)
    PROVE  CatchUpInv' /\ snaps' = snaps
<1>1. spc[s] = "scan" /\ spc[s] \in CatchUpPlaces /\ snaps' = snaps
  BY DEF Scan, At, CatchUpPlaces
<1>2. Others(s)
  BY QuietLocals DEF Quiet
<1> DEFINE found == ScanFinds(snaps[call[s].snap], call[s].rows)
<1>3. CASE ScanFits(snaps[call[s].snap], call[s].rows)
  <2>1. /\ call' = [call EXCEPT ![s] = [call[s] EXCEPT !.rows = call[s].rows \cup found]]
        /\ Goto(s, "store") /\ catchUp' = catchUp
    BY <1>3 DEF Scan
  <2> HIDE DEF found
  <2>2. call'[s].rows = call[s].rows \cup found /\ call'[s].snap = call[s].snap
    BY <2>1, Called, CallTyped DEF Calls
  <2>3. spc'[s] = "store"
    BY <2>1, Moved
  <2>4. call[s].rows = snaps[call[s].snap].delta
    BY <1>1 DEF CatchUpInv
  <2> QED
    BY <1>1, <1>2, <2>1, <2>2, <2>3, <2>4, HolderAlone, HolderKeeps
<1>4. CASE ~ScanFits(snaps[call[s].snap], call[s].rows)
  <2>1. spc'[s] \in {"outrun", "claim"}
    BY <1>4, Moved DEF Scan, Rebuild
  <2> QED
    BY <1>1, <1>2, <2>1, HolderAlone, HolderKeeps DEF CatchUpPlaces
<1> QED
  BY <1>3, <1>4

(* The holder's delta replaces the one it was made from, and no other changes. *)
LEMMA StoreStep ==
    ASSUME TypeOK, CatchUpInv, NEW s \in Sessions, StoreDelta(s)
    PROVE  /\ CatchUpInv'
           /\ \A i \in 1..Len(snaps) : snaps[i].delta \subseteq snaps'[i].delta
<1>1. spc[s] = "store" /\ spc[s] \in CatchUpPlaces
  BY DEF StoreDelta, At, CatchUpPlaces
<1>2. Others(s) /\ spc'[s] \in {"save", "unsave", "leased", "idle"}
  <2>1. Leases(s)
    BY DEF StoreDelta, Leases
  <2> QED
    BY <2>1, LeaseLocals
<1>3. CatchUpInv'
  BY <1>1, <1>2, HolderAlone, HolderKeeps DEF CatchUpPlaces
<1>4. call[s].snap \in 1..Len(snaps) /\ snaps[call[s].snap] \in Snapshots
  BY <1>1, CatchUpSnapshot
<1>5. snaps' = [snaps EXCEPT ![call[s].snap] =
                    [snaps[call[s].snap] EXCEPT !.delta = call[s].rows, !.synced = call[s].gen]]
  BY <1>4, CallTyped DEF StoreDelta, SyncGeneration
<1>6. snaps'[call[s].snap].delta = call[s].rows
  BY <1>4, <1>5, CallTyped DEF Snapshots
<1>7. \A i \in 1..Len(snaps) : i # call[s].snap => snaps'[i] = snaps[i]
  BY <1>5, CallTyped
<1> QED
  BY <1>1, <1>3, <1>6, <1>7 DEF CatchUpInv

-----------------------------------------------------------------------------
(* No delta loses a row, unless the instance is closed. *)
DeltasGrow == \A i \in (1..Len(snaps)) \cap (1..Len(snaps')) : snaps[i].delta \subseteq snaps'[i].delta

(* Every step keeps the lock in order, and every delta. *)
LEMMA CatchUpStep ==
    ASSUME TypeOK, CatchUpInv, [Next]_vars
    PROVE  CatchUpInv' /\ DeltasGrow
<1>1. CASE UNCHANGED <<spc, call, catchUp, snaps>>
  BY <1>1 DEF CatchUpInv, DeltasGrow
<1>2. ASSUME NEW s \in Sessions, SessionStep(s), ~Dropping(s)
      PROVE  CatchUpInv' /\ DeltasGrow
  <2>1. CASE LockCatchUp(s) \/ CheckSynced(s) \/ Scan(s)
    BY <2>1, LockStep, CheckStep, ScanStep DEF DeltasGrow
  <2>2. CASE StoreDelta(s)
    BY <2>2, StoreStep DEF DeltasGrow
  <2>3. CASE ~(LockCatchUp(s) \/ CheckSynced(s) \/ Scan(s) \/ StoreDelta(s))
    BY <1>2, <2>3, AsideStep, AsideKeeps, KeptSame DEF DeltasGrow
  <2> QED
    BY <2>1, <2>2, <2>3
<1>3. CASE Crash
  <2>1. Len(snaps') = 0 /\ spc' = [s \in Sessions |-> "idle"]
    BY <1>3 DEF Crash
  <2> QED
    BY <2>1 DEF CatchUpInv, CatchUpPlaces, DeltasGrow
<1> QED
  BY <1>1, <1>2, <1>3
     DEF Next, Writing, Dropping, Ended, vars, storageVars, sessionVars

(* A catch-up never undoes another: what a delta holds it holds as long as the instance
   is open, although readers start from the same delta and store one after the other. *)
THEOREM DeltasOnlyGrow == Spec => DeltaOnlyGrows
<1>1. Init => CatchUpInv
  BY DEF Init, InitStorage, CatchUpInv, CatchUpPlaces
<1>2. TypeOK /\ CatchUpInv /\ [Next]_vars => CatchUpInv'
  BY CatchUpStep
<1>3. TypeOK /\ CatchUpInv /\ [Next]_vars =>
         [\A i \in (1..Len(snaps)) \cap (1..Len(snaps')) : snaps[i].delta \subseteq snaps'[i].delta]_vars
  BY CatchUpStep DEF DeltasGrow
<1> QED
  BY <1>1, <1>2, <1>3, TypeCorrect, PTL DEF Spec, DeltaOnlyGrows
=============================================================================
