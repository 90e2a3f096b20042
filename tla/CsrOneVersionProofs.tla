------------------------- MODULE CsrOneVersionProofs -------------------------
(***************************************************************************)
(* What a snapshot and its delta hold as long as nothing but inserts was   *)
(* committed since the snapshot was built: one committed version of the    *)
(* graph, with the rows of every commit acknowledged when it was synced.   *)
(*                                                                         *)
(* Where rows are updated but none deleted, it still has one row for every *)
(* id of a committed version.                                              *)
(*                                                                         *)
(* From it, proofs that a synced snapshot is complete, that a lease the    *)
(* code lets a later operator use again is fresh, and every lease if       *)
(* nothing is deleted, that every lease is one version while nothing but   *)
(* inserts is committed, and that every step of the storage is then one of *)
(* GraphLeases or none.                                                    *)
(*                                                                         *)
(* Last, what is saved is in the tables and is never overlooked, when      *)
(* nothing else runs as gql_build_csr begins and no write transaction is   *)
(* opened while it runs (SerialSaves).  Queries may begin meanwhile, builds *)
(* may throw, writers may roll back, and the process may end at any point. *)
(***************************************************************************)
EXTENDS CsrStorageProofs, CsrLeaseRefinement

(* The statements that read a snapshot with its delta, and those that read its arrays
   alone. *)
ReadWithDelta == {"query", "build", "build_memory"}
ArraysOnly == {"algorithm", "narrow", "unchanged"}

Undisturbed == \A k \in 1..Len(log) : ~log[k].destructive

-----------------------------------------------------------------------------
(* The invariant.  Its parts take the state they are about as arguments, so that
   one lemma says what every step leaves of them. *)

(* Nothing but inserts was committed after the given commit.  What follows is about
   the snapshots this is true of; a loaded one counts as built before the first. *)
InsertsSince(at, states) == \A k \in (at + 1)..Len(states) : ~states[k].destructive

(* No two of the rows have the same id. *)
OneRowEach(rows) == \A r, q \in rows : r[1] = q[1] => r = q

(* Where the statements delete nothing, updates keep the ids. *)
NothingDeleted == "delete" \notin Kinds

(* Inserts add rows and take none away, and a row id that is gone does not come back. *)
LogGrows ==
    /\ \A k \in 1..Len(log) : IsFiniteSet(log[k].rows) /\ OneRowEach(log[k].rows)
    /\ \A j, k \in 1..Len(log) : j < k =>
          /\ (\A m \in (j + 1)..k : ~log[m].destructive) => log[j].rows \subseteq log[k].rows
          /\ Ids(log[j].rows) \cap Ids(Table.rows) \subseteq Ids(log[k].rows)
          /\ NothingDeleted => Ids(log[j].rows) \subseteq Ids(log[k].rows)
    /\ \A k \in 2..Len(log) : ~log[k].destructive => log[k].rows # log[k - 1].rows

(* A transaction that appends has an id no row ever had, and commits after the first
   state of the log. *)
WritersReserve ==
    \A w \in Writers :
        /\ wpc[w] = "open" => stmts[w] # {}
        /\ wpc[w] \in {"idle", "open"} => reserved[w] = {}
        /\ wpc[w] = "flushed" =>
              /\ \E i \in 0..(nextRow - 1) :
                    /\ reserved[w] = {i}
                    /\ \A k \in 1..Len(log) : i \notin Ids(log[k].rows)
              /\ \A v \in Writers \ {w} : wpc[v] = "flushed" => reserved[v] \cap reserved[w] = {}
        /\ wpc[w] \in {"committed", "advanced"} => commitAt[w] >= 2

(* Rows that are those of one commit, not before `at` and before none of the given. *)
Version(rows, at, commits, states) ==
    \E k \in 1..Len(states) : /\ at <= k /\ rows = states[k].rows
                              /\ \A j \in commits : j <= k

(* A snapshot is a version, with its delta perhaps a later one, and the rows of the
   delta come after its own. *)
Describes(snap, states) ==
    /\ Version(snap.base, snap.at, {}, states) /\ snap.watermark = Watermark(snap.base)
    /\ Version(snap.base \cup snap.delta, snap.at, {}, states)
    /\ \A r \in snap.delta : r[1] >= snap.watermark

(* Rows of different commits, from `at` on, but a row of every id one commit has, and that
   commit is before none of the given that changed a row. *)
Gathered(rows, at, commits, states) ==
    /\ OneRowEach(rows)
    /\ \A r \in rows : \E j \in at..Len(states) : r \in states[j].rows
    /\ \E k \in at..Len(states) :
          /\ Ids(rows) = Ids(states[k].rows)
          /\ \A j \in commits : j <= k \/ states[j].rows = states[j - 1].rows

(* A snapshot this instance built, after which rows may have been updated. *)
Whole(snap, states) ==
    /\ snap.at \in 1..Len(states) /\ snap.base = states[snap.at].rows
    /\ snap.watermark = Watermark(snap.base)
    /\ \A r \in snap.delta : r[1] >= snap.watermark
    /\ Gathered(snap.base \cup snap.delta, snap.at, {}, states)

Complete(snap, states, told, now) ==
    NothingDeleted /\ snap.at # 0 =>
        /\ Whole(snap, states)
        /\ snap.synced = now => Gathered(snap.base \cup snap.delta, snap.at, told, states)

(* If it is synced it is before no acknowledged commit. *)
Sound(snap, states, told, now) ==
    /\ snap.synced <= now
    /\ InsertsSince(snap.at, states) =>
          /\ Describes(snap, states)
          /\ snap.synced = now => Version(snap.base \cup snap.delta, snap.at, told, states)
    /\ Complete(snap, states, told, now)

(* The snapshot a catch-up is about to store. *)
CaughtUp(snap, c) == [snap EXCEPT !.delta = c.rows, !.synced = c.gen]

(* Rows read from a snapshot are a version the statement may expect. *)
Serves(snap, rows, c, states) ==
    /\ InsertsSince(snap.at, states) => Version(rows, snap.at, c.since, states)
    /\ NothingDeleted /\ snap.at # 0 => Gathered(rows, snap.at, c.since, states)

(* A statement's lease, and the steps that lead to it. *)
Reads(c, p, list, states, told, now) ==
    /\ c.op \in Operations \cup {"none"}
    /\ c.since \subseteq told
    /\ c.work.delta = {}
    /\ p = "idle" => c = NoCall
    /\ c.op \notin ArraysOnly /\ c.lease.snap # 0 =>
          Serves(list[c.lease.snap], c.lease.rows, c, states)
    /\ p \in CatchUpPlaces => c.gen <= now
    /\ p = "synced" /\ list[c.snap].synced = c.gen =>
          Serves(list[c.snap], list[c.snap].base \cup list[c.snap].delta, c, states)
    /\ p = "store" =>
          /\ Sound(CaughtUp(list[c.snap], c), states, told, now)
          /\ Serves(list[c.snap], list[c.snap].base \cup c.rows, c, states)
    /\ p = "read" => c.work.synced <= now
    /\ p \in {"load_stamp", "load_publish", "validate", "publish"} =>
          Sound(c.work, states, told, now)

(* A saved copy is a version if nothing but inserts was ever committed. *)
SavedDescribes ==
    InsertsSince(0, log) =>
        \A copy \in saved : /\ Version(copy.base, 0, {}, log)
                            /\ copy.watermark = Watermark(copy.base)

VersionInv ==
    /\ LogGrows
    /\ WritersReserve
    /\ SavedDescribes
    /\ \A i \in 1..Len(snaps) : Sound(snaps[i], log, acked, dbGen)
    /\ \A s \in Sessions : Reads(call[s], spc[s], snaps, log, acked, dbGen)

-----------------------------------------------------------------------------
(* What the log, the acknowledgements and the generation leave of these parts. *)

Extends(states, more) ==
    /\ Len(states) <= Len(more)
    /\ \A k \in 1..Len(states) : more[k] = states[k]

(* Who is told of a commit that changed rows is told when the generation has moved. *)
Tells(told, now, told2, now2, states) ==
    /\ told \subseteq told2 /\ now <= now2
    /\ now2 = now => \A j \in told2 \ told :
                         states[j].destructive /\ states[j].rows = states[j - 1].rows

LEMMA VersionStays ==
    ASSUME NEW states \in Seq(State), NEW more \in Seq(State), Extends(states, more),
           NEW rows, NEW at, NEW commits, Version(rows, at, commits, states)
    PROVE  Version(rows, at, commits, more)
BY DEF Version, Extends

LEMMA GatheredStays ==
    ASSUME NEW states \in Seq(State), NEW more \in Seq(State), Extends(states, more),
           NEW rows, NEW at \in Nat \ {0}, NEW commits \in SUBSET (1..Len(states)),
           Gathered(rows, at, commits, states)
    PROVE  Gathered(rows, at, commits, more)
<1>1. /\ Len(states) \in Nat /\ Len(more) \in Nat
      /\ \A k \in at..Len(states) : k \in at..Len(more) /\ more[k] = states[k]
  BY DEF Extends
<1>2. \A r \in rows : \E j \in at..Len(more) : r \in more[j].rows
  BY <1>1 DEF Gathered
<1>3. PICK k \in at..Len(states) :
         /\ Ids(rows) = Ids(states[k].rows)
         /\ \A j \in commits : j <= k \/ states[j].rows = states[j - 1].rows
  BY DEF Gathered
<1>4. ASSUME NEW j \in commits
      PROVE  j <= k \/ more[j].rows = more[j - 1].rows
  <2>1. CASE j > k
    <3>1. j \in 1..Len(states) /\ j - 1 \in 1..Len(states)
      BY <1>1, <2>1
    <3> QED
      BY <1>3, <2>1, <3>1 DEF Extends
  <2> QED
    BY <1>1, <2>1
<1> QED
  BY <1>1, <1>2, <1>3, <1>4 DEF Gathered

LEMMA SinceStays ==
    ASSUME NEW states \in Seq(State), NEW more \in Seq(State), Extends(states, more),
           NEW at \in Nat, InsertsSince(at, more)
    PROVE  InsertsSince(at, states)
BY DEF InsertsSince, Extends

(* Commits that are told of while the generation stands changed nothing. *)
LEMMA GatheredTells ==
    ASSUME NEW states, NEW rows, NEW at, NEW told, NEW told2, NEW now,
           Tells(told, now, told2, now, states), Gathered(rows, at, told, states)
    PROVE  Gathered(rows, at, told2, states)
<1>1. PICK k \in at..Len(states) :
         /\ Ids(rows) = Ids(states[k].rows)
         /\ \A j \in told : j <= k \/ states[j].rows = states[j - 1].rows
  BY DEF Gathered
<1>2. \A j \in told2 : j <= k \/ states[j].rows = states[j - 1].rows
  BY <1>1 DEF Tells
<1> QED
  BY <1>1, <1>2 DEF Gathered

LEMMA CompleteStays ==
    ASSUME NEW states \in Seq(State), NEW more \in Seq(State), Extends(states, more),
           NEW told \in SUBSET (1..Len(states)), NEW told2 \in SUBSET (1..Len(more)),
           NEW now \in Nat, NEW now2 \in Nat, Tells(told, now, told2, now2, more),
           NEW snap, snap.synced \in Int, snap.at \in Nat, snap.synced <= now,
           Complete(snap, states, told, now)
    PROVE  Complete(snap, more, told2, now2)
<1> SUFFICES ASSUME NothingDeleted, snap.at # 0
             PROVE  /\ Whole(snap, more)
                    /\ snap.synced = now2 =>
                          Gathered(snap.base \cup snap.delta, snap.at, told2, more)
  BY DEF Complete
<1>1. snap.at \in Nat \ {0} /\ {} \in SUBSET (1..Len(states))
  OBVIOUS
<1>2. Whole(snap, states)
  BY DEF Complete
<1>3. Whole(snap, more)
  <2>1. snap.at \in 1..Len(more) /\ more[snap.at] = states[snap.at]
    BY <1>2 DEF Whole, Extends
  <2>2. Gathered(snap.base \cup snap.delta, snap.at, {}, more)
    BY <1>1, <1>2, GatheredStays DEF Whole
  <2> QED
    BY <1>2, <2>1, <2>2 DEF Whole
<1>4. ASSUME snap.synced = now2
      PROVE  Gathered(snap.base \cup snap.delta, snap.at, told2, more)
  <2>1. now2 = now /\ snap.synced = now
    BY <1>4 DEF Tells
  <2>2. Gathered(snap.base \cup snap.delta, snap.at, told, more)
    BY <1>1, <2>1, GatheredStays DEF Complete
  <2> QED
    BY <2>1, <2>2, GatheredTells
<1> QED
  BY <1>3, <1>4

LEMMA SoundStays ==
    ASSUME NEW states \in Seq(State), NEW more \in Seq(State), Extends(states, more),
           NEW told \in SUBSET (1..Len(states)), NEW told2 \in SUBSET (1..Len(more)),
           NEW now \in Nat, NEW now2 \in Nat, Tells(told, now, told2, now2, more),
           NEW snap, snap.synced \in Int, snap.at \in Nat, Sound(snap, states, told, now)
    PROVE  Sound(snap, more, told2, now2)
<1>1. snap.synced <= now2
  BY DEF Sound, Tells
<1>2. ASSUME InsertsSince(snap.at, more)
      PROVE  Describes(snap, more)
  BY <1>2, VersionStays, SinceStays DEF Sound, Describes
<1>3. ASSUME InsertsSince(snap.at, more), snap.synced = now2
      PROVE  Version(snap.base \cup snap.delta, snap.at, told2, more)
  <2>1. now2 = now /\ snap.synced = now
    BY <1>3 DEF Sound, Tells
  <2>2. Version(snap.base \cup snap.delta, snap.at, told, states)
    BY <1>3, <2>1, SinceStays DEF Sound
  <2>3. PICK k \in 1..Len(states) : /\ snap.at <= k /\ snap.base \cup snap.delta = states[k].rows
                                    /\ \A j \in told : j <= k
    BY <2>2 DEF Version
  <2>4. ASSUME NEW j \in told2
        PROVE  j <= k
    <3>1. CASE j \in told
      BY <2>3, <3>1
    <3>2. CASE j \notin told
      <4>1. more[j].destructive
        BY <2>1, <3>2 DEF Tells
      <4>2. j <= snap.at
        BY <1>3, <4>1 DEF InsertsSince
      <4> QED
        BY <2>3, <4>2
    <3> QED
      BY <3>1, <3>2
  <2>5. k \in 1..Len(more) /\ more[k] = states[k]
    BY DEF Extends
  <2> QED
    BY <2>3, <2>4, <2>5 DEF Version
<1>4. Complete(snap, more, told2, now2)
  BY CompleteStays DEF Sound
<1> QED
  BY <1>1, <1>2, <1>3, <1>4 DEF Sound

LEMMA ServesStays ==
    ASSUME NEW states \in Seq(State), NEW more \in Seq(State), Extends(states, more),
           NEW snap, NEW snap2, snap.at \in Nat, snap2.at = snap.at,
           NEW rows, NEW c, c.since \in SUBSET (1..Len(states)), Serves(snap, rows, c, states)
    PROVE  Serves(snap2, rows, c, more)
<1>1. InsertsSince(snap2.at, more) => Version(rows, snap2.at, c.since, more)
  BY VersionStays, SinceStays DEF Serves
<1>2. NothingDeleted /\ snap2.at # 0 => Gathered(rows, snap2.at, c.since, more)
  BY GatheredStays DEF Serves
<1> QED
  BY <1>1, <1>2 DEF Serves

(* So does what a statement keeps, while nobody touches the snapshot it catches up. *)
LEMMA ReadsStays ==
    ASSUME NEW states \in Seq(State), NEW more \in Seq(State), Extends(states, more),
           NEW told \in SUBSET (1..Len(states)), NEW told2 \in SUBSET (1..Len(more)),
           NEW now \in Nat, NEW now2 \in Nat, Tells(told, now, told2, now2, more),
           NEW c \in Calls, NEW p, NEW list, NEW list2,
           p \in CatchUpPlaces => list2[c.snap] = list[c.snap] /\ list[c.snap] \in Snapshots,
           c.lease.snap # 0 => /\ list[c.lease.snap].at \in Nat
                               /\ list2[c.lease.snap].at = list[c.lease.snap].at,
           Reads(c, p, list, states, told, now)
    PROVE  Reads(c, p, list2, more, told2, now2)
<1>1. /\ c.gen \in Nat /\ c.work.synced \in Int /\ c.work.at \in Nat
      /\ c.since \subseteq told2 /\ now <= now2 /\ c.since \in SUBSET (1..Len(states))
  <2>1. c.gen \in Nat /\ c.work \in Snapshots
    BY DEF Calls
  <2>2. c.work.synced \in Int /\ c.work.at \in Nat
    BY <2>1 DEF Snapshots, NeverSynced
  <2> QED
    BY <2>1, <2>2 DEF Reads, Tells
<1>2. p \in CatchUpPlaces => list[c.snap].at \in Nat
  BY DEF Snapshots
<1>3. c.op \notin ArraysOnly /\ c.lease.snap # 0 =>
         Serves(list2[c.lease.snap], c.lease.rows, c, more)
  BY <1>1, ServesStays DEF Reads
<1>4. p \in CatchUpPlaces => c.gen <= now2
  BY <1>1 DEF Reads
<1>5. ASSUME p = "synced", list2[c.snap].synced = c.gen
      PROVE  Serves(list2[c.snap], list2[c.snap].base \cup list2[c.snap].delta, c, more)
  <2>1. list2[c.snap] = list[c.snap] /\ list[c.snap].at \in Nat
    BY <1>2, <1>5 DEF CatchUpPlaces
  <2>2. Serves(list[c.snap], list[c.snap].base \cup list[c.snap].delta, c, states)
    BY <1>5, <2>1 DEF Reads
  <2> QED
    BY <1>1, <2>1, <2>2, ServesStays
<1>6. ASSUME p = "store"
      PROVE  /\ Sound(CaughtUp(list2[c.snap], c), more, told2, now2)
             /\ Serves(list2[c.snap], list2[c.snap].base \cup c.rows, c, more)
  <2>1. /\ list2[c.snap] = list[c.snap] /\ CaughtUp(list[c.snap], c).synced \in Int
        /\ CaughtUp(list[c.snap], c).at \in Nat
    <3>1. list2[c.snap] = list[c.snap] /\ list[c.snap] \in Snapshots
      BY <1>6 DEF CatchUpPlaces
    <3>2. CaughtUp(list[c.snap], c).synced = c.gen /\ CaughtUp(list[c.snap], c).at \in Nat
      BY <3>1 DEF CaughtUp, Snapshots
    <3> QED
      BY <1>1, <3>1, <3>2
  <2>2. list[c.snap].at \in Nat
    BY <1>2, <1>6 DEF CatchUpPlaces
  <2>3. /\ Sound(CaughtUp(list[c.snap], c), states, told, now)
        /\ Serves(list[c.snap], list[c.snap].base \cup c.rows, c, states)
    BY <1>6 DEF Reads
  <2>4. Sound(CaughtUp(list2[c.snap], c), more, told2, now2)
    BY <1>1, <2>1, <2>3, SoundStays
  <2> QED
    BY <1>1, <2>1, <2>2, <2>3, <2>4, ServesStays
<1>7. p = "read" => c.work.synced <= now2
  BY <1>1 DEF Reads
<1>8. p \in {"load_stamp", "load_publish", "validate", "publish"} =>
         Sound(c.work, more, told2, now2)
  BY <1>1, SoundStays DEF Reads
<1> QED
  BY <1>1, <1>3, <1>4, <1>5, <1>6, <1>7, <1>8 DEF Reads

(* Where a statement has no snapshot of its own. *)
PlainPlaces == {"version", "find", "load", "load_read", "lock", "claim", "wait", "generations",
                "release", "fail", "save", "save_write", "save_check", "unsave", "leased",
                "failed", "outrun"}

(* A statement that goes on to one of them. *)
LEMMA PlainReads ==
    ASSUME NEW states, NEW told, NEW now, NEW c, NEW p, NEW list, NEW c2, NEW p2, NEW list2,
           NEW now2, Reads(c, p, list, states, told, now),
           c2.op = c.op, c2.since = c.since, c2.work \in {c.work, NoSnapshot},
           c2.lease = c.lease \/ c2.lease.snap = 0,
           c.lease.snap # 0 => list2[c.lease.snap].at = list[c.lease.snap].at,
           p2 \in PlainPlaces
    PROVE  Reads(c2, p2, list2, states, told, now2)
<1>1. NoSnapshot.delta = {}
  BY DEF NoSnapshot
<1>2. c2.op \notin ArraysOnly /\ c2.lease.snap # 0 =>
         Serves(list2[c2.lease.snap], c2.lease.rows, c2, states)
  BY DEF Reads, Serves
<1> QED
  BY <1>1, <1>2 DEF Reads, CatchUpPlaces, PlainPlaces
-----------------------------------------------------------------------------
(* Writers. *)

LEMMA ObserverTypes ==
    ASSUME TypeOK
    PROVE  /\ log \in Seq(State) /\ Len(log) \in Nat \ {0} /\ Len(log) \in 1..Len(log)
           /\ Table = log[Len(log)] /\ Table.rows \in SUBSET Row
           /\ acked \in SUBSET (1..Len(log)) /\ dbGen \in Nat /\ nextRow \in Nat
           /\ \A k \in 1..Len(log) : log[k].rows \in SUBSET Row
                                     /\ Ids(log[k].rows) \subseteq 0..(nextRow - 1)
           /\ wpc \in [Writers -> {"idle", "open", "flushed", "committed", "advanced"}]
           /\ stmts \in [Writers -> SUBSET AllKinds]
           /\ reserved \in [Writers -> SUBSET (0..(nextRow - 1))]
           /\ commitAt \in [Writers -> 0..Len(log)]
<1>1. log \in Seq(State) /\ Len(log) \in Nat \ {0} /\ Table.rows \in SUBSET Row
  BY TableIsState DEF TypeOK, ObserverTypeOK
<1>2. \A k \in 1..Len(log) : log[k].rows \in SUBSET Row
  <2>1. \A k \in 1..Len(log) : log[k] \in State
    BY <1>1
  <2> QED
    BY <2>1 DEF State
<1> QED
  BY <1>1, <1>2 DEF TypeOK, ObserverTypeOK, LogTypeOK, GenTypeOK, WriterTypeOK, Table

(* A lease is of a snapshot there is. *)
LEMMA LeasedSnapshot ==
    ASSUME TypeOK, NEW s \in Sessions, call[s].lease.snap # 0
    PROVE  call[s].lease.snap \in 1..Len(snaps) /\ snaps[call[s].lease.snap].at \in Nat
<1>1. call[s].lease.snap \in 1..Len(snaps) /\ snaps[call[s].lease.snap] \in Snapshots
  BY CallFields, SnapsLength DEF TypeOK, SessionTypeOK
<1> QED
  BY <1>1 DEF Snapshots

(* The snapshots and the statements need no more than this of a writer. *)
LEMMA WriterKeeps ==
    ASSUME TypeOK, TypeOK', VersionInv, UNCHANGED <<snaps, call, spc>>,
           Extends(log, log'), Tells(acked, dbGen, acked', dbGen', log'), saved' \subseteq saved,
           LogGrows', WritersReserve'
    PROVE  VersionInv'
<1>1. /\ log \in Seq(State) /\ dbGen \in Nat /\ snaps \in Seq(Snapshots)
      /\ acked \in SUBSET (1..Len(log))
  BY ObserverTypes DEF TypeOK, StorageTypeOK
<1>2. log' \in Seq(State) /\ dbGen' \in Nat /\ acked' \in SUBSET (1..Len(log'))
  BY DEF TypeOK, ObserverTypeOK, LogTypeOK, GenTypeOK, State
<1>3. SavedDescribes'
  BY <1>1, <1>2, VersionStays, SinceStays DEF VersionInv, SavedDescribes
<1>4. ASSUME NEW i \in 1..Len(snaps)
      PROVE  Sound(snaps[i], log', acked', dbGen')
  <2>1. snaps[i] \in Snapshots
    BY <1>1
  <2>2. snaps[i].synced \in Int /\ snaps[i].at \in Nat
    BY <2>1 DEF Snapshots, NeverSynced
  <2> QED
    BY <1>1, <1>2, <2>2, SoundStays DEF VersionInv
<1>5. ASSUME NEW s \in Sessions
      PROVE  Reads(call[s], spc[s], snaps, log', acked', dbGen')
  <2>1. call[s] \in Calls /\ Reads(call[s], spc[s], snaps, log, acked, dbGen)
    BY CallTyped DEF VersionInv
  <2>2. spc[s] \in CatchUpPlaces => snaps[call[s].snap] \in Snapshots
    BY CatchUpSnapshot DEF CatchUpPlaces
  <2>3. call[s].lease.snap # 0 => snaps[call[s].lease.snap].at \in Nat
    BY LeasedSnapshot
  <2> QED
    BY <1>1, <1>2, <2>1, <2>2, <2>3, ReadsStays
<1> QED
  BY <1>3, <1>4, <1>5 DEF VersionInv

LEMMA SameLog ==
    ASSUME TypeOK, log' = log, LogGrows
    PROVE  Extends(log, log') /\ LogGrows'
<1>1. Table' = Table
  BY DEF Table
<1>2. LogGrows'
  BY <1>1 DEF LogGrows
<1> QED
  BY <1>2, ObserverTypes DEF Extends

(* A step of DropSavedCsrs, whoever takes it. *)
LEMMA DropVersion ==
    ASSUME TypeOK, TypeOK', VersionInv, NEW c \in Connections, DropSavedCsrs(c),
           UNCHANGED <<snaps, call, spc>>
    PROVE  VersionInv'
<1>1. /\ UNCHANGED <<tableVars, writerVars>> /\ saved' \subseteq saved
      /\ dbGen' = dbGen \/ dbGen' = dbGen + 1
  BY DEF DropSavedCsrs, DropCheck, DropSelect, DropFoundNone, DropDelete, InvalidateCache,
         genVars, savedVars
<1>2. LogGrows' /\ Extends(log, log')
  BY <1>1, SameLog DEF tableVars, VersionInv
<1>3. WritersReserve'
  BY <1>1 DEF WritersReserve, VersionInv, tableVars, writerVars
<1>4. Tells(acked, dbGen, acked', dbGen', log')
  BY <1>1, ObserverTypes DEF Tells, tableVars
<1> QED
  BY <1>1, <1>2, <1>3, <1>4, WriterKeeps

(* A statement that is planned or rolled back. *)
LEMMA PlanVersion ==
    ASSUME TypeOK, TypeOK', VersionInv, NEW w \in Writers, UNCHANGED <<snaps, call, spc>>,
           \/ \E k \in Kinds : PlanTableWrite(w, k)
           \/ PlanPreparedWrite(w) \/ AppendRows(w) \/ Rollback(w)
    PROVE  VersionInv'
<1>1. UNCHANGED <<tableVars, commitAt, saved>> /\ (dbGen' = dbGen \/ dbGen' = dbGen + 1)
  BY DEF PlanTableWrite, PlanPreparedWrite, AppendRows, Rollback, InvalidateCache, genVars, savedVars
<1>2. /\ \A v \in Writers \ {w} : wpc'[v] = wpc[v] /\ stmts'[v] = stmts[v]
                                   /\ reserved'[v] = reserved[v]
      /\ reserved'[w] = {}
      /\ wpc'[w] = "idle" \/ (wpc'[w] = "open" /\ stmts'[w] # {})
  <2>1. CASE Rollback(w)
    BY <2>1, ObserverTypes DEF Rollback
  <2>2. ASSUME NEW k, MayIssue(w, k), Issue(w, k), reserved' = reserved
        PROVE  /\ \A v \in Writers \ {w} : wpc'[v] = wpc[v] /\ stmts'[v] = stmts[v]
                                          /\ reserved'[v] = reserved[v]
               /\ reserved'[w] = {} /\ wpc'[w] = "open" /\ stmts'[w] # {}
    BY <2>2, ObserverTypes DEF Issue, MayIssue, VersionInv, WritersReserve
  <2> QED
    BY <2>1, <2>2 DEF PlanTableWrite, PlanPreparedWrite, AppendRows
<1>3. LogGrows' /\ Extends(log, log')
  BY <1>1, SameLog DEF tableVars, VersionInv
<1>4. WritersReserve'
  BY <1>1, <1>2 DEF WritersReserve, VersionInv, tableVars
<1>5. Tells(acked, dbGen, acked', dbGen', log')
  BY <1>1, ObserverTypes DEF Tells, tableVars
<1> QED
  BY <1>1, <1>3, <1>4, <1>5, WriterKeeps

(* An id that is given out is new. *)
LEMMA FlushVersion ==
    ASSUME TypeOK, TypeOK', VersionInv, NEW w \in Writers, UNCHANGED <<snaps, call, spc>>,
           FlushRows(w)
    PROVE  VersionInv'
<1>1. /\ UNCHANGED <<log, acked, dbGen, commitAt, stmts, saved>> /\ nextRow' = nextRow + 1
      /\ wpc'[w] = "flushed" /\ reserved'[w] = {nextRow}
      /\ \A v \in Writers \ {w} : wpc'[v] = wpc[v] /\ reserved'[v] = reserved[v]
  BY ObserverTypes DEF FlushRows, genVars, savedVars
<1>2. LogGrows' /\ Extends(log, log')
  BY <1>1, SameLog DEF VersionInv
<1>3. /\ nextRow \in 0..(nextRow' - 1) /\ 0..(nextRow - 1) \subseteq 0..(nextRow' - 1)
      /\ \A k \in 1..Len(log) : nextRow \notin Ids(log[k].rows)
      /\ \A v \in Writers : nextRow \notin reserved[v]
  <2>1. nextRow \in Nat /\ nextRow \notin 0..(nextRow - 1)
    BY ObserverTypes
  <2> QED
    BY <1>1, <2>1, ObserverTypes
<1>4. WritersReserve'
  BY <1>1, <1>3 DEF WritersReserve, VersionInv
<1>5. Tells(acked, dbGen, acked', dbGen', log')
  BY <1>1, ObserverTypes DEF Tells
<1> QED
  BY <1>1, <1>2, <1>4, <1>5, WriterKeeps

(* A commit adds the rows its ids were given for, to what it keeps of the others; if it
   destroys nothing it keeps them all and adds one. *)
LEMMA RewrittenFinite ==
    ASSUME NEW rows \in SUBSET Row, IsFiniteSet(rows), NEW kinds, NEW new \in Rewritten(rows, kinds)
    PROVE  IsFiniteSet(new)
<1>1. CASE new = rows
  BY <1>1
<1>2. CASE \E r \in rows : new = (rows \ {r}) \cup {<<r[1], r[2] + 1>>}
  <2>1. PICK r \in rows : new = (rows \ {r}) \cup {<<r[1], r[2] + 1>>}
    BY <1>2
  <2>2. IsFiniteSet(rows \ {r})
    BY FS_Subset
  <2> QED
    BY <2>1, <2>2, FS_AddElement
<1>3. CASE \E r \in rows : new = rows \ {r}
  BY <1>3, FS_Subset
<1> QED
  BY <1>1, <1>2, <1>3 DEF Rewritten

(* What is rewritten still has one row for each id, and every id unless one is deleted. *)
LEMMA RewrittenIds ==
    ASSUME NEW rows \in SUBSET Row, OneRowEach(rows), NEW kinds,
           NEW new \in Rewritten(rows, kinds)
    PROVE  OneRowEach(new) /\ ("delete" \notin kinds => Ids(rows) \subseteq Ids(new))
<1>1. CASE new = rows
  BY <1>1
<1>2. ASSUME NEW r \in rows, new = (rows \ {r}) \cup {<<r[1], r[2] + 1>>}
      PROVE  OneRowEach(new) /\ Ids(rows) \subseteq Ids(new)
  <2> DEFINE u == <<r[1], r[2] + 1>>
  <2>1. u[1] = r[1] /\ \A q \in rows \ {r} : q[1] # r[1]
    BY DEF OneRowEach
  <2>2. new = (rows \ {r}) \cup {u}
    BY <1>2
  <2> HIDE DEF u
  <2>3. OneRowEach(new)
    BY <2>1, <2>2 DEF OneRowEach
  <2>4. \A q \in rows : \E z \in new : z[1] = q[1]
    BY <2>1, <2>2
  <2> QED
    BY <2>3, <2>4 DEF Ids
<1>3. CASE "delete" \in kinds /\ \E r \in rows : new = rows \ {r}
  BY <1>3 DEF OneRowEach
<1> QED
  BY <1>1, <1>2, <1>3 DEF Rewritten

LEMMA CommitAdds ==
    ASSUME TypeOK, VersionInv, WriterInv, NEW w \in Writers, CommitRows(w)
    PROVE  \E entry : /\ log' = Append(log, entry) /\ IsFiniteSet(entry.rows)
                      /\ OneRowEach(entry.rows)
                      /\ NothingDeleted => Ids(Table.rows) \subseteq Ids(entry.rows)
                      /\ Ids(entry.rows) \subseteq Ids(Table.rows) \cup reserved[w]
                      /\ ~entry.destructive => /\ Table.rows \subseteq entry.rows
                                               /\ entry.rows # Table.rows
<1> DEFINE version == IF "gql_insert" \in stmts[w] THEN Table.version + 1 ELSE Table.version
           added == {<<i, 0>> : i \in reserved[w]}
           Entry(rows) == [rows |-> rows \cup added, version |-> version,
                           destructive |-> ~(stmts[w] \subseteq Inserting)]
<1>1. PICK rows \in Rewritten(Table.rows, stmts[w]) : log' = Append(log, Entry(rows))
  BY DEF CommitRows
<1>2. wpc[w] = "flushed" \/ (wpc[w] = "open" /\ stmts[w] \cap Inserting = {})
  BY DEF CommitRows
<1>3. reserved[w] = {} \/ \E i \in 0..(nextRow - 1) : reserved[w] = {i}
  BY <1>2 DEF VersionInv, WritersReserve
<1>4. IsFiniteSet(rows) /\ IsFiniteSet(added) /\ Ids(rows) \subseteq Ids(Table.rows)
  <2>1. IsFiniteSet(Table.rows) /\ Table.rows \in SUBSET Row
    BY ObserverTypes DEF VersionInv, LogGrows
  <2>2. added = {} \/ \E x : added = {x}
    <3>1. CASE reserved[w] = {}
      BY <3>1
    <3>2. ASSUME NEW i, reserved[w] = {i}
          PROVE  added = {<<i, 0>>}
      BY <3>2
    <3> QED
      BY <1>3, <3>1, <3>2
  <2>3. IsFiniteSet(added)
    BY <2>2, FS_EmptySet, FS_Singleton
  <2> QED
    BY <2>1, <2>3, RewrittenFinite, RewrittenRows
<1>5. Ids(added) = reserved[w]
  <2>1. ASSUME NEW i
        PROVE  i \in Ids(added) <=> i \in reserved[w]
    <3>1. i \in Ids(added) <=> \E r \in added : i = r[1]
      BY DEF Ids
    <3>2. (\E r \in added : i = r[1]) <=> \E n \in reserved[w] : i = <<n, 0>>[1]
      OBVIOUS
    <3> QED
      BY <3>1, <3>2
  <2> QED
    BY <2>1
<1>6. ASSUME stmts[w] \subseteq Inserting
      PROVE  Table.rows \subseteq rows \cup added /\ rows \cup added # Table.rows
  <2>1. rows = Table.rows
    BY <1>6 DEF Rewritten, Inserting
  <2>2. wpc[w] = "flushed"
    BY <1>2, <1>6 DEF VersionInv, WritersReserve
  <2>3. PICK i \in 0..(nextRow - 1) : /\ reserved[w] = {i}
                                      /\ \A k \in 1..Len(log) : i \notin Ids(log[k].rows)
    BY <2>2 DEF VersionInv, WritersReserve
  <2>4. <<i, 0>> \in added /\ i \notin Ids(Table.rows)
    BY <2>3, ObserverTypes
  <2>5. <<i, 0>> \notin Table.rows
    BY <2>4 DEF Ids
  <2> QED
    BY <2>1, <2>4, <2>5
<1> DEFINE entry == Entry(rows)
<1>7. entry.rows = rows \cup added /\ entry.destructive = ~(stmts[w] \subseteq Inserting)
  OBVIOUS
<1>8. IsFiniteSet(entry.rows) /\ Ids(entry.rows) \subseteq Ids(Table.rows) \cup reserved[w]
  <2>1. Ids(rows \cup added) = Ids(rows) \cup Ids(added)
    BY DEF Ids
  <2> QED
    BY <1>4, <1>5, <1>7, <2>1, FS_Union
<1>9. log' = Append(log, entry)
  BY <1>1
<1>10. OneRowEach(entry.rows) /\ (NothingDeleted => Ids(Table.rows) \subseteq Ids(entry.rows))
  <2>1. OneRowEach(Table.rows) /\ Table.rows \in SUBSET Row /\ stmts[w] \subseteq Kinds
    BY ObserverTypes DEF VersionInv, LogGrows, WriterInv
  <2>2. OneRowEach(rows) /\ (NothingDeleted => Ids(Table.rows) \subseteq Ids(rows))
    BY <2>1, RewrittenIds DEF NothingDeleted
  <2>3. \A r \in rows, q \in added : r[1] # q[1]
    <3>1. reserved[w] \cap Ids(Table.rows) = {}
      BY <1>2, ObserverTypes DEF VersionInv, WritersReserve
    <3>2. (\A r \in rows : r[1] \in Ids(rows)) /\ \A q \in added : q[1] \in Ids(added)
      BY DEF Ids
    <3> HIDE DEF added
    <3> QED
      BY <1>4, <1>5, <3>1, <3>2
  <2>4. OneRowEach(added)
    BY DEF OneRowEach
  <2> HIDE DEF added
  <2>5. OneRowEach(rows \cup added)
    BY <2>2, <2>3, <2>4 DEF OneRowEach
  <2>6. Ids(rows) \subseteq Ids(rows \cup added)
    BY DEF Ids
  <2> QED
    BY <1>7, <2>2, <2>5, <2>6
<1> HIDE DEF entry, added
<1> QED
  BY <1>6, <1>7, <1>8, <1>9, <1>10

LEMMA CommitVersion ==
    ASSUME TypeOK, TypeOK', VersionInv, WriterInv, NEW w \in Writers, UNCHANGED <<snaps, call, spc>>,
           CommitRows(w)
    PROVE  VersionInv'
<1>1. /\ UNCHANGED <<acked, dbGen, nextRow, reserved, stmts, saved>>
      /\ wpc'[w] = "committed" /\ commitAt'[w] = Len(log) + 1
      /\ \A v \in Writers \ {w} : wpc'[v] = wpc[v] /\ commitAt'[v] = commitAt[v]
  BY ObserverTypes DEF CommitRows, genVars, savedVars
<1>2. PICK entry :
         /\ log' = Append(log, entry) /\ IsFiniteSet(entry.rows) /\ OneRowEach(entry.rows)
         /\ NothingDeleted => Ids(Table.rows) \subseteq Ids(entry.rows)
         /\ Ids(entry.rows) \subseteq Ids(Table.rows) \cup reserved[w]
         /\ ~entry.destructive => Table.rows \subseteq entry.rows /\ entry.rows # Table.rows
  BY CommitAdds
<1>3. /\ Len(log') = Len(log) + 1 /\ log'[Len(log) + 1] = entry
      /\ \A k \in 1..Len(log) : log'[k] = log[k]
      /\ Len(log) \in Nat \ {0} /\ Table' = entry /\ Table = log[Len(log)]
  BY <1>2, ObserverTypes DEF Table
<1>4. Extends(log, log') /\ Tells(acked, dbGen, acked', dbGen', log')
  BY <1>1, <1>3, ObserverTypes DEF Extends, Tells
<1>5. ASSUME NEW k \in 1..Len(log), NEW i \in reserved[w]
      PROVE  i \notin Ids(log[k].rows)
  <2>1. wpc[w] \in {"open", "flushed"}
    BY DEF CommitRows
  <2> QED
    BY <1>5, <2>1 DEF VersionInv, WritersReserve
<1>6. LogGrows'
  <2>1. ASSUME NEW k \in 1..Len(log')
        PROVE  IsFiniteSet(log'[k].rows) /\ OneRowEach(log'[k].rows)
    BY <1>2, <1>3 DEF VersionInv, LogGrows
  <2>2. ASSUME NEW j \in 1..Len(log'), NEW k \in 1..Len(log'), j < k
        PROVE  /\ (\A m \in (j + 1)..k : ~log'[m].destructive) =>
                      log'[j].rows \subseteq log'[k].rows
               /\ Ids(log'[j].rows) \cap Ids(Table'.rows) \subseteq Ids(log'[k].rows)
               /\ NothingDeleted => Ids(log'[j].rows) \subseteq Ids(log'[k].rows)
    <3>0. j \in 1..Len(log) /\ log'[j] = log[j]
      BY <1>3, <2>2
    <3>1. CASE k \in 1..Len(log)
      <4>1. log'[k] = log[k] /\ \A m \in (j + 1)..k : log'[m] = log[m]
        BY <1>3, <3>1, <3>0
      <4>2. /\ (\A m \in (j + 1)..k : ~log[m].destructive) => log[j].rows \subseteq log[k].rows
            /\ Ids(log[j].rows) \cap Ids(Table.rows) \subseteq Ids(log[k].rows)
            /\ NothingDeleted => Ids(log[j].rows) \subseteq Ids(log[k].rows)
        BY <2>2, <3>0, <3>1 DEF VersionInv, LogGrows
      <4>3. Ids(log[j].rows) \cap Ids(entry.rows) \subseteq Ids(Table.rows)
        BY <1>2, <1>5, <3>0
      <4> QED
        BY <1>3, <3>0, <4>1, <4>2, <4>3
    <3>2. CASE k = Len(log) + 1
      <4>1. ASSUME \A m \in (j + 1)..k : ~log'[m].destructive
            PROVE  log[j].rows \subseteq entry.rows
        <5>1. k \in (j + 1)..k /\ ~entry.destructive
          BY <1>3, <2>2, <3>2, <4>1
        <5>2. CASE j = Len(log)
          BY <1>2, <1>3, <5>1, <5>2
        <5>3. CASE j # Len(log)
          <6>1. j < Len(log) /\ Len(log) \in 1..Len(log)
            BY <1>3, <3>0, <5>3
          <6>2. \A m \in (j + 1)..Len(log) : m \in (j + 1)..k /\ log'[m] = log[m]
            BY <1>3, <3>0, <3>2
          <6>3. log[j].rows \subseteq log[Len(log)].rows
            BY <3>0, <4>1, <6>1, <6>2 DEF VersionInv, LogGrows
          <6> QED
            BY <1>2, <1>3, <5>1, <6>3
        <5> QED
          BY <5>2, <5>3
      <4>2. NothingDeleted => Ids(log[j].rows) \subseteq Ids(entry.rows)
        <5>1. j = Len(log) \/ (j < Len(log) /\ Len(log) \in 1..Len(log))
          BY <1>3, <3>0
        <5> QED
          BY <1>2, <1>3, <3>0, <5>1 DEF VersionInv, LogGrows
      <4> QED
        BY <1>3, <3>0, <3>2, <4>1, <4>2
    <3> QED
      BY <1>3, <3>1, <3>2
  <2>3. ASSUME NEW k \in 2..Len(log'), ~log'[k].destructive
        PROVE  log'[k].rows # log'[k - 1].rows
    <3>1. CASE k \in 2..Len(log)
      <4>1. log'[k] = log[k] /\ log'[k - 1] = log[k - 1]
        BY <1>3, <3>1
      <4> QED
        BY <2>3, <3>1, <4>1 DEF VersionInv, LogGrows
    <3>2. CASE k = Len(log) + 1
      <4>1. log'[k] = entry /\ log'[k - 1] = Table
        BY <1>3, <3>2
      <4> QED
        BY <1>2, <2>3, <4>1
    <3> QED
      BY <1>3, <3>1, <3>2
  <2> QED
    BY <2>1, <2>2, <2>3 DEF LogGrows
<1>7. WritersReserve'
  <2>1. ASSUME NEW v \in Writers \ {w}, wpc[v] = "flushed"
        PROVE  \E n \in 0..(nextRow - 1) :
                  reserved[v] = {n} /\ \A k \in 1..Len(log') : n \notin Ids(log'[k].rows)
    <3>1. PICK n \in 0..(nextRow - 1) : /\ reserved[v] = {n}
                                        /\ \A k \in 1..Len(log) : n \notin Ids(log[k].rows)
      BY <2>1 DEF VersionInv, WritersReserve
    <3>2. n \notin reserved[w]
      <4>1. CASE wpc[w] = "flushed"
        <5>1. reserved[v] \cap reserved[w] = {}
          BY <2>1, <4>1 DEF VersionInv, WritersReserve
        <5> QED
          BY <3>1, <5>1
      <4>2. CASE wpc[w] = "open"
        BY <4>2 DEF VersionInv, WritersReserve
      <4> QED
        BY <4>1, <4>2 DEF CommitRows
    <3>3. n \notin Ids(entry.rows)
      BY <1>2, <1>3, <3>1, <3>2
    <3> QED
      BY <1>3, <3>1, <3>3
  <2> QED
    BY <1>1, <1>3, <2>1 DEF VersionInv, WritersReserve
<1> QED
  BY <1>1, <1>4, <1>6, <1>7, WriterKeeps

(* The callback: a commit that changed nothing moves no generation, and can only have been
   a destructive one. *)
LEMMA SettleVersion ==
    ASSUME TypeOK, TypeOK', VersionInv, NEW w \in Writers, UNCHANGED <<snaps, call, spc>>,
           AdvancePlanned(w) \/ InvalidateAfterCommit(w)
    PROVE  VersionInv'
<1>1. /\ UNCHANGED <<log, nextRow, saved>>
      /\ wpc[w] \in {"committed", "advanced"} /\ wpc'[w] \in {"advanced", "idle"}
      /\ wpc'[w] = "advanced" => commitAt'[w] = commitAt[w]
      /\ wpc'[w] = "idle" => reserved'[w] = {}
      /\ \A v \in Writers \ {w} : /\ wpc'[v] = wpc[v] /\ commitAt'[v] = commitAt[v]
                                   /\ stmts'[v] = stmts[v] /\ reserved'[v] = reserved[v]
  BY ObserverTypes DEF AdvancePlanned, InvalidateAfterCommit, tableVars, savedVars
<1>2. LogGrows' /\ Extends(log, log')
  BY <1>1, SameLog DEF VersionInv
<1>3. WritersReserve'
  BY <1>1 DEF WritersReserve, VersionInv
<1>4. Tells(acked, dbGen, acked', dbGen', log')
  <2>1. CASE AdvancePlanned(w)
    BY <2>1, ObserverTypes DEF AdvancePlanned, tableVars, Tells
  <2>2. CASE InvalidateAfterCommit(w)
    <3>1. commitAt[w] \in 2..Len(log)
      BY <1>1, ObserverTypes DEF VersionInv, WritersReserve
    <3>2. ~Modified(w) => /\ log[commitAt[w]].destructive
                          /\ log[commitAt[w]].rows = log[commitAt[w] - 1].rows
      BY <3>1 DEF Modified, VersionInv, LogGrows
    <3>3. /\ acked' = acked \cup {commitAt[w]} /\ log' = log
          /\ Modified(w) => dbGen' = dbGen + 1
          /\ ~Modified(w) => dbGen' = dbGen
      BY <2>2 DEF InvalidateAfterCommit, InvalidateCache
    <3> QED
      BY <3>2, <3>3, ObserverTypes DEF Tells
  <2> QED
    BY <2>1, <2>2
<1> QED
  BY <1>1, <1>2, <1>3, <1>4, WriterKeeps

LEMMA WriterVersion ==
    ASSUME TypeOK, TypeOK', VersionInv, WriterInv, NEW w \in Writers, WriterStep(w),
           UNCHANGED <<snaps, call, spc>>
    PROVE  VersionInv'
<1>1. w \in Connections
  BY DEF Connections
<1> QED
  BY <1>1, DropVersion, PlanVersion, FlushVersion, CommitVersion, SettleVersion
     DEF WriterStep, Finishing

-----------------------------------------------------------------------------
(* The scan. *)

LEMMA WatermarkAbove ==
    ASSUME NEW rows \in SUBSET Row, NEW n \in Nat, \A i \in Ids(rows) : i < n
    PROVE  Watermark(rows) \in Nat /\ \A r \in rows : r[1] < Watermark(rows)
<1>1. Ids(rows) \subseteq Nat /\ \A r \in rows : r[1] \in Ids(rows)
  BY DEF Ids, Row
<1>2. CASE rows # {}
  <2>1. \E i \in Ids(rows) : \A j \in Ids(rows) : j <= i
    BY <1>1, <1>2, GreatestId
  <2> DEFINE greatest == CHOOSE i \in Ids(rows) : \A j \in Ids(rows) : j <= i
  <2>2. greatest \in Ids(rows) /\ \A j \in Ids(rows) : j <= greatest
    BY <2>1
  <2>3. Watermark(rows) = 1 + greatest
    BY <1>2 DEF Watermark
  <2> HIDE DEF greatest
  <2> QED
    BY <1>1, <2>2, <2>3
<1> QED
  BY <1>2, WatermarkIsNat

(* While only inserts follow, a version has no more rows than the table. *)
LEMMA VersionInTable ==
    ASSUME TypeOK, VersionInv, NEW at \in Nat, InsertsSince(at, log),
           NEW rows, NEW commits, Version(rows, at, commits, log)
    PROVE  /\ rows \subseteq Table.rows /\ rows \in SUBSET Row /\ IsFiniteSet(rows)
           /\ at <= Len(log) /\ \A i \in Ids(rows) : i \in Nat /\ i < nextRow
<1>1. PICK k \in 1..Len(log) : at <= k /\ rows = log[k].rows
  BY DEF Version
<1>2. /\ k = Len(log) \/ k < Len(log)
      /\ log[k].rows \in SUBSET Row /\ Ids(log[k].rows) \subseteq 0..(nextRow - 1)
      /\ Len(log) \in 1..Len(log) /\ Table = log[Len(log)] /\ nextRow \in Nat
  BY ObserverTypes
<1>3. \A m \in (k + 1)..Len(log) : m \in (at + 1)..Len(log)
  BY <1>1, <1>2
<1>4. log[k].rows \subseteq Table.rows /\ IsFiniteSet(log[k].rows)
  BY <1>2, <1>3 DEF VersionInv, LogGrows, InsertsSince
<1>5. \A i \in Ids(log[k].rows) : i \in Nat /\ i < nextRow
  BY <1>2
<1> QED
  BY <1>1, <1>2, <1>4, <1>5

(* The rows of a delta come after those of the arrays, and none has an id nobody gave out. *)
InOrder(snap) ==
    /\ snap.watermark = Watermark(snap.base)
    /\ \A r \in snap.delta : r[1] >= snap.watermark
    /\ \A i \in Ids(snap.base \cup snap.delta) : i < nextRow

LEMMA DescribedInOrder ==
    ASSUME TypeOK, VersionInv, NEW snap \in Snapshots, InsertsSince(snap.at, log),
           Describes(snap, log)
    PROVE  InOrder(snap) /\ IsFiniteSet(snap.base \cup snap.delta)
<1>1. snap.at \in Nat
  BY DEF Snapshots
<1> QED
  BY <1>1, VersionInTable DEF Describes, InOrder

(* One row for each id: as many rows as ids. *)
LEMMA RowsOfIds ==
    ASSUME NEW rows, OneRowEach(rows), IsFiniteSet(Ids(rows))
    PROVE  IsFiniteSet(rows) /\ Cardinality(rows) = Cardinality(Ids(rows))
<1> DEFINE row == [i \in Ids(rows) |-> CHOOSE r \in rows : r[1] = i]
<1>1. \A i \in Ids(rows) : row[i] \in rows /\ row[i][1] = i
  BY DEF Ids
<1>2. \A r \in rows : r[1] \in Ids(rows) /\ row[r[1]] = r
  <2>1. \A r \in rows : r[1] \in Ids(rows)
    BY DEF Ids
  <2> QED
    BY <1>1, <2>1 DEF OneRowEach
<1>3. row \in [Ids(rows) -> rows]
  <2>1. row = [i \in Ids(rows) |-> row[i]]
    OBVIOUS
  <2> HIDE DEF row
  <2> QED
    BY <1>1, <2>1
<1> HIDE DEF row
<1>4. row \in Surjection(Ids(rows), rows) /\ row \in Injection(Ids(rows), rows)
  BY <1>1, <1>2, <1>3 DEF Surjection, Injection, IsInjective
<1> QED
  BY <1>4, FS_Surjection

LEMMA IdsOfRows ==
    ASSUME NEW rows, IsFiniteSet(rows)
    PROVE  IsFiniteSet(Ids(rows))
<1> DEFINE id == [r \in rows |-> r[1]]
<1>1. id \in Surjection(rows, Ids(rows))
  BY DEF Surjection, Ids
<1> HIDE DEF id
<1> QED
  BY <1>1, FS_Surjection

LEMMA GatheredInOrder ==
    ASSUME TypeOK, VersionInv, NEW snap \in Snapshots, Whole(snap, log)
    PROVE  InOrder(snap) /\ IsFiniteSet(snap.base \cup snap.delta)
<1> DEFINE known == snap.base \cup snap.delta
<1>1. Gathered(known, snap.at, {}, log) /\ snap.at \in 1..Len(log)
  BY DEF Whole
<1>2. PICK k \in snap.at..Len(log) : Ids(known) = Ids(log[k].rows)
  BY <1>1 DEF Gathered
<1>3. k \in 1..Len(log) /\ nextRow \in Nat /\ Ids(log[k].rows) \subseteq 0..(nextRow - 1)
  BY <1>1, <1>2, ObserverTypes
<1>4. IsFiniteSet(known)
  <2>1. IsFiniteSet(Ids(known))
    BY <1>2, <1>3, IdsOfRows DEF VersionInv, LogGrows
  <2> HIDE DEF known
  <2> QED
    BY <1>1, <2>1, RowsOfIds DEF Gathered
<1>5. \A i \in Ids(known) : i < nextRow
  BY <1>2, <1>3
<1> QED
  BY <1>4, <1>5 DEF Whole, InOrder

(* The rows of a snapshot come before those of its delta, and these before the rows a
   scan finds. *)
LEMMA ScanOrder ==
    ASSUME TypeOK, NEW snap \in Snapshots, InOrder(snap)
    PROVE  /\ NextWatermark(snap, snap.delta) \in Nat /\ snap.watermark \in Nat
           /\ snap.watermark <= NextWatermark(snap, snap.delta)
           /\ \A r \in snap.base : r[1] < snap.watermark
           /\ \A r \in snap.delta : /\ r[1] >= snap.watermark
                                    /\ r[1] < NextWatermark(snap, snap.delta)
<1>1. /\ snap.base \in SUBSET Row /\ snap.delta \in SUBSET Row /\ nextRow \in Nat
      /\ \A i \in Ids(snap.base) : i < nextRow
      /\ \A i \in Ids(snap.delta) : i < nextRow
  <2>1. snap.base \in SUBSET Row /\ snap.delta \in SUBSET Row
    BY DEF Snapshots
  <2>2. Ids(snap.base) \cup Ids(snap.delta) = Ids(snap.base \cup snap.delta)
    BY DEF Ids
  <2> QED
    BY <2>1, <2>2, ObserverTypes DEF InOrder
<1>3. /\ snap.watermark = Watermark(snap.base) /\ snap.watermark \in Nat
      /\ \A r \in snap.base : r[1] < snap.watermark
  BY <1>1, WatermarkAbove DEF InOrder
<1>4. \A r \in snap.delta : r[1] >= snap.watermark /\ r[1] \in Nat
  BY <1>1 DEF InOrder, Row
<1>5. Watermark(snap.delta) \in Nat /\ \A r \in snap.delta : r[1] < Watermark(snap.delta)
  BY <1>1, WatermarkAbove
<1>6. CASE snap.delta = {}
  BY <1>3, <1>6 DEF NextWatermark
<1>7. CASE snap.delta # {}
  <2>1. NextWatermark(snap, snap.delta) = Watermark(snap.delta)
    BY <1>7 DEF NextWatermark
  <2>2. snap.watermark <= Watermark(snap.delta)
    <3>1. PICK r \in snap.delta : TRUE
      BY <1>7
    <3>2. r[1] \in Nat /\ r[1] >= snap.watermark /\ r[1] < Watermark(snap.delta)
      BY <1>4, <1>5
    <3> QED
      BY <1>3, <1>5, <3>2
  <2> QED
    BY <1>3, <1>4, <1>5, <2>1, <2>2
<1> QED
  BY <1>6, <1>7

(* A scan that adds up: the rows it finds are none it had, and together they are as many
   as the table's. *)
LEMMA ScanCounts ==
    ASSUME TypeOK, VersionInv, NEW snap \in Snapshots, InOrder(snap),
           IsFiniteSet(snap.base \cup snap.delta), ScanFits(snap, snap.delta),
           NEW found, found = ScanFinds(snap, snap.delta)
    PROVE  LET known == snap.base \cup snap.delta
           IN  /\ IsFiniteSet(known \cup found) /\ IsFiniteSet(Table.rows)
               /\ Cardinality(known \cup found) = Cardinality(Table.rows)
               /\ found \subseteq Table.rows
               /\ \A r \in known, q \in found : r[1] # q[1]
               /\ \A r \in snap.delta \cup found : r[1] >= snap.watermark
<1> DEFINE known == snap.base \cup snap.delta
<1>1. /\ found \subseteq Table.rows /\ IsFiniteSet(Table.rows) /\ IsFiniteSet(known)
      /\ \A r \in found : r[1] >= NextWatermark(snap, snap.delta) /\ r[1] \in Nat
  BY ObserverTypes DEF ScanFinds, Row, VersionInv, LogGrows
<1>2. Cardinality(snap.base) + Cardinality(snap.delta) + Cardinality(found)
         = Cardinality(Table.rows)
  BY DEF ScanFits
<1>4. \A r \in known : r[1] \in Nat /\ r[1] < NextWatermark(snap, snap.delta)
  <2>1. \A r \in known : r[1] \in Nat
    BY DEF Snapshots, Row
  <2> QED
    BY <2>1, ScanOrder
<1>5. snap.base \cap snap.delta = {} /\ \A r \in known, q \in found : r[1] # q[1]
  <2>1. snap.base \cap snap.delta = {}
    <3>1. \A r \in snap.base : r[1] \in Nat
      BY <1>4
    <3> QED
      BY <3>1, ScanOrder
  <2>2. \A r \in known, q \in found : r[1] # q[1]
    BY <1>1, <1>4, ScanOrder
  <2> QED
    BY <2>1, <2>2
<1>6. IsFiniteSet(snap.base) /\ IsFiniteSet(snap.delta) /\ IsFiniteSet(found)
  BY <1>1, FS_Subset
<1>7. Cardinality(known) = Cardinality(snap.base) + Cardinality(snap.delta)
  <2>1. Cardinality(known) = Cardinality(snap.base) + Cardinality(snap.delta)
                               - Cardinality(snap.base \cap snap.delta)
    BY <1>6, FS_Union
  <2>2. Cardinality(snap.base \cap snap.delta) = 0
    BY <1>5, FS_EmptySet
  <2>3. Cardinality(snap.base) \in Nat /\ Cardinality(snap.delta) \in Nat
    BY <1>6, FS_CardinalityType
  <2> QED
    BY <2>1, <2>2, <2>3
<1>8. Cardinality(known \cup found) = Cardinality(Table.rows) /\ IsFiniteSet(known \cup found)
  <2>1. /\ Cardinality(known \cup found) = Cardinality(known) + Cardinality(found)
                                             - Cardinality(known \cap found)
        /\ IsFiniteSet(known \cup found)
    BY <1>1, <1>6, FS_Union
  <2>2. Cardinality(known \cap found) = 0
    <3>1. known \cap found = {}
      BY <1>5
    <3> QED
      BY <3>1, FS_EmptySet
  <2>3. Cardinality(known) \in Nat /\ Cardinality(found) \in Nat
    BY <1>1, <1>6, FS_CardinalityType
  <2> QED
    BY <1>2, <1>7, <2>1, <2>2, <2>3
<1>9. \A r \in snap.delta \cup found : r[1] >= snap.watermark
  BY <1>1, ScanOrder
<1> QED
  BY <1>1, <1>5, <1>8, <1>9

(* While only inserts follow, rows a scan does not find are rows it counts: one that adds
   up has them all. *)
LEMMA ScanExact ==
    ASSUME TypeOK, VersionInv, NEW snap \in Snapshots, InsertsSince(snap.at, log),
           Describes(snap, log), ScanFits(snap, snap.delta)
    PROVE  /\ snap.base \cup (snap.delta \cup ScanFinds(snap, snap.delta)) = Table.rows
           /\ \A r \in snap.delta \cup ScanFinds(snap, snap.delta) : r[1] >= snap.watermark
<1> DEFINE found == ScanFinds(snap, snap.delta)
           known == snap.base \cup snap.delta
<1>1. /\ Cardinality(known \cup found) = Cardinality(Table.rows)
      /\ IsFiniteSet(Table.rows) /\ found \subseteq Table.rows
      /\ \A r \in snap.delta \cup found : r[1] >= snap.watermark
  BY ScanCounts, DescribedInOrder
<1> HIDE DEF found
<1>2. known \subseteq Table.rows
  <2>1. snap.at \in Nat
    BY DEF Snapshots
  <2> QED
    BY <2>1, VersionInTable DEF Describes
<1>3. known \cup found = Table.rows
  BY <1>1, <1>2, FS_Subset
<1> QED
  BY <1>1, <1>3 DEF found

(* Where nothing is deleted the ids are counted instead: rows may have been updated since,
   but one scan that adds up has a row of every id the table has. *)
LEMMA ScanGathers ==
    ASSUME TypeOK, VersionInv, NothingDeleted, NEW snap \in Snapshots, Whole(snap, log),
           ScanFits(snap, snap.delta), NEW commits \in SUBSET (1..Len(log)),
           NEW found, found = ScanFinds(snap, snap.delta)
    PROVE  /\ Gathered(snap.base \cup (snap.delta \cup found), snap.at, commits, log)
           /\ \A r \in snap.delta \cup found : r[1] >= snap.watermark
<1> DEFINE known == snap.base \cup snap.delta
           rows == snap.base \cup (snap.delta \cup found)
<1>1. /\ rows = known \cup found
      /\ Cardinality(rows) = Cardinality(Table.rows)
      /\ IsFiniteSet(rows) /\ IsFiniteSet(Table.rows) /\ found \subseteq Table.rows
      /\ \A r \in known, q \in found : r[1] # q[1]
      /\ \A r \in snap.delta \cup found : r[1] >= snap.watermark
  <2>1. rows = known \cup found
    OBVIOUS
  <2> QED
    BY <2>1, ScanCounts, GatheredInOrder
<1>2. Gathered(known, snap.at, {}, log) /\ snap.at \in 1..Len(log)
  BY DEF Whole
<1>3. /\ Len(log) \in snap.at..Len(log) /\ Table = log[Len(log)] /\ Len(log) \in 1..Len(log)
      /\ \A j \in commits : j <= Len(log)
  BY <1>2, ObserverTypes
<1> HIDE DEF known, rows
<1>4. OneRowEach(rows)
  <2>1. OneRowEach(known) /\ OneRowEach(Table.rows)
    BY <1>2, <1>3 DEF Gathered, VersionInv, LogGrows
  <2> QED
    BY <1>1, <2>1 DEF OneRowEach
<1>5. \A r \in rows : \E j \in snap.at..Len(log) : r \in log[j].rows
  BY <1>1, <1>2, <1>3 DEF Gathered
<1>6. Ids(rows) \subseteq Ids(Table.rows)
  <2>1. PICK k \in snap.at..Len(log) : Ids(known) = Ids(log[k].rows)
    BY <1>2 DEF Gathered
  <2>2. k \in 1..Len(log) /\ (k = Len(log) \/ k < Len(log))
    BY <1>2, <1>3
  <2>3. Ids(log[k].rows) \subseteq Ids(Table.rows)
    BY <1>3, <2>2 DEF VersionInv, LogGrows
  <2>4. Ids(rows) = Ids(known) \cup Ids(found) /\ Ids(found) \subseteq Ids(Table.rows)
    BY <1>1 DEF Ids
  <2> QED
    BY <2>1, <2>3, <2>4
<1>7. Ids(rows) = Ids(Table.rows)
  <2>1. IsFiniteSet(Ids(rows)) /\ IsFiniteSet(Ids(Table.rows)) /\ OneRowEach(Table.rows)
    BY <1>1, <1>3, IdsOfRows DEF VersionInv, LogGrows
  <2>2. Cardinality(Ids(rows)) = Cardinality(Ids(Table.rows))
    BY <1>1, <1>4, <2>1, RowsOfIds
  <2> QED
    BY <1>6, <2>1, <2>2, FS_Subset
<1>8. Gathered(rows, snap.at, commits, log)
  BY <1>3, <1>4, <1>5, <1>7 DEF Gathered
<1> QED
  BY <1>1, <1>8 DEF rows

-----------------------------------------------------------------------------
(* Sessions. *)

(* A session's step commits nothing and acknowledges nothing. *)
LEMMA SessionLeaves ==
    ASSUME NEW s \in Sessions, SessionStep(s)
    PROVE  /\ UNCHANGED <<tableVars, writerVars>>
           /\ dbGen' = dbGen \/ dbGen' = dbGen + 1
           /\ saved' \subseteq saved \/ SaveWrite(s)
           /\ ~Dropping(s) /\ ~SaveWrite(s) => dbGen' = dbGen
BY DEF SessionStep, Resolving, Begin, ReadVersion, Find, LoadCheck, LoadRead, LoadStamp,
       LoadPublish, LockCatchUp, CheckSynced, Scan, StoreDelta, Claim, Wait, BuildGenerations,
       BuildRead, BuildValidate, BuildThrows, Publish, Release, ReleaseFailed, SaveFlag, SaveWrite,
       SaveCheck, Unsave, Reacquire, Finish, Dropping, DropSavedCsrs, DropCheck, DropSelect,
       DropFoundNone, DropDelete, InvalidateCache, observerVars, tableVars, genVars, savedVars,
       writerVars

(* What such a step owes the invariant. *)
LEMMA SessionKeeps ==
    ASSUME TypeOK, TypeOK', VersionInv, NEW s \in Sessions, SessionStep(s), Others(s),
           \A t \in Sessions \ {s} :
              spc[t] \in CatchUpPlaces => snaps'[call[t].snap] = snaps[call[t].snap],
           \A i \in 1..Len(snaps) : snaps'[i].at = snaps[i].at,
           SavedDescribes',
           \A i \in 1..Len(snaps') : Sound(snaps'[i], log, acked, dbGen'),
           Reads(call'[s], spc'[s], snaps', log, acked, dbGen')
    PROVE  VersionInv'
<1>1. /\ UNCHANGED <<tableVars, writerVars>> /\ Tells(acked, dbGen, acked, dbGen', log)
      /\ Extends(log, log) /\ dbGen \in Nat /\ dbGen' \in Nat
  BY SessionLeaves, ObserverTypes DEF Tells, Extends
<1>2. LogGrows' /\ WritersReserve'
  <2>1. LogGrows'
    BY <1>1, SameLog DEF VersionInv, tableVars
  <2> QED
    BY <1>1, <2>1 DEF VersionInv, WritersReserve, tableVars, writerVars
<1>3. ASSUME NEW t \in Sessions \ {s}
      PROVE  Reads(call'[t], spc'[t], snaps', log, acked, dbGen')
  <2>1. call'[t] = call[t] /\ spc'[t] = spc[t] /\ call[t] \in Calls
    BY CallTyped DEF Others
  <2>2. spc[t] \in CatchUpPlaces => snaps[call[t].snap] \in Snapshots
    BY CatchUpSnapshot DEF CatchUpPlaces
  <2>3. Reads(call[t], spc[t], snaps, log, acked, dbGen)
    BY DEF VersionInv
  <2>4. call[t].lease.snap # 0 => /\ snaps[call[t].lease.snap].at \in Nat
                                  /\ snaps'[call[t].lease.snap].at = snaps[call[t].lease.snap].at
    BY LeasedSnapshot
  <2> QED
    BY <1>1, <2>1, <2>2, <2>3, <2>4, ReadsStays, ObserverTypes
<1> QED
  BY <1>1, <1>2, <1>3 DEF VersionInv, tableVars

(* The snapshots are as sound as they were when the generation advances. *)
LEMMA SnapshotsSound ==
    ASSUME TypeOK, TypeOK', VersionInv, NEW s \in Sessions, SessionStep(s)
    PROVE  \A i \in 1..Len(snaps) : Sound(snaps[i], log, acked, dbGen')
<1>1. /\ Tells(acked, dbGen, acked, dbGen', log) /\ Extends(log, log)
      /\ dbGen \in Nat /\ dbGen' \in Nat
  BY SessionLeaves, ObserverTypes DEF Tells, Extends
<1> SUFFICES ASSUME NEW i \in 1..Len(snaps)
             PROVE  Sound(snaps[i], log, acked, dbGen')
  OBVIOUS
<1>2. snaps[i] \in Snapshots
  BY SnapsLength DEF TypeOK
<1>3. snaps[i].synced \in Int /\ snaps[i].at \in Nat
  BY <1>2 DEF Snapshots, NeverSynced
<1> QED
  BY <1>1, <1>3, SoundStays, ObserverTypes DEF VersionInv

(* A step that changes no snapshot and saves none. *)
LEMMA SnapshotsSame ==
    ASSUME TypeOK, TypeOK', VersionInv, NEW s \in Sessions, SessionStep(s), ~SaveWrite(s),
           Others(s), snaps' = snaps, Reads(call'[s], spc'[s], snaps, log, acked, dbGen')
    PROVE  VersionInv'
<1>1. SavedDescribes'
  BY SessionLeaves DEF VersionInv, SavedDescribes, tableVars
<1> QED
  BY <1>1, SessionKeeps, SnapshotsSound

(* A step that publishes one. *)
LEMMA SnapshotAdded ==
    ASSUME TypeOK, TypeOK', VersionInv, NEW s \in Sessions, SessionStep(s), ~SaveWrite(s),
           Others(s), NEW new \in Snapshots, snaps' = snaps \/ snaps' = Append(snaps, new),
           Sound(new, log, acked, dbGen'), Reads(call'[s], spc'[s], snaps', log, acked, dbGen')
    PROVE  VersionInv'
<1>1. SavedDescribes'
  BY SessionLeaves DEF VersionInv, SavedDescribes, tableVars
<1>2. /\ \A i \in 1..Len(snaps) : snaps'[i] = snaps[i]
      /\ \A t \in Sessions \ {s} :
            spc[t] \in CatchUpPlaces => snaps'[call[t].snap] = snaps[call[t].snap]
  BY KeptSame, CatchUpSnapshot DEF CatchUpPlaces, SnapshotsKept
<1>3. \A i \in 1..Len(snaps') : Sound(snaps'[i], log, acked, dbGen')
  <2>1. snaps \in Seq(Snapshots) /\ Len(snaps) \in Nat
    BY CallTyped
  <2> QED
    BY <2>1, SnapshotsSound
<1> QED
  BY <1>1, <1>2, <1>3, SessionKeeps

(* What a statement keeps that only moves on. *)
MovesOn(s) ==
    /\ call'[s].op = call[s].op /\ call'[s].since = call[s].since
    /\ call'[s].work \in {call[s].work, NoSnapshot}
    /\ call'[s].lease = call[s].lease \/ call'[s].lease.snap = 0
    /\ spc'[s] \in PlainPlaces

LEMMA MovesTo ==
    ASSUME TypeOK, NEW s \in Sessions, NEW c, NEW p \in PlainPlaces,
           call' = [call EXCEPT ![s] = c], Goto(s, p),
           c.op = call[s].op, c.since = call[s].since, c.work \in {call[s].work, NoSnapshot},
           c.lease = call[s].lease \/ c.lease.snap = 0
    PROVE  MovesOn(s)
<1>1. call'[s] = c /\ spc'[s] = p
  BY Called, Moved
<1> QED
  BY <1>1 DEF MovesOn

(* The places of a query or a build that has no snapshot in hand. *)
LEMMA FindMoves ==
    ASSUME TypeOK, NEW s \in Sessions, call[s].op \notin ArraysOnly, Find(s)
    PROVE  MovesOn(s) /\ ~Leases(s)
<1>1. PICK p \in {"load", "lock"} :
         /\ \E i : call' = [call EXCEPT ![s] = [call[s] EXCEPT !.version = 0, !.snap = i]]
         /\ Goto(s, p)
  <2>1. call[s].op \notin {"algorithm", "narrow", "unchanged"}
    BY DEF ArraysOnly
  <2>2. PICK p \in {"load", "lock"} : Goto(s, p) /\ (\E i : Looked(s, i))
    BY <2>1 DEF Find
  <2>3. ASSUME NEW i, Looked(s, i)
        PROVE  call' = [call EXCEPT ![s] = [call[s] EXCEPT !.version = 0, !.snap = i]]
    BY <2>3, CallTyped DEF Looked
  <2> QED
    BY <2>2, <2>3
<1>2. MovesOn(s)
  <2>0. PICK i : call' = [call EXCEPT ![s] = [call[s] EXCEPT !.version = 0, !.snap = i]]
    BY <1>1
  <2> DEFINE c == [call[s] EXCEPT !.version = 0, !.snap = i]
  <2>1. c.op = call[s].op /\ c.since = call[s].since /\ c.work = call[s].work
        /\ c.lease = call[s].lease
    BY CallTyped DEF Calls
  <2>2. call' = [call EXCEPT ![s] = c]
    BY <2>0
  <2> HIDE DEF c
  <2> QED
    BY <1>1, <2>1, <2>2, MovesTo DEF PlainPlaces
<1>3. spc'[s] \in {"load", "lock"}
  BY <1>1, Moved
<1> QED
  BY <1>2, <1>3, LeaseLocals

LEMMA PlainMoves ==
    ASSUME TypeOK, NEW s \in Sessions,
           \/ ReadVersion(s) \/ LoadCheck(s) \/ Claim(s) \/ Wait(s) \/ BuildThrows(s) \/ Release(s)
           \/ ReleaseFailed(s) \/ SaveFlag(s) \/ SaveWrite(s) \/ SaveCheck(s) \/ Unsave(s)
           \/ Reacquire(s)
           \/ Scan(s) /\ ~ScanFits(snaps[call[s].snap], call[s].rows)
    PROVE  MovesOn(s)
<1>0. CASE \/ Wait(s) \/ BuildThrows(s) \/ SaveFlag(s) \/ SaveWrite(s) \/ SaveCheck(s)
          \/ Unsave(s) \/ (LoadCheck(s) /\ call' = call)
  <2>1. PICK p \in PlainPlaces : Goto(s, p)
    BY <1>0 DEF LoadCheck, NotLoaded, Wait, BuildThrows, SaveFlag, SaveWrite, SaveCheck, Unsave,
                PlainPlaces
  <2>2. call' = [call EXCEPT ![s] = call[s]]
    BY <1>0, CallTyped DEF Wait, BuildThrows, SaveFlag, SaveWrite, SaveCheck, Unsave
  <2> QED
    BY <2>1, <2>2, MovesTo
<1>1. CASE ReadVersion(s)
  <2>1. PICK v : call' = [call EXCEPT ![s] = [call[s] EXCEPT !.version = v]]
    BY <1>1 DEF ReadVersion
  <2> DEFINE c == [call[s] EXCEPT !.version = v]
  <2>2. c.op = call[s].op /\ c.since = call[s].since /\ c.work = call[s].work
        /\ c.lease = call[s].lease
    BY CallTyped DEF Calls
  <2>3. call' = [call EXCEPT ![s] = c]
    BY <2>1
  <2>4. Goto(s, "find")
    BY <1>1 DEF ReadVersion
  <2> HIDE DEF c
  <2> QED
    BY <2>2, <2>3, <2>4, MovesTo DEF PlainPlaces
<1>2. CASE LoadCheck(s) /\ call' # call
  <2> DEFINE c == [call[s] EXCEPT !.gen = dbGen]
  <2>1. call' = [call EXCEPT ![s] = c] /\ Goto(s, "load_read")
    BY <1>2 DEF LoadCheck
  <2>2. c.op = call[s].op /\ c.since = call[s].since /\ c.work = call[s].work
        /\ c.lease = call[s].lease
    BY CallTyped DEF Calls
  <2> HIDE DEF c
  <2> QED
    BY <2>1, <2>2, MovesTo DEF PlainPlaces
<1>3. CASE Claim(s)
  <2>1. PICK claimed \in BOOLEAN, p \in {"wait", "generations"} :
           /\ call' = [call EXCEPT ![s] = [call[s] EXCEPT !.rebuilt = TRUE, !.claimed = claimed]]
           /\ Goto(s, p)
    <3>1. [call[s] EXCEPT !.rebuilt = TRUE]
             = [call[s] EXCEPT !.rebuilt = TRUE, !.claimed = call[s].claimed]
      BY CallTyped DEF Calls
    <3>2. CASE building
      <4>1. call' = [call EXCEPT ![s] = [call[s] EXCEPT !.rebuilt = TRUE]] /\ Goto(s, "wait")
        BY <1>3, <3>2 DEF Claim, BuildInProgress
      <4> QED
        BY <3>1, <4>1, CallTyped
    <3>3. CASE ~building
      <4>1. /\ call' = [call EXCEPT ![s] = [call[s] EXCEPT !.rebuilt = TRUE, !.claimed = TRUE]]
            /\ Goto(s, "generations")
        BY <1>3, <3>3, CallTyped DEF Claim, BuildInProgress
      <4> QED
        BY <4>1
    <3> QED
      BY <3>2, <3>3
  <2> DEFINE c == [call[s] EXCEPT !.rebuilt = TRUE, !.claimed = claimed]
  <2>2. c.op = call[s].op /\ c.since = call[s].since /\ c.work = call[s].work
        /\ c.lease = call[s].lease
    BY CallTyped DEF Calls
  <2>3. call' = [call EXCEPT ![s] = c]
    BY <2>1
  <2> HIDE DEF c
  <2> QED
    BY <2>1, <2>2, <2>3, MovesTo DEF PlainPlaces
<1>4. CASE Release(s) \/ ReleaseFailed(s)
  <2>1. PICK work \in {call[s].work, NoSnapshot}, p \in {"version", "failed"} :
           /\ call' = [call EXCEPT ![s] = [call[s] EXCEPT !.claimed = FALSE, !.work = work]]
           /\ Goto(s, p)
    <3>1. [call[s] EXCEPT !.claimed = FALSE]
             = [call[s] EXCEPT !.claimed = FALSE, !.work = call[s].work]
      BY CallTyped DEF Calls
    <3>2. CASE Release(s)
      BY <3>1, <3>2 DEF Release
    <3>3. CASE ReleaseFailed(s)
      BY <3>3, CallTyped DEF ReleaseFailed
    <3> QED
      BY <1>4, <3>2, <3>3
  <2> DEFINE c == [call[s] EXCEPT !.claimed = FALSE, !.work = work]
  <2>2. c.op = call[s].op /\ c.since = call[s].since /\ c.work = work
        /\ c.lease = call[s].lease
    BY CallTyped DEF Calls
  <2>3. call' = [call EXCEPT ![s] = c]
    BY <2>1
  <2> HIDE DEF c
  <2> QED
    BY <2>1, <2>2, <2>3, MovesTo DEF PlainPlaces
<1>5. CASE Reacquire(s)
  <2>1. CASE Reusable(snaps[call[s].lease.snap])
    <3> DEFINE c == [call[s] EXCEPT !.acquires = @ + 1]
    <3>1. call' = [call EXCEPT ![s] = c] /\ spc'[s] \in PlainPlaces
      BY <1>5, <2>1 DEF Reacquire, At, PlainPlaces
    <3>2. c.op = call[s].op /\ c.since = call[s].since /\ c.work = call[s].work
          /\ c.lease = call[s].lease
      BY CallTyped DEF Calls
    <3> HIDE DEF c
    <3>3. call'[s] = c
      BY <3>1, Called
    <3> QED
      BY <3>1, <3>2, <3>3 DEF MovesOn
  <2>2. CASE ~Reusable(snaps[call[s].lease.snap])
    <3> DEFINE c == [call[s] EXCEPT !.lease = NoLease, !.rebuilt = FALSE]
    <3>1. call' = [call EXCEPT ![s] = c] /\ Goto(s, "version")
      BY <1>5, <2>2, CallTyped DEF Reacquire
    <3>2. c.op = call[s].op /\ c.since = call[s].since /\ c.work = call[s].work
          /\ c.lease.snap = 0
      BY CallTyped DEF Calls, NoLease
    <3> HIDE DEF c
    <3> QED
      BY <3>1, <3>2, MovesTo DEF PlainPlaces
  <2> QED
    BY <2>1, <2>2
<1>6. CASE Scan(s) /\ ~ScanFits(snaps[call[s].snap], call[s].rows)
  <2> DEFINE c == [call[s] EXCEPT !.rows = {}, !.snap = 0, !.gen = 0]
  <2>1. call' = [call EXCEPT ![s] = c]
    BY <1>6, CallTyped DEF Scan, Rebuild
  <2>2. PICK p \in {"outrun", "claim"} : Goto(s, p)
    BY <1>6 DEF Scan, Rebuild
  <2>3. c.op = call[s].op /\ c.since = call[s].since /\ c.work = call[s].work
        /\ c.lease = call[s].lease
    BY CallTyped DEF Calls
  <2> HIDE DEF c
  <2> QED
    BY <2>1, <2>2, <2>3, MovesTo DEF PlainPlaces
<1> QED
  BY <1>0, <1>1, <1>2, <1>3, <1>4, <1>5, <1>6

(* Such a step keeps the invariant; SaveWrite saves a snapshot that describes a commit. *)
LEMMA PlainVersion ==
    ASSUME TypeOK, TypeOK', VersionInv, NEW s \in Sessions, SessionStep(s), ~SaveWrite(s),
           MovesOn(s), Others(s), snaps' = snaps
    PROVE  VersionInv'
<1>1. Reads(call[s], spc[s], snaps, log, acked, dbGen)
  BY DEF VersionInv
<1>2. Reads(call'[s], spc'[s], snaps, log, acked, dbGen')
  BY <1>1, PlainReads DEF MovesOn
<1> QED
  BY <1>2, SnapshotsSame

LEMMA SaveVersion ==
    ASSUME TypeOK, TypeOK', VersionInv, NEW s \in Sessions, SessionStep(s), SaveWrite(s)
    PROVE  VersionInv'
<1>1. Others(s) /\ snaps' = snaps /\ MovesOn(s)
  BY PlainMoves, QuietLocals DEF Quiet
<1>2. Reads(call[s], spc[s], snaps, log, acked, dbGen)
  BY DEF VersionInv
<1>3. Reads(call'[s], spc'[s], snaps, log, acked, dbGen')
  BY <1>1, <1>2, PlainReads DEF MovesOn
<1>4. SavedDescribes'
  <2>1. call[s].lease.snap \in 1..Len(snaps)
    BY CallFields, SnapsLength DEF SaveWrite, At, TypeOK, SessionTypeOK
  <2>2. Sound(snaps[call[s].lease.snap], log, acked, dbGen)
    BY <2>1 DEF VersionInv
  <2>3. log' = log
    BY SessionLeaves DEF tableVars
  <2>4. ASSUME NEW copy \in saved'
        PROVE  /\ copy.base = snaps[call[s].lease.snap].base
               /\ copy.watermark = snaps[call[s].lease.snap].watermark
    BY DEF SaveWrite
  <2> DEFINE snap == snaps[call[s].lease.snap]
  <2>5. snap.at \in Nat
    BY <2>1, SnapsLength DEF TypeOK, Snapshots
  <2>6. ASSUME InsertsSince(0, log)
        PROVE  Version(snap.base, 0, {}, log) /\ snap.watermark = Watermark(snap.base)
    <3>1. InsertsSince(snap.at, log)
      BY <2>5, <2>6, ObserverTypes DEF InsertsSince
    <3>2. Version(snap.base, snap.at, {}, log) /\ snap.watermark = Watermark(snap.base)
      BY <2>2, <3>1 DEF Sound, Describes
    <3> QED
      BY <3>2 DEF Version
  <2> QED
    BY <2>3, <2>4, <2>6 DEF SavedDescribes
<1> QED
  BY <1>1, <1>3, <1>4, SessionKeeps, SnapshotsSound

(* A statement begins with all that is acknowledged, and ends with nothing. *)
LEMMA BeginVersion ==
    ASSUME TypeOK, TypeOK', VersionInv, NEW s \in Sessions, SessionStep(s),
           NEW op \in Operations, Begin(s, op)
    PROVE  VersionInv'
<1> DEFINE c == [NoCall EXCEPT !.op = op, !.since = acked]
<1>1. call[s] = NoCall
  BY DEF Begin, At, VersionInv, Reads
<1>2. call' = [call EXCEPT ![s] = c]
  BY <1>1, CallTyped DEF Begin
<1>3. /\ c.op = op /\ c.since = acked /\ c.work = NoSnapshot /\ c.lease.snap = 0
      /\ NoSnapshot.delta = {}
  BY DEF NoCall, NoLease, NoSnapshot
<1> HIDE DEF c
<1>4. call'[s] = c
  BY <1>2, Called
<1>5. PICK p \in {"generations", "version"} : Goto(s, p)
  BY DEF Begin
<1>6. spc'[s] \in {"generations", "version"}
  BY <1>5, Moved
<1>7. Reads(call'[s], spc'[s], snaps, log, acked, dbGen')
  BY <1>3, <1>4, <1>6 DEF Reads, CatchUpPlaces
<1>8. Others(s) /\ snaps' = snaps /\ ~SaveWrite(s)
  BY QuietLocals DEF Quiet, Begin, SaveWrite, At
<1> QED
  BY <1>7, <1>8, SnapshotsSame

LEMMA FinishVersion ==
    ASSUME TypeOK, TypeOK', VersionInv, NEW s \in Sessions, SessionStep(s), Finish(s)
    PROVE  VersionInv'
<1>1. Others(s) /\ snaps' = snaps /\ ~SaveWrite(s)
  BY LeaseLocals DEF Finish, storageVars, SaveWrite, At
<1>2. call'[s] = NoCall /\ spc'[s] = "idle"
  BY Called, Moved DEF Finish
<1>3. /\ NoCall.op = "none" /\ NoCall.since = {} /\ NoCall.work.delta = {}
      /\ NoCall.lease.snap = 0
  BY DEF NoCall, NoSnapshot, NoLease
<1>4. Reads(call'[s], spc'[s], snaps, log, acked, dbGen')
  BY <1>2, <1>3 DEF Reads, CatchUpPlaces
<1> QED
  BY <1>1, <1>4, SnapshotsSame

-----------------------------------------------------------------------------
(* Sessions: the snapshots they make. *)

(* What is loaded describes a commit, and is not synced. *)
LEMMA LoadVersion ==
    ASSUME TypeOK, TypeOK', VersionInv, NEW s \in Sessions, SessionStep(s), LoadRead(s)
    PROVE  VersionInv'
<1>1. Others(s) /\ snaps' = snaps /\ ~SaveWrite(s)
  BY LoadLocals DEF LoadRead, SaveWrite, At
<1>2. Reads(call[s], spc[s], snaps, log, acked, dbGen)
  BY DEF VersionInv
<1>3. CASE saved = {}
  <2> DEFINE c == [call[s] EXCEPT !.gen = 0]
  <2>1. call' = [call EXCEPT ![s] = c]
    BY <1>3 DEF LoadRead
  <2>2. PICK p \in {"claim", "failed"} : Goto(s, p)
    BY <1>3 DEF LoadRead, NotLoaded
  <2>3. c.op = call[s].op /\ c.since = call[s].since /\ c.work = call[s].work
        /\ c.lease = call[s].lease
    BY CallTyped DEF Calls
  <2> HIDE DEF c
  <2>4. MovesOn(s)
    BY <2>1, <2>2, <2>3, MovesTo DEF PlainPlaces
  <2> QED
    BY <1>1, <2>4, PlainVersion
<1>4. CASE saved # {}
  <2>1. PICK copy \in saved :
           call' = [call EXCEPT ![s].gen = 0, ![s].work = [NoSnapshot EXCEPT
                       !.base = copy.base, !.version = copy.version,
                       !.watermark = copy.watermark, !.full = TRUE, !.disk = TRUE]]
    BY <1>4 DEF LoadRead
  <2> DEFINE work == [NoSnapshot EXCEPT !.base = copy.base, !.version = copy.version,
                          !.watermark = copy.watermark, !.full = TRUE, !.disk = TRUE]
             c == [call[s] EXCEPT !.gen = 0, !.work = work]
  <2>2. /\ work.base = copy.base /\ work.watermark = copy.watermark /\ work.delta = {}
        /\ work.at = 0 /\ work.synced = -1
    BY DEF NoSnapshot, NeverSynced
  <2>3. Sound(work, log, acked, dbGen)
    <3>1. InsertsSince(0, log) =>
             Version(copy.base, 0, {}, log) /\ copy.watermark = Watermark(copy.base)
      BY DEF VersionInv, SavedDescribes
    <3>2. copy.base \cup {} = copy.base
      OBVIOUS
    <3> HIDE DEF work
    <3> QED
      BY <2>2, <3>1, <3>2, ObserverTypes DEF Sound, Describes, Complete
  <2>4. call' = [call EXCEPT ![s].gen = 0, ![s].work = work] /\ Goto(s, "load_stamp")
    BY <1>4, <2>1 DEF LoadRead
  <2> HIDE DEF work
  <2>5. call' = [call EXCEPT ![s] = c]
    BY <2>4, CallTyped
  <2>6. c.op = call[s].op /\ c.since = call[s].since /\ c.work = work
        /\ c.lease = call[s].lease
    BY CallTyped DEF Calls
  <2> HIDE DEF c
  <2>7. call'[s] = c /\ spc'[s] = "load_stamp"
    BY <2>4, <2>5, Called, Moved
  <2>8. Reads(call'[s], spc'[s], snaps, log, acked, dbGen')
    <3>1. dbGen' = dbGen
      BY DEF LoadRead, observerVars, genVars
    <3> QED
      BY <1>2, <2>2, <2>3, <2>6, <2>7, <3>1 DEF Reads, CatchUpPlaces, Serves
  <2> QED
    BY <1>1, <2>8, SnapshotsSame
<1> QED
  BY <1>3, <1>4

(* A statement with a new snapshot in the making. *)
LEMMA MakingVersion ==
    ASSUME TypeOK, TypeOK', VersionInv, NEW s \in Sessions, SessionStep(s), ~SaveWrite(s),
           NEW work, NEW p \in {"load_publish", "read", "validate"}, spc[s] # p,
           call' = [call EXCEPT ![s] = [call[s] EXCEPT !.work = work]], Goto(s, p),
           snaps' = snaps, work.delta = {},
           IF p = "read" THEN work.synced = dbGen ELSE Sound(work, log, acked, dbGen)
    PROVE  VersionInv'
<1> DEFINE c == [call[s] EXCEPT !.work = work]
<1>1. c.op = call[s].op /\ c.since = call[s].since /\ c.work = work /\ c.lease = call[s].lease
  BY CallTyped DEF Calls
<1>2. call' = [call EXCEPT ![s] = c]
  OBVIOUS
<1> HIDE DEF c
<1>3. /\ call'[s] = c /\ spc'[s] = p /\ Others(s)
  BY <1>2, Called, Moved DEF Others
<1>4. Reads(call[s], spc[s], snaps, log, acked, dbGen)
  BY DEF VersionInv
<1>5. dbGen' = dbGen /\ dbGen \in Nat
  BY <1>3, SessionLeaves, ObserverTypes DEF Dropping, sessionVars
<1>6. Reads(call'[s], spc'[s], snaps, log, acked, dbGen')
  BY <1>1, <1>3, <1>4, <1>5 DEF Reads, CatchUpPlaces, Serves
<1> QED
  BY <1>3, <1>6, SnapshotsSame

LEMMA StampVersion ==
    ASSUME TypeOK, TypeOK', VersionInv, NEW s \in Sessions, SessionStep(s), LoadStamp(s)
    PROVE  VersionInv'
<1> DEFINE work == [call[s].work EXCEPT !.write = writeGen, !.table = tableGen,
                                        !.destr = destrGen, !.synced = LoadedSync]
<1>1. /\ work.base = call[s].work.base /\ work.delta = call[s].work.delta
      /\ work.at = call[s].work.at
      /\ work.watermark = call[s].work.watermark /\ work.synced = -1
  BY CallTyped DEF Snapshots, LoadedSync, NeverSynced
<1>2. call' = [call EXCEPT ![s] = [call[s] EXCEPT !.work = work]]
  BY CallTyped DEF LoadStamp
<1> HIDE DEF work
<1>3. /\ Goto(s, "load_publish") /\ spc[s] = "load_stamp" /\ snaps' = snaps /\ ~SaveWrite(s)
  BY DEF LoadStamp, At, storageVars, SaveWrite
<1>4. Sound(call[s].work, log, acked, dbGen) /\ call[s].work.delta = {}
  BY <1>3 DEF VersionInv, Reads
<1>5. Sound(work, log, acked, dbGen)
  <2>1. work.synced # dbGen
    BY <1>1, ObserverTypes
  <2>2. work.synced <= dbGen /\ Complete(work, log, acked, dbGen)
    BY <1>1, <1>4, <2>1, ObserverTypes DEF Sound, Complete, Whole
  <2> QED
    BY <1>1, <1>4, <2>1, <2>2 DEF Sound, Describes
<1> QED
  BY <1>1, <1>2, <1>3, <1>4, <1>5, MakingVersion

(* The generation is recorded before the rows are read, so that what is acknowledged
   while it stands was committed before. *)
LEMMA GenerationsVersion ==
    ASSUME TypeOK, TypeOK', VersionInv, NEW s \in Sessions, SessionStep(s), BuildGenerations(s)
    PROVE  VersionInv'
<1> DEFINE work == [NoSnapshot EXCEPT !.write = writeGen, !.table = tableGen,
                        !.destr = destrGen, !.synced = dbGen, !.full = WantsFull(s)]
<1>1. work.delta = {} /\ work.synced = dbGen
  BY DEF NoSnapshot
<1>2. call' = [call EXCEPT ![s] = [call[s] EXCEPT !.work = work]]
  BY DEF BuildGenerations
<1> HIDE DEF work
<1>3. /\ Goto(s, "read") /\ spc[s] = "generations" /\ snaps' = snaps /\ ~SaveWrite(s)
  BY DEF BuildGenerations, At, storageVars, SaveWrite
<1> QED
  BY <1>1, <1>2, <1>3, MakingVersion

(* The table is the last version. *)
LEMMA TableIsVersion ==
    ASSUME TypeOK, NEW at \in Nat, at <= Len(log), NEW commits \in SUBSET (1..Len(log))
    PROVE  Version(Table.rows, at, commits, log)
<1>1. /\ Len(log) \in 1..Len(log) /\ Table.rows = log[Len(log)].rows
      /\ \A j \in commits : j <= Len(log)
  <2>1. \A j \in 1..Len(log) : j <= Len(log)
    BY ObserverTypes
  <2> QED
    BY <2>1, ObserverTypes
<1> QED
  BY <1>1 DEF Version

LEMMA TableIsGathered ==
    ASSUME TypeOK, VersionInv, NEW commits \in SUBSET (1..Len(log))
    PROVE  Gathered(Table.rows, Len(log), commits, log)
<1>1. /\ Len(log) \in Len(log)..Len(log) /\ Len(log) \in 1..Len(log)
      /\ Table.rows = log[Len(log)].rows
  BY ObserverTypes
<1>2. \A j \in commits : j <= Len(log)
  BY ObserverTypes
<1>3. OneRowEach(Table.rows)
  BY <1>1 DEF VersionInv, LogGrows
<1> QED
  BY <1>1, <1>2, <1>3 DEF Gathered

LEMMA BuildVersion ==
    ASSUME TypeOK, TypeOK', VersionInv, NEW s \in Sessions, SessionStep(s), BuildRead(s)
    PROVE  VersionInv'
<1> DEFINE work == [call[s].work EXCEPT !.base = Table.rows, !.at = Len(log),
                        !.version = Table.version, !.watermark = Watermark(Table.rows)]
<1>1. /\ work.base = Table.rows /\ work.delta = call[s].work.delta
      /\ work.watermark = Watermark(Table.rows) /\ work.synced = call[s].work.synced
      /\ work.at = Len(log)
  BY CallTyped DEF Snapshots
<1>2. call' = [call EXCEPT ![s] = [call[s] EXCEPT !.work = work]]
  BY CallTyped DEF BuildRead
<1> HIDE DEF work
<1>3. /\ Goto(s, "validate") /\ spc[s] = "read" /\ snaps' = snaps /\ ~SaveWrite(s)
  BY DEF BuildRead, At, storageVars, SaveWrite
<1>4. call[s].work.delta = {} /\ call[s].work.synced <= dbGen
  BY <1>3 DEF VersionInv, Reads
<1>5. Sound(work, log, acked, dbGen)
  <2>1. Table.rows \cup {} = Table.rows /\ {} \in SUBSET (1..Len(log))
    OBVIOUS
  <2>2. Complete(work, log, acked, dbGen)
    BY <1>1, <1>4, <2>1, TableIsGathered, ObserverTypes DEF Complete, Whole
  <2> QED
    BY <1>1, <1>4, <2>1, <2>2, TableIsVersion, ObserverTypes DEF Sound, Describes
<1> QED
  BY <1>1, <1>2, <1>3, <1>4, <1>5, MakingVersion

LEMMA ValidateVersion ==
    ASSUME TypeOK, TypeOK', VersionInv, NEW s \in Sessions, SessionStep(s), BuildValidate(s)
    PROVE  VersionInv'
<1>1. /\ Others(s) /\ snaps' = snaps /\ ~SaveWrite(s) /\ spc[s] = "validate"
      /\ call'[s] = call[s] /\ dbGen' = dbGen
  BY QuietLocals DEF Quiet, BuildValidate, SaveWrite, At, observerVars, genVars
<1>2. Reads(call[s], spc[s], snaps, log, acked, dbGen)
  BY DEF VersionInv
<1>3. PICK p \in {"publish", "fail"} : Goto(s, p)
  BY DEF BuildValidate
<1>4. spc'[s] \in {"publish", "fail"}
  BY <1>3, Moved
<1>5. Reads(call'[s], spc'[s], snaps, log, acked, dbGen')
  BY <1>1, <1>2, <1>4 DEF Reads, CatchUpPlaces
<1> QED
  BY <1>1, <1>5, SnapshotsSame

(* A snapshot is published as it was made. *)
LEMMA PublishVersion ==
    ASSUME TypeOK, TypeOK', VersionInv, NEW s \in Sessions, SessionStep(s),
           LoadPublish(s) \/ Publish(s)
    PROVE  VersionInv'
<1>1. /\ Others(s) /\ ~SaveWrite(s) /\ call'[s].work = NoSnapshot
      /\ spc'[s] \in {"version", "lock", "release"}
  BY LoadLocals, BuildLocals DEF LoadPublish, Publish, SaveWrite, At
<1>2. snaps' = snaps \/ snaps' = Append(snaps, call[s].work)
  BY DEF LoadPublish, Publish, PublishSnapshot
<1>3. /\ spc[s] \in {"load_publish", "publish"} /\ dbGen' = dbGen
      /\ Reads(call[s], spc[s], snaps, log, acked, dbGen)
  BY DEF LoadPublish, Publish, At, observerVars, genVars, VersionInv
<1>4. Sound(call[s].work, log, acked, dbGen')
  BY <1>3 DEF Reads
<1>5. call'[s].op = call[s].op /\ call'[s].since = call[s].since /\ call'[s].lease = call[s].lease
  <2>1. ASSUME NEW tried, NEW i,
               call' = [call EXCEPT ![s] = [call[s] EXCEPT !.work = NoSnapshot, !.tried = tried,
                                                           !.snap = i]]
        PROVE  /\ call'[s].op = call[s].op /\ call'[s].since = call[s].since
               /\ call'[s].lease = call[s].lease
    <3> DEFINE c == [call[s] EXCEPT !.work = NoSnapshot, !.tried = tried, !.snap = i]
    <3>1. c.op = call[s].op /\ c.since = call[s].since /\ c.lease = call[s].lease
      BY CallTyped DEF Calls
    <3>2. call'[s] = c
      BY <2>1, Called
    <3> QED
      BY <3>1, <3>2
  <2>2. CASE Publish(s)
    <3>1. [call[s] EXCEPT !.work = NoSnapshot]
             = [call[s] EXCEPT !.work = NoSnapshot, !.tried = call[s].tried, !.snap = call[s].snap]
      BY CallTyped DEF Calls
    <3>2. call' = [call EXCEPT ![s] = [call[s] EXCEPT !.work = NoSnapshot]]
      BY <2>2 DEF Publish
    <3> QED
      BY <2>1, <3>1, <3>2
  <2>3. ASSUME NEW i, Loaded(s, i)
        PROVE  /\ call'[s].op = call[s].op /\ call'[s].since = call[s].since
               /\ call'[s].lease = call[s].lease
    <3>1. /\ [call[s] EXCEPT !.work = NoSnapshot, !.tried = TRUE]
             = [call[s] EXCEPT !.work = NoSnapshot, !.tried = TRUE, !.snap = call[s].snap]
          /\ [call[s] EXCEPT !.work = NoSnapshot, !.snap = i]
             = [call[s] EXCEPT !.work = NoSnapshot, !.tried = call[s].tried, !.snap = i]
      BY CallTyped DEF Calls
    <3>2. \/ call' = [call EXCEPT ![s] = [call[s] EXCEPT !.work = NoSnapshot, !.tried = TRUE]]
          \/ call' = [call EXCEPT ![s] = [call[s] EXCEPT !.work = NoSnapshot, !.snap = i]]
      BY <2>3, CallTyped DEF Loaded
    <3>3. CASE call' = [call EXCEPT ![s] = [call[s] EXCEPT !.work = NoSnapshot, !.tried = TRUE]]
      BY <2>1, <3>1, <3>3
    <3>4. CASE call' = [call EXCEPT ![s] = [call[s] EXCEPT !.work = NoSnapshot, !.snap = i]]
      BY <2>1, <3>1, <3>4
    <3> QED
      BY <3>2, <3>3, <3>4
  <2> QED
    BY <2>2, <2>3 DEF LoadPublish
<1>6. Reads(call'[s], spc'[s], snaps', log, acked, dbGen')
  <2>1. MovesOn(s)
    BY <1>1, <1>5 DEF MovesOn, PlainPlaces
  <2>2. call[s].lease.snap # 0 => snaps'[call[s].lease.snap].at = snaps[call[s].lease.snap].at
    BY <1>2, LeasedSnapshot, KeptSame, CallTyped DEF SnapshotsKept
  <2> QED
    BY <1>3, <2>1, <2>2, PlainReads DEF MovesOn
<1>7. call[s].work \in Snapshots
  BY CallTyped
<1> QED
  BY <1>1, <1>2, <1>4, <1>6, <1>7, SnapshotAdded

-----------------------------------------------------------------------------
(* Sessions: the catch-up. *)

(* A lease of rows the statement may expect. *)
LEMMA LeaseReads ==
    ASSUME TypeOK, VersionInv, NEW s \in Sessions, NEW i, NEW rows, Lease(s, i, rows),
           NEW list, NEW now,
           call[s].op \notin ArraysOnly => Serves(list[i], rows, call[s], log)
    PROVE  Reads(call'[s], spc'[s], list, log, acked, now)
<1> DEFINE c == [NoCall EXCEPT !.op = call[s].op, !.since = call[s].since,
                     !.lease = [snap |-> i, rows |-> rows], !.acquires = call[s].acquires + 1]
<1>1. /\ c.op = call[s].op /\ c.since = call[s].since
      /\ c.lease.snap = i /\ c.lease.rows = rows /\ c.work.delta = {}
  BY DEF NoCall, NoSnapshot
<1>2. call' = [call EXCEPT ![s] = c]
  BY DEF Lease
<1> HIDE DEF c
<1>3. call'[s] = c
  BY <1>2, Called
<1>4. spc'[s] \in {"save", "unsave", "leased"}
  BY CallTyped DEF Lease, Goto
<1>5. Reads(call[s], spc[s], snaps, log, acked, dbGen)
  BY DEF VersionInv
<1> QED
  BY <1>1, <1>3, <1>4, <1>5 DEF Reads, CatchUpPlaces, Serves

(* The generation is read under the lock: a snapshot that is synced with it has all that
   was acknowledged before the statement. *)
LEMMA LockVersion ==
    ASSUME TypeOK, TypeOK', VersionInv, NEW s \in Sessions, SessionStep(s), LockCatchUp(s)
    PROVE  VersionInv'
<1>1. Others(s) /\ snaps' = snaps /\ ~SaveWrite(s) /\ dbGen' = dbGen
  BY QuietLocals DEF Quiet, LockCatchUp, SaveWrite, At, observerVars, genVars
<1>2. Reads(call[s], spc[s], snaps, log, acked, dbGen)
  BY DEF VersionInv
<1> DEFINE c == [call[s] EXCEPT !.gen = dbGen]
<1>3. call' = [call EXCEPT ![s] = c] /\ Goto(s, "synced")
  BY DEF LockCatchUp
<1>4. /\ c.op = call[s].op /\ c.since = call[s].since /\ c.work = call[s].work
      /\ c.lease = call[s].lease /\ c.gen = dbGen /\ c.snap = call[s].snap
  BY CallTyped DEF Calls
<1> HIDE DEF c
<1>5. call'[s] = c /\ spc'[s] = "synced"
  BY <1>3, Called, Moved
<1>6. call[s].snap \in 1..Len(snaps)
  BY CatchUpSnapshot DEF LockCatchUp, At
<1>7. Sound(snaps[call[s].snap], log, acked, dbGen)
  BY <1>6 DEF VersionInv
<1>8. ASSUME snaps[call[s].snap].synced = dbGen
      PROVE  Serves(snaps[call[s].snap], snaps[call[s].snap].base \cup snaps[call[s].snap].delta,
                    call[s], log)
  <2> DEFINE snap == snaps[call[s].snap]
  <2>1. InsertsSince(snap.at, log) => Version(snap.base \cup snap.delta, snap.at, acked, log)
    BY <1>7, <1>8 DEF Sound
  <2>2. call[s].since \subseteq acked
    BY <1>2 DEF Reads
  <2> HIDE DEF snap
  <2>3. InsertsSince(snap.at, log) =>
           Version(snap.base \cup snap.delta, snap.at, call[s].since, log)
    BY <2>1, <2>2 DEF Version
  <2>4. NothingDeleted /\ snap.at # 0 =>
           Gathered(snap.base \cup snap.delta, snap.at, call[s].since, log)
    BY <1>7, <1>8, <2>2 DEF snap, Sound, Complete, Gathered
  <2>5. Serves(snap, snap.base \cup snap.delta, call[s], log)
    BY <2>3, <2>4 DEF Serves
  <2> QED
    BY <2>5 DEF snap
<1>9. Reads(c, "synced", snaps, log, acked, dbGen)
  <2>1. snaps[c.snap].synced = c.gen =>
           Serves(snaps[c.snap], snaps[c.snap].base \cup snaps[c.snap].delta, c, log)
    BY <1>4, <1>8 DEF Serves
  <2>2. c.op \notin ArraysOnly /\ c.lease.snap # 0 =>
           Serves(snaps[c.lease.snap], c.lease.rows, c, log)
    BY <1>2, <1>4 DEF Reads, Serves
  <2> QED
    BY <1>2, <1>4, <2>1, <2>2, ObserverTypes DEF Reads, CatchUpPlaces
<1> QED
  BY <1>1, <1>5, <1>9, SnapshotsSame

LEMMA CheckVersion ==
    ASSUME TypeOK, TypeOK', VersionInv, NEW s \in Sessions, SessionStep(s), CheckSynced(s)
    PROVE  VersionInv'
<1>1. spc[s] = "synced" /\ snaps' = snaps /\ ~SaveWrite(s) /\ dbGen' = dbGen
  BY DEF CheckSynced, SaveWrite, At, observerVars, genVars
<1>2. /\ Reads(call[s], spc[s], snaps, log, acked, dbGen)
      /\ call[s].snap \in 1..Len(snaps)
      /\ Sound(snaps[call[s].snap], log, acked, dbGen)
  BY <1>1, CatchUpSnapshot DEF VersionInv
<1>3. CASE snaps[call[s].snap].synced = call[s].gen
  <2>1. Lease(s, call[s].snap, Content(call[s].snap))
    BY <1>3 DEF CheckSynced
  <2>2. Serves(snaps[call[s].snap], Content(call[s].snap), call[s], log)
    BY <1>1, <1>2, <1>3 DEF Reads, Content
  <2>3. Reads(call'[s], spc'[s], snaps, log, acked, dbGen')
    BY <2>1, <2>2, LeaseReads
  <2>4. Others(s)
    BY <2>1, LeaseLocals DEF Leases
  <2> QED
    BY <1>1, <2>3, <2>4, SnapshotsSame
<1>4. CASE snaps[call[s].snap].synced # call[s].gen
  <2> DEFINE c == [call[s] EXCEPT !.rows = snaps[call[s].snap].delta]
  <2>1. call' = [call EXCEPT ![s] = c] /\ Goto(s, "scan")
    BY <1>4 DEF CheckSynced
  <2>2. /\ c.op = call[s].op /\ c.since = call[s].since /\ c.work = call[s].work
        /\ c.lease = call[s].lease /\ c.gen = call[s].gen
    BY CallTyped DEF Calls
  <2> HIDE DEF c
  <2>3. call'[s] = c /\ spc'[s] = "scan" /\ Others(s)
    BY <2>1, Called, Moved DEF Others
  <2>4. Reads(call'[s], spc'[s], snaps, log, acked, dbGen')
    BY <1>1, <1>2, <2>2, <2>3 DEF Reads, CatchUpPlaces, Serves
  <2> QED
    BY <1>1, <2>3, <2>4, SnapshotsSame
<1> QED
  BY <1>3, <1>4

(* The scan adds up to the table, which holds every commit. *)
LEMMA ScanVersion ==
    ASSUME TypeOK, TypeOK', VersionInv, CatchUpInv, NEW s \in Sessions, SessionStep(s), Scan(s)
    PROVE  VersionInv'
<1>1. spc[s] = "scan" /\ snaps' = snaps /\ ~SaveWrite(s) /\ dbGen' = dbGen /\ Others(s)
  BY QuietLocals DEF Quiet, Scan, SaveWrite, At, observerVars, genVars
<1> DEFINE snap == snaps[call[s].snap]
           found == ScanFinds(snap, call[s].rows)
<1>2. /\ Reads(call[s], spc[s], snaps, log, acked, dbGen)
      /\ snap \in Snapshots /\ Sound(snap, log, acked, dbGen)
      /\ call[s].rows = snap.delta
  BY <1>1, CatchUpSnapshot DEF VersionInv, CatchUpInv
<1>3. CASE ~ScanFits(snap, call[s].rows)
  BY <1>1, <1>3, PlainMoves, PlainVersion
<1>4. CASE ScanFits(snap, call[s].rows)
  <2> DEFINE c == [call[s] EXCEPT !.rows = call[s].rows \cup found]
  <2>1. call' = [call EXCEPT ![s] = c] /\ Goto(s, "store")
    BY <1>4 DEF Scan
  <2>2. ASSUME InsertsSince(snap.at, log)
        PROVE  /\ snap.base \cup (call[s].rows \cup found) = Table.rows
               /\ \A r \in call[s].rows \cup found : r[1] >= snap.watermark
               /\ snap.at \in Nat /\ snap.at <= Len(log)
    <3>1. Describes(snap, log) /\ snap.at \in Nat
      BY <1>2, <2>2 DEF Sound, Snapshots
    <3>2. snap.at <= Len(log)
      BY <2>2, <3>1, VersionInTable DEF Describes
    <3> QED
      BY <1>2, <1>4, <2>2, <3>1, <3>2, ScanExact
  <2>10. ASSUME NothingDeleted, snap.at # 0, NEW commits \in SUBSET (1..Len(log))
         PROVE  /\ Gathered(snap.base \cup (call[s].rows \cup found), snap.at, commits, log)
                /\ \A r \in call[s].rows \cup found : r[1] >= snap.watermark
                /\ snap.at \in 1..Len(log) /\ snap.base = log[snap.at].rows
                /\ snap.watermark = Watermark(snap.base)
    <3>1. Whole(snap, log)
      BY <1>2, <2>10 DEF Sound, Complete
    <3> HIDE DEF snap
    <3>2. ScanFits(snap, snap.delta) /\ found = ScanFinds(snap, snap.delta)
      BY <1>2, <1>4
    <3> HIDE DEF found
    <3>3. /\ Gathered(snap.base \cup (snap.delta \cup found), snap.at, commits, log)
          /\ \A r \in snap.delta \cup found : r[1] >= snap.watermark
      BY <1>2, <2>10, <3>1, <3>2, ScanGathers
    <3> QED
      BY <1>2, <3>1, <3>3 DEF Whole
  <2> HIDE DEF found
  <2>3. /\ c.op = call[s].op /\ c.since = call[s].since /\ c.work = call[s].work
        /\ c.lease = call[s].lease /\ c.gen = call[s].gen /\ c.snap = call[s].snap
        /\ c.rows = call[s].rows \cup found
    BY CallTyped DEF Calls
  <2> HIDE DEF c
  <2>4. call'[s] = c /\ spc'[s] = "store"
    BY <2>1, Called, Moved
  <2>5. /\ acked \in SUBSET (1..Len(log)) /\ call[s].since \in SUBSET (1..Len(log))
        /\ {} \in SUBSET (1..Len(log))
    BY <1>2, ObserverTypes DEF Reads
  <2>6. /\ CaughtUp(snap, c).base = snap.base /\ CaughtUp(snap, c).watermark = snap.watermark
        /\ CaughtUp(snap, c).delta = c.rows /\ CaughtUp(snap, c).synced = c.gen
        /\ CaughtUp(snap, c).at = snap.at
    BY <1>2 DEF CaughtUp, Snapshots
  <2>7. Sound(CaughtUp(snap, c), log, acked, dbGen)
    <3>1. call[s].gen <= dbGen
      BY <1>1, <1>2 DEF Reads, CatchUpPlaces
    <3>2. ASSUME InsertsSince(snap.at, log)
          PROVE  /\ Describes(CaughtUp(snap, c), log)
                 /\ Version(snap.base \cup c.rows, snap.at, acked, log)
      <4>1. Version(snap.base, snap.at, {}, log) /\ snap.watermark = Watermark(snap.base)
        BY <1>2, <3>2 DEF Sound, Describes
      <4>2. /\ Version(Table.rows, snap.at, acked, log) /\ Version(Table.rows, snap.at, {}, log)
            /\ snap.base \cup c.rows = Table.rows /\ \A r \in c.rows : r[1] >= snap.watermark
        BY <2>2, <2>3, <2>5, <3>2, TableIsVersion
      <4> HIDE DEF snap
      <4> QED
        BY <2>6, <4>1, <4>2 DEF Describes
    <3>3. Complete(CaughtUp(snap, c), log, acked, dbGen)
      <4>1. ASSUME NothingDeleted, snap.at # 0
            PROVE  /\ Gathered(snap.base \cup c.rows, snap.at, {}, log)
                   /\ Gathered(snap.base \cup c.rows, snap.at, acked, log)
                   /\ \A r \in c.rows : r[1] >= snap.watermark
                   /\ snap.at \in 1..Len(log) /\ snap.base = log[snap.at].rows
                   /\ snap.watermark = Watermark(snap.base)
        BY <2>10, <2>3, <2>5, <4>1
      <4> HIDE DEF snap
      <4> QED
        BY <2>6, <4>1 DEF Complete, Whole
    <3> HIDE DEF snap
    <3> QED
      BY <2>3, <2>6, <3>1, <3>2, <3>3 DEF Sound
  <2>8. Serves(snap, snap.base \cup c.rows, c, log)
    <3>1. InsertsSince(snap.at, log) => Version(snap.base \cup c.rows, snap.at, c.since, log)
      BY <2>2, <2>3, <2>5, TableIsVersion
    <3>2. NothingDeleted /\ snap.at # 0 => Gathered(snap.base \cup c.rows, snap.at, c.since, log)
      BY <2>10, <2>3, <2>5
    <3> HIDE DEF snap
    <3> QED
      BY <3>1, <3>2 DEF Serves
  <2>9. Reads(c, "store", snaps, log, acked, dbGen)
    BY <1>1, <1>2, <2>3, <2>7, <2>8 DEF Reads, CatchUpPlaces, Serves
  <2> QED
    BY <1>1, <2>4, <2>9, SnapshotsSame
<1> QED
  BY <1>3, <1>4

(* What is stored is what the scan made, and nobody else is catching up. *)
LEMMA StoreVersion ==
    ASSUME TypeOK, TypeOK', VersionInv, CatchUpInv, NEW s \in Sessions, SessionStep(s),
           StoreDelta(s)
    PROVE  VersionInv'
<1> DEFINE i == call[s].snap
           new == CaughtUp(snaps[i], call[s])
<1>1. spc[s] = "store" /\ ~SaveWrite(s) /\ dbGen' = dbGen
  BY DEF StoreDelta, SaveWrite, At, observerVars, genVars
<1>2. /\ Reads(call[s], spc[s], snaps, log, acked, dbGen)
      /\ i \in 1..Len(snaps) /\ snaps[i] \in Snapshots
      /\ snaps \in Seq(Snapshots) /\ Len(snaps) \in Nat
  BY <1>1, CatchUpSnapshot, CallTyped DEF VersionInv
<1>3. snaps' = [snaps EXCEPT ![i] = new]
  BY <1>2 DEF StoreDelta, CaughtUp, SyncGeneration
<1>4. /\ Sound(new, log, acked, dbGen)
      /\ Serves(snaps[i], snaps[i].base \cup call[s].rows, call[s], log)
  BY <1>1, <1>2 DEF Reads
<1>5. new.at = snaps[i].at
  BY <1>2 DEF CaughtUp, Snapshots
<1>6. Lease(s, i, snaps[i].base \cup call[s].rows)
  BY DEF StoreDelta
<1> HIDE DEF new
<1>7. Reads(call'[s], spc'[s], snaps', log, acked, dbGen')
  <2>1. snaps'[i] = new
    BY <1>2, <1>3
  <2> QED
    BY <1>4, <1>5, <1>6, <2>1, LeaseReads DEF Serves
<1>8. Others(s)
  BY <1>6, LeaseLocals DEF Leases
<1>9. \A k \in 1..Len(snaps') : Sound(snaps'[k], log, acked, dbGen')
  BY <1>1, <1>2, <1>3, <1>4 DEF VersionInv
<1>10. \A t \in Sessions \ {s} :
          spc[t] \in CatchUpPlaces => snaps'[call[t].snap] = snaps[call[t].snap]
  BY <1>1, HolderAlone DEF CatchUpPlaces
<1>11. SavedDescribes'
  BY <1>1, SessionLeaves DEF VersionInv, SavedDescribes, tableVars
<1>12. \A k \in 1..Len(snaps) : snaps'[k].at = snaps[k].at
  BY <1>2, <1>3, <1>5
<1> QED
  BY <1>7, <1>8, <1>9, <1>10, <1>11, <1>12, SessionKeeps

-----------------------------------------------------------------------------
(* Every step. *)

(* A lookup that reads the arrays alone gives its lease at once, or goes on. *)
LEMMA FindGoesOn ==
    ASSUME TypeOK, NEW s \in Sessions, Find(s), call[s].op \in ArraysOnly
    PROVE  Leases(s) \/ MovesOn(s)
<1>1. call[s].op \in {"algorithm", "narrow", "unchanged"}
  BY DEF ArraysOnly
<1>2. Leases(s) \/ \E p \in {"claim", "load", "failed"} : Goto(s, p) /\ Looked(s, 0)
  BY <1>1 DEF Find, Leases
<1>3. ASSUME NEW p \in {"claim", "load", "failed"}, Goto(s, p), Looked(s, 0)
      PROVE  MovesOn(s)
  <2> DEFINE c == [call[s] EXCEPT !.version = 0, !.snap = 0]
  <2>1. c.op = call[s].op /\ c.since = call[s].since /\ c.work = call[s].work
        /\ c.lease = call[s].lease
    BY CallTyped DEF Calls
  <2>2. call' = [call EXCEPT ![s] = c]
    BY <1>3, CallTyped DEF Looked
  <2> HIDE DEF c
  <2> QED
    BY <1>3, <2>1, <2>2, MovesTo DEF PlainPlaces
<1> QED
  BY <1>2, <1>3

LEMMA FindVersion ==
    ASSUME TypeOK, TypeOK', VersionInv, NEW s \in Sessions, SessionStep(s), Find(s)
    PROVE  VersionInv'
<1>1. snaps' = snaps /\ ~SaveWrite(s)
  BY DEF Find, SaveWrite, At
<1>2. CASE MovesOn(s) /\ ~Leases(s)
  <2>1. Others(s)
    BY <1>2, QuietLocals DEF Quiet
  <2> QED
    BY <1>1, <1>2, <2>1, PlainVersion
<1>3. CASE Leases(s) /\ call[s].op \in ArraysOnly
  <2>1. PICK i, rows : Lease(s, i, rows)
    BY <1>3 DEF Leases
  <2>2. Reads(call'[s], spc'[s], snaps, log, acked, dbGen')
    BY <1>3, <2>1, LeaseReads
  <2>3. Others(s)
    BY <1>3, LeaseLocals
  <2> QED
    BY <1>1, <2>2, <2>3, SnapshotsSame
<1> QED
  BY <1>2, <1>3, FindMoves, FindGoesOn

LEMMA SessionVersion ==
    ASSUME TypeOK, TypeOK', VersionInv, CatchUpInv, NEW s \in Sessions, SessionStep(s)
    PROVE  VersionInv'
<1>1. CASE Dropping(s)
  <2>1. s \in Connections
    BY DEF Connections
  <2> QED
    BY <1>1, <2>1, DropVersion DEF Dropping, storageVars, sessionVars
<1>2. CASE \E op \in Operations : Begin(s, op)
  BY <1>2, BeginVersion
<1>3. CASE \/ ReadVersion(s) \/ LoadCheck(s) \/ Wait(s) \/ BuildThrows(s) \/ SaveFlag(s)
           \/ SaveCheck(s) \/ Unsave(s) \/ Reacquire(s)
  <2>1. Quiet(s) /\ ~SaveWrite(s)
    BY <1>3 DEF Quiet, ReadVersion, LoadCheck, Wait, BuildThrows, SaveFlag, SaveCheck, Unsave,
                Reacquire, SaveWrite, At
  <2> QED
    BY <1>3, <2>1, QuietLocals, PlainMoves, PlainVersion
<1>4. CASE Claim(s) \/ Release(s) \/ ReleaseFailed(s)
  <2>1. ~SaveWrite(s)
    BY <1>4 DEF Claim, Release, ReleaseFailed, SaveWrite, At
  <2> QED
    BY <1>4, <2>1, ReleaseLocals, PlainMoves, PlainVersion
<1> QED
  BY <1>1, <1>2, <1>3, <1>4, FindVersion, SaveVersion, FinishVersion, LoadVersion, StampVersion,
     GenerationsVersion, BuildVersion, ValidateVersion, PublishVersion, LockVersion,
     CheckVersion, ScanVersion, StoreVersion
     DEF SessionStep, Resolving

(* A statement that has not begun reads nothing. *)
LEMMA IdleReads ==
    ASSUME NEW list, NEW states, NEW told, NEW now
    PROVE  Reads(NoCall, "idle", list, states, told, now)
<1>1. /\ NoCall.op = "none" /\ NoCall.since = {} /\ NoCall.work.delta = {}
      /\ NoCall.lease.snap = 0
  BY DEF NoCall, NoSnapshot, NoLease
<1> QED
  BY <1>1 DEF Reads, CatchUpPlaces

(* A crash leaves the log and the saved copy. *)
LEMMA CrashVersion ==
    ASSUME TypeOK, VersionInv, Crash
    PROVE  VersionInv'
<1>1. /\ log' = log /\ saved' = saved /\ Len(snaps') = 0
      /\ wpc' = [w \in Writers |-> "idle"] /\ reserved' = [w \in Writers |-> {}]
      /\ spc' = [s \in Sessions |-> "idle"] /\ call' = [s \in Sessions |-> NoCall]
  BY DEF Crash
<1>2. LogGrows' /\ WritersReserve' /\ SavedDescribes'
  BY <1>1, SameLog DEF VersionInv, WritersReserve, SavedDescribes
<1> QED
  BY <1>1, <1>2, IdleReads DEF VersionInv

LEMMA VersionInit == Init => VersionInv
<1> SUFFICES ASSUME Init PROVE VersionInv
  OBVIOUS
<1> DEFINE first == {<<i, 0>> : i \in 0..(InitialRows - 1)}
<1>1. Len(log) = 1 /\ log[1].rows = first
  BY DEF Init, InitObserver
<1>2. IsFiniteSet(first)
  <2> DEFINE ids == 0..(InitialRows - 1)
             written == [i \in ids |-> <<i, 0>>]
  <2>1. IsFiniteSet(ids)
    BY ConstantsAssumption, FS_Interval
  <2>2. written \in Surjection(ids, first)
    BY DEF Surjection
  <2> HIDE DEF ids, written, first
  <2> QED
    BY <2>1, <2>2, FS_Surjection
<1>6. OneRowEach(first)
  BY DEF OneRowEach
<1> HIDE DEF first
<1>3. LogGrows
  BY <1>1, <1>2, <1>6 DEF LogGrows
<1>4. WritersReserve /\ SavedDescribes
  BY DEF Init, InitObserver, WritersReserve, SavedDescribes
<1>5. /\ \A s \in Sessions : call[s] = NoCall /\ spc[s] = "idle"
      /\ Len(snaps) = 0
  BY DEF Init, InitStorage
<1> QED
  BY <1>3, <1>4, <1>5, IdleReads DEF VersionInv

LEMMA VersionStep ==
    ASSUME TypeOK, TypeOK', CatchUpInv, WriterInv, VersionInv, [Next]_vars
    PROVE  VersionInv'
<1>1. ASSUME NEW w \in Writers, Writing(w)
      PROVE  VersionInv'
  BY <1>1, WriterVersion DEF Writing, storageVars, sessionVars
<1>2. CASE UNCHANGED vars
  BY <1>2
     DEF vars, observerVars, tableVars, genVars, savedVars, writerVars, storageVars, sessionVars,
         VersionInv, LogGrows, WritersReserve, SavedDescribes, Table
<1> QED
  BY <1>1, <1>2, SessionVersion, CrashVersion DEF Next, Ended

LEMMA VersionAlways == Spec => [](TypeOK /\ VersionInv)
<1>1. Init => CatchUpInv
  BY DEF Init, InitStorage, CatchUpInv, CatchUpPlaces
<1>2. TypeOK /\ CatchUpInv /\ [Next]_vars => CatchUpInv'
  BY CatchUpStep
<1>3. TypeOK /\ TypeOK' /\ CatchUpInv /\ WriterInv /\ VersionInv /\ [Next]_vars => VersionInv'
  BY VersionStep
<1>4. GenInv => WriterInv
  BY DEF GenInv
<1> QED
  BY <1>1, <1>2, <1>3, <1>4, VersionInit, TypeCorrect, GenAlways, PTL DEF Spec

-----------------------------------------------------------------------------
(* What follows of a lease. *)

(* While nothing but inserts is committed it is the state of one commit, which is not
   older than those its statement may expect. *)
LEMMA VersionLeases ==
    ASSUME TypeOK, VersionInv, Operations \subseteq ReadWithDelta
    PROVE  OneVersionUnderInserts
<1> SUFFICES ASSUME Undisturbed, NEW s \in Sessions, HasLease(s)
             PROVE  \E k \in 1..Len(log) : /\ call[s].lease.rows = log[k].rows
                                           /\ \A j \in call[s].since : j <= k
  BY DEF OneVersionUnderInserts, Undisturbed, LeaseIsOneVersion
<1> DEFINE snap == snaps[call[s].lease.snap]
<1>1. Reads(call[s], spc[s], snaps, log, acked, dbGen)
  BY DEF VersionInv
<1>2. snap.at \in Nat
  BY LeasedSnapshot DEF HasLease
<1>3. InsertsSince(snap.at, log)
  BY <1>2, ObserverTypes DEF InsertsSince, Undisturbed
<1>4. call[s].op \notin ArraysOnly
  BY <1>1 DEF Reads, ReadWithDelta, ArraysOnly
<1>5. Version(call[s].lease.rows, snap.at, call[s].since, log)
  BY <1>1, <1>3, <1>4 DEF Reads, Serves, HasLease
<1> QED
  BY <1>5 DEF Version

(* However many sessions build, load, save and catch up the snapshots of a graph, and in
   whatever order the rows of its writers become visible: while nothing but inserts is
   committed, every lease is one committed version. *)
THEOREM OneVersionForEachLease ==
    ASSUME Operations \subseteq ReadWithDelta
    PROVE  Spec => []OneVersionUnderInserts
<1>1. TypeOK /\ VersionInv => OneVersionUnderInserts
  BY VersionLeases
<1> QED
  BY <1>1, VersionAlways, PTL

-----------------------------------------------------------------------------
(* What the generations have to do with it. *)

(* A snapshot whose generations stand is one nothing but inserts was committed since,
   once every writer has run its callback. *)
LEMMA OnlyInsertsSince ==
    ASSUME TypeOK, GenerationsCoverDestructiveWrites, Settled,
           NEW i \in 1..Len(snaps), snaps[i].at # 0, Reusable(snaps[i])
    PROVE  InsertsSince(snaps[i].at, log)
<1>1. NoneMissed(snaps[i])
  BY DEF GenerationsCoverDestructiveWrites
<1>2. writeGen \in Nat /\ destrGen \in Nat
  BY DEF TypeOK, ObserverTypeOK, GenTypeOK
<1>3. ~Behind(snaps[i])
  BY <1>2 DEF Behind, Reusable
<1>4. \A j : ~Unannounced(j)
  BY DEF Unannounced, Settled
<1> QED
  BY <1>1, <1>3, <1>4 DEF NoneMissed, InsertsSince

(* A synced snapshot is a version not before what is acknowledged: a row it lacks was
   gone by then, and does not come back. *)
LEMMA SyncedComplete ==
    ASSUME TypeOK, VersionInv, GenerationsCoverDestructiveWrites
    PROVE  SyncedMeansComplete
<1> SUFFICES ASSUME Settled, NEW i \in published, snaps[i].synced = dbGen,
                    CanCatchUp(snaps[i]), snaps[i].at # 0, NEW j \in acked
             PROVE  Ids(log[j].rows) \cap Ids(Table.rows) \subseteq Ids(Content(i))
  BY DEF SyncedMeansComplete
<1>1. i \in 1..Len(snaps)
  BY SnapsLength DEF TypeOK
<1>2. InsertsSince(snaps[i].at, log)
  BY <1>1, OnlyInsertsSince DEF CanCatchUp, Reusable
<1>3. Version(snaps[i].base \cup snaps[i].delta, snaps[i].at, acked, log)
  BY <1>1, <1>2 DEF VersionInv, Sound
<1>4. PICK k \in 1..Len(log) : /\ Content(i) = log[k].rows
                               /\ \A m \in acked : m <= k
  BY <1>3 DEF Version, Content
<1>5. j \in 1..Len(log) /\ (j = k \/ j < k)
  BY <1>4, ObserverTypes
<1> QED
  BY <1>4, <1>5 DEF VersionInv, LogGrows

(* A published snapshot that is synced with the database, and whose generations stand,
   has every row of an acknowledged commit that is still there, whatever the writers,
   the catch-ups and the builds of any number of connections did in between. *)
THEOREM SyncedIsComplete == Spec => []SyncedMeansComplete
<1>1. TypeOK /\ VersionInv /\ GenerationsCoverDestructiveWrites => SyncedMeansComplete
  BY SyncedComplete
<1> QED
  BY <1>1, VersionAlways, DestructiveWritesCovered, PTL

(* What LastAcked names is the first commit, or one the statement may expect that wrote
   the row. *)
LEMMA LastAckedIs ==
    ASSUME TypeOK, NEW s \in Sessions, call[s].since \subseteq acked, NEW i
    PROVE  /\ LastAcked(s, i) \in (call[s].since \cup {1}) \cap (1..Len(log))
           /\ \/ LastAcked(s, i) = 1
              \/ /\ LastAcked(s, i) \in call[s].since \ {1}
                 /\ RowAt(log[LastAcked(s, i)].rows, i) # RowAt(log[LastAcked(s, i) - 1].rows, i)
<1> DEFINE writes == {j \in call[s].since \ {1} :
                         RowAt(log[j].rows, i) # RowAt(log[j - 1].rows, i)}
           ids == writes \cup {1}
<1>1. ids \in SUBSET Nat /\ ids # {} /\ ids \subseteq 1..Len(log)
  BY ObserverTypes
<1>2. Len(log) + 1 \in Nat /\ \A j \in ids : j < Len(log) + 1
  BY <1>1, ObserverTypes
<1>3. \E j \in ids : \A k \in ids : k <= j
  BY <1>1, <1>2, GreatestId
<1>4. LastAcked(s, i) \in ids
  <2>1. LastAcked(s, i) = CHOOSE j \in writes \cup {1} : \A k \in writes : k <= j
    BY Zenon DEF LastAcked
  <2>2. \E j \in writes \cup {1} : \A k \in writes : k <= j
    BY <1>3
  <2> HIDE DEF writes
  <2>3. (CHOOSE j \in writes \cup {1} : \A k \in writes : k <= j) \in writes \cup {1}
    BY ONLY <2>2, Zenon
  <2> QED
    BY <2>1, <2>3
<1> QED
  BY <1>1, <1>4

LEMMA VersionIsFresh ==
    ASSUME TypeOK, NEW s \in Sessions, call[s].since \subseteq acked,
           NEW at, Version(call[s].lease.rows, at, call[s].since, log)
    PROVE  Fresh(s)
<1>1. PICK k \in 1..Len(log) : /\ call[s].lease.rows = log[k].rows
                               /\ \A j \in call[s].since : j <= k
  BY DEF Version
<1>2. Ids(call[s].lease.rows) \subseteq RowIds
  BY <1>1 DEF RowIds, Ids
<1>3. ASSUME NEW i \in RowIds
      PROVE  \E n \in LastAcked(s, i)..Len(log) :
                RowAt(call[s].lease.rows, i) = RowAt(log[n].rows, i)
  <2>1. LastAcked(s, i) \in (call[s].since \cup {1}) \cap (1..Len(log))
    BY LastAckedIs
  <2>2. k \in LastAcked(s, i)..Len(log)
    BY <1>1, <2>1, ObserverTypes
  <2> QED
    BY <1>1, <2>2
<1> QED
  BY <1>2, <1>3 DEF Fresh

(* A lease of a snapshot this instance built, which the code lets a later operator use
   again, is fresh once every writer has run its callback: a lease that a delete has
   left without an insert is always found out. *)
BuiltLeaseFresh ==
    Settled => \A s \in Sessions :
        /\ HasLease(s) /\ snaps[call[s].lease.snap].at # 0
        /\ Reusable(snaps[call[s].lease.snap])
        => Fresh(s)

LEMMA BuiltFresh ==
    ASSUME TypeOK, VersionInv, GenerationsCoverDestructiveWrites,
           Operations \subseteq ReadWithDelta
    PROVE  BuiltLeaseFresh
<1> SUFFICES ASSUME Settled, NEW s \in Sessions, HasLease(s),
                    snaps[call[s].lease.snap].at # 0, Reusable(snaps[call[s].lease.snap])
             PROVE  Fresh(s)
  BY DEF BuiltLeaseFresh
<1> DEFINE snap == snaps[call[s].lease.snap]
<1>1. Reads(call[s], spc[s], snaps, log, acked, dbGen)
  BY DEF VersionInv
<1>2. InsertsSince(snap.at, log)
  BY LeasedSnapshot, OnlyInsertsSince DEF HasLease
<1>3. Version(call[s].lease.rows, snap.at, call[s].since, log)
  BY <1>1, <1>2 DEF Reads, Serves, HasLease, ReadWithDelta, ArraysOnly
<1>4. call[s].since \subseteq acked
  BY <1>1 DEF Reads
<1> QED
  BY <1>3, <1>4, VersionIsFresh

THEOREM BuiltLeasesAreFresh ==
    ASSUME Operations \subseteq ReadWithDelta
    PROVE  Spec => []BuiltLeaseFresh
<1>1. TypeOK /\ VersionInv /\ GenerationsCoverDestructiveWrites => BuiltLeaseFresh
  BY BuiltFresh
<1> QED
  BY <1>1, VersionAlways, DestructiveWritesCovered, PTL

(* Where nothing is saved, nothing is loaded: every snapshot was built. *)
NothingSavedInv ==
    /\ saved = {}
    /\ \A i \in 1..Len(snaps) : snaps[i].at # 0
    /\ \A s \in Sessions :
          /\ spc[s] \notin {"load_stamp", "load_publish", "save", "save_write"}
          /\ spc[s] \in {"validate", "publish"} => call[s].work.at # 0

LEMMA NothingSavedStays ==
    ASSUME TypeOK, NothingSavedInv, NEW s \in Sessions, Others(s), saved' \subseteq saved,
           \A i \in 1..Len(snaps') : snaps'[i].at # 0,
           spc'[s] \notin {"load_stamp", "load_publish", "save", "save_write"},
           spc'[s] \in {"validate", "publish"} => call'[s].work.at # 0
    PROVE  NothingSavedInv'
BY DEF NothingSavedInv, Others

LEMMA NothingSavedQuiet ==
    ASSUME TypeOK, NothingSavedInv, NEW s \in Sessions, Quiet(s)
    PROVE  /\ spc'[s] \notin {"load_stamp", "load_publish", "save", "save_write"}
           /\ spc'[s] \in {"validate", "publish"} => call'[s].work.at # 0
<1>1. CASE Reacquire(s)
  BY <1>1, CallTyped DEF Reacquire, At, Goto
<1>2. CASE BuildValidate(s)
  <2>1. spc[s] = "validate" /\ call' = call /\ \E p \in {"publish", "fail"} : Goto(s, p)
    BY <1>2 DEF BuildValidate, At
  <2> QED
    BY <2>1, Moved DEF NothingSavedInv
<1>3. CASE ~Reacquire(s) /\ ~BuildValidate(s)
  <2>1. ~SaveFlag(s)
    BY DEF SaveFlag, At, NothingSavedInv
  <2>2. PICK p \in Places \ {"load_stamp", "load_publish", "save", "save_write", "validate",
                              "publish"} : Goto(s, p)
    BY <1>3, <2>1
       DEF Quiet, Leases, Begin, ReadVersion, Find, LoadCheck, NotLoaded, Wait, BuildThrows,
           SaveWrite, SaveCheck, Unsave, LockCatchUp, CheckSynced, Scan, Rebuild, Places
  <2> QED
    BY <2>2, Moved
<1> QED
  BY <1>1, <1>2, <1>3

LEMMA NothingSavedSession ==
    ASSUME TypeOK, VersionInv, NothingSavedInv, "build" \notin Operations,
           NEW s \in Sessions, SessionStep(s)
    PROVE  NothingSavedInv'
<1>0. ~SaveWrite(s) /\ saved' \subseteq saved
  BY SessionLeaves DEF SaveWrite, At, NothingSavedInv
<1>1. CASE Quiet(s)
  <2>1. Others(s) /\ snaps' = snaps
    BY <1>1, QuietLocals
  <2> QED
    BY <1>0, <1>1, <2>1, NothingSavedQuiet, NothingSavedStays DEF NothingSavedInv
<1>2. CASE Dropping(s)
  BY <1>0, <1>2 DEF Dropping, storageVars, sessionVars, NothingSavedInv
<1>3. CASE Leases(s) /\ (Find(s) \/ CheckSynced(s) \/ StoreDelta(s))
  <2>1. Others(s) /\ spc'[s] \in {"save", "unsave", "leased", "idle"}
    BY <1>3, LeaseLocals
  <2>2. spc'[s] # "save"
    <3>1. PICK i, rows : Lease(s, i, rows)
      BY <1>3 DEF Leases
    <3>2. call[s].op # "build"
      BY DEF VersionInv, Reads
    <3>3. PICK p \in {"unsave", "leased"} : Goto(s, p)
      BY <3>1, <3>2 DEF Lease
    <3> QED
      BY <3>3, Moved
  <2>3. \A i \in 1..Len(snaps') : snaps'[i].at # 0
    <3>1. CASE Find(s) \/ CheckSynced(s)
      BY <3>1 DEF Find, CheckSynced, NothingSavedInv
    <3>2. CASE StoreDelta(s)
      <4> DEFINE i == call[s].snap
                 new == CaughtUp(snaps[i], call[s])
      <4>1. /\ i \in 1..Len(snaps) /\ snaps[i] \in Snapshots /\ snaps \in Seq(Snapshots)
        BY <3>2, CatchUpSnapshot, CallTyped DEF StoreDelta, At
      <4>2. snaps' = [snaps EXCEPT ![i] = new] /\ new.at = snaps[i].at
        BY <3>2, <4>1 DEF StoreDelta, CaughtUp, SyncGeneration, Snapshots
      <4> HIDE DEF new
      <4> QED
        BY <4>1, <4>2 DEF NothingSavedInv
    <3> QED
      BY <1>3, <3>1, <3>2
  <2> QED
    BY <1>0, <2>1, <2>2, <2>3, NothingSavedStays
<1>4. CASE Finish(s)
  <2>1. Others(s) /\ snaps' = snaps /\ spc'[s] = "idle"
    BY <1>4, LeaseLocals, Moved DEF Finish, storageVars
  <2> QED
    BY <1>0, <2>1, NothingSavedStays DEF NothingSavedInv
<1>5. CASE LoadRead(s) \/ LoadStamp(s) \/ LoadPublish(s)
  <2>1. LoadRead(s)
    BY <1>5 DEF LoadStamp, LoadPublish, At, NothingSavedInv
  <2>2. Others(s) /\ snaps' = snaps
    BY <2>1, LoadLocals DEF LoadRead
  <2>3. PICK p \in {"claim", "failed"} : Goto(s, p)
    BY <2>1 DEF LoadRead, NotLoaded, NothingSavedInv
  <2> QED
    BY <1>0, <2>2, <2>3, Moved, NothingSavedStays DEF NothingSavedInv
<1>6. CASE BuildGenerations(s) \/ BuildRead(s)
  <2>1. /\ Others(s) /\ snaps' = snaps
        /\ spc'[s] = "read" \/ (spc'[s] = "validate" /\ call'[s].work.at = Len(log))
    BY <1>6, BuildLocals DEF BuildGenerations, BuildRead, storageVars
  <2> QED
    BY <1>0, <2>1, ObserverTypes, NothingSavedStays DEF NothingSavedInv
<1>7. CASE Publish(s)
  <2>1. Others(s) /\ spc'[s] \in {"version", "release"}
    BY <1>7, BuildLocals
  <2>0. spc[s] = "publish" /\ PublishSnapshot(call[s].work)
    BY <1>7 DEF Publish, At
  <2>2. /\ snaps' = snaps \/ snaps' = Append(snaps, call[s].work)
        /\ call[s].work.at # 0
    <3>1. call[s].work.at # 0
      BY <2>0 DEF NothingSavedInv
    <3>2. snaps' = snaps \/ snaps' = Append(snaps, call[s].work)
      BY <2>0 DEF PublishSnapshot
    <3> QED
      BY <3>1, <3>2
  <2>3. \A i \in 1..Len(snaps') : snaps'[i].at # 0
    <3>1. CASE snaps' = snaps
      BY <3>1 DEF NothingSavedInv
    <3>2. CASE snaps' = Append(snaps, call[s].work)
      <4>1. snaps \in Seq(Snapshots) /\ call[s].work \in Snapshots
        BY CallTyped
      <4> QED
        BY <2>2, <3>2, <4>1 DEF NothingSavedInv
    <3> QED
      BY <2>2, <3>1, <3>2
  <2> QED
    BY <1>0, <2>1, <2>3, NothingSavedStays
<1>8. CASE Claim(s) \/ Release(s) \/ ReleaseFailed(s)
  <2>1. /\ Others(s) /\ snaps' = snaps
        /\ spc'[s] \in {"wait", "generations", "version", "failed"}
    BY <1>8, ReleaseLocals
  <2> QED
    BY <1>0, <2>1, NothingSavedStays DEF NothingSavedInv
<1> QED
  BY <1>1, <1>2, <1>3, <1>4, <1>5, <1>6, <1>7, <1>8, SessionSteps

LEMMA NothingSavedStep ==
    ASSUME TypeOK, VersionInv, NothingSavedInv, "build" \notin Operations, [Next]_vars
    PROVE  NothingSavedInv'
<1>1. ASSUME NEW w \in Writers, Writing(w)
      PROVE  NothingSavedInv'
  <2>1. saved' \subseteq saved
    BY <1>1 DEF Writing, WriterStep, Finishing, PlanTableWrite, PlanPreparedWrite, AppendRows,
                Rollback, FlushRows, CommitRows, AdvancePlanned, InvalidateAfterCommit,
                DropSavedCsrs, DropCheck, DropSelect, DropFoundNone, DropDelete, savedVars
  <2> QED
    BY <1>1, <2>1 DEF Writing, storageVars, sessionVars, NothingSavedInv
<1>2. CASE Crash
  BY <1>2 DEF Crash, NothingSavedInv
<1>3. CASE UNCHANGED vars
  BY <1>3 DEF vars, observerVars, savedVars, storageVars, sessionVars, NothingSavedInv
<1> QED
  BY <1>1, <1>2, <1>3, NothingSavedSession DEF Next, Ended

(* A lease whose generations still stand when every writer has run its callback holds
   every row of the graph as some commit left it that the statement may see, whatever was
   updated, deleted or inserted around it.  Where a saved CSR may be loaded this fails,
   see CsrStorage!CheckedLoadDescribesTable. *)
THEOREM ReusableLeasesAreFresh ==
    ASSUME Operations \subseteq ReadWithDelta \ {"build"}
    PROVE  Spec => []ReusableLeaseFresh
<1>1. "build" \notin Operations /\ Operations \subseteq ReadWithDelta
  OBVIOUS
<1>2. Init => NothingSavedInv
  BY DEF Init, InitObserver, InitStorage, NothingSavedInv
<1>3. TypeOK /\ VersionInv /\ NothingSavedInv /\ [Next]_vars => NothingSavedInv'
  BY <1>1, NothingSavedStep
<1>4. TypeOK /\ NothingSavedInv /\ BuiltLeaseFresh => ReusableLeaseFresh
  BY LeasedSnapshot DEF BuiltLeaseFresh, ReusableLeaseFresh, HasLease, NothingSavedInv
<1>5. Spec => []BuiltLeaseFresh
  BY <1>1, BuiltLeasesAreFresh
<1> QED
  BY <1>2, <1>3, <1>4, <1>5, VersionAlways, PTL DEF Spec

-----------------------------------------------------------------------------
(* Where nothing is deleted and nothing is saved, a lease is fresh whatever was announced
   since it was given. *)

(* None of the commits destroyed rows the snapshot was built from. *)
NoneDestroyed(at, commits, states) == \A j \in commits : states[j].destructive => j <= at

(* A commit is one writer's, and the clients do not hear of it before its callback ends. *)
Untold ==
    \A w \in Writers : wpc[w] \in {"committed", "advanced"} =>
        /\ commitAt[w] \notin acked
        /\ \A v \in Writers \ {w} :
              wpc[v] \in {"committed", "advanced"} => commitAt[v] # commitAt[w]

(* What a statement may expect is compared with the snapshot's generations when it is
   looked up, and stays as it was found: of the commits it was told of when it began, none
   that came after the snapshot was destructive, and the arrays alone lack none at all
   where no appender writes. *)
Asked(c, p, list, states) ==
    /\ p \in CatchUpPlaces \cup {"lock"} =>
          /\ c.op \notin ArraysOnly
          /\ NoneDestroyed(list[c.snap].at, c.since, states)
    /\ c.lease.snap # 0 =>
          /\ NoneDestroyed(list[c.lease.snap].at, c.since, states)
          /\ c.op \in ArraysOnly /\ "appender" \notin Kinds =>
                /\ c.lease.rows = list[c.lease.snap].base
                /\ \A j \in c.since : j <= list[c.lease.snap].at

AskedInv == Untold /\ \A s \in Sessions : Asked(call[s], spc[s], snaps, log)

LEMMA UntoldStep ==
    ASSUME TypeOK, Untold, NEW w \in Writers, WriterStep(w)
    PROVE  Untold'
<1>1. /\ acked \in SUBSET (1..Len(log)) /\ Len(log) \in Nat
      /\ commitAt \in [Writers -> 0..Len(log)]
      /\ wpc \in [Writers -> {"idle", "open", "flushed", "committed", "advanced"}]
  BY ObserverTypes
<1>2. CASE \/ \E k \in Kinds : PlanTableWrite(w, k)
           \/ PlanPreparedWrite(w) \/ AppendRows(w) \/ Rollback(w) \/ FlushRows(w)
  <2>1. /\ acked' = acked /\ commitAt' = commitAt
        /\ \E p \in {"idle", "open", "flushed"} : wpc' = [wpc EXCEPT ![w] = p]
    BY <1>2 DEF PlanTableWrite, PlanPreparedWrite, AppendRows, Issue, Rollback, FlushRows, tableVars
  <2> QED
    BY <1>1, <2>1 DEF Untold
<1>3. CASE CommitRows(w)
  <2>1. /\ acked' = acked /\ commitAt' = [commitAt EXCEPT ![w] = Len(log) + 1]
        /\ wpc' = [wpc EXCEPT ![w] = "committed"]
    BY <1>3 DEF CommitRows
  <2>2. /\ commitAt'[w] = Len(log) + 1 /\ Len(log) + 1 \notin acked
        /\ \A v \in Writers \ {w} : /\ commitAt'[v] = commitAt[v] /\ wpc'[v] = wpc[v]
                                    /\ commitAt[v] # Len(log) + 1
    BY <1>1, <2>1
  <2> QED
    BY <2>1, <2>2 DEF Untold
<1>4. CASE AdvancePlanned(w)
  <2>1. /\ acked' = acked /\ commitAt' = commitAt /\ wpc[w] = "committed"
        /\ \A v \in Writers \ {w} : wpc'[v] = wpc[v]
    BY <1>1, <1>4 DEF AdvancePlanned, tableVars
  <2> QED
    BY <2>1 DEF Untold
<1>5. CASE InvalidateAfterCommit(w)
  <2>1. /\ acked' = acked \cup {commitAt[w]} /\ wpc[w] = "advanced" /\ wpc'[w] = "idle"
        /\ \A v \in Writers \ {w} : wpc'[v] = wpc[v] /\ commitAt'[v] = commitAt[v]
    BY <1>1, <1>5 DEF InvalidateAfterCommit
  <2> QED
    BY <2>1 DEF Untold
<1>6. CASE DropSavedCsrs(w)
  <2>1. acked' = acked /\ commitAt' = commitAt /\ wpc' = wpc
    BY <1>6 DEF DropSavedCsrs, DropCheck, DropSelect, DropFoundNone, DropDelete, tableVars,
                writerVars
  <2> QED
    BY <2>1 DEF Untold
<1> QED
  BY <1>2, <1>3, <1>4, <1>5, <1>6 DEF WriterStep, Finishing

LEMMA AskedStays ==
    ASSUME NEW states \in Seq(State), NEW more \in Seq(State), Extends(states, more),
           NEW c, c.since \in SUBSET (1..Len(states)), NEW p, NEW list, NEW list2,
           p \in CatchUpPlaces \cup {"lock"} => list2[c.snap].at = list[c.snap].at,
           c.lease.snap # 0 => /\ list2[c.lease.snap].at = list[c.lease.snap].at
                               /\ list2[c.lease.snap].base = list[c.lease.snap].base,
           Asked(c, p, list, states)
    PROVE  Asked(c, p, list2, more)
<1>1. \A j \in c.since : more[j] = states[j]
  BY DEF Extends
<1> QED
  BY <1>1 DEF Asked, NoneDestroyed

(* The snapshots there are were built from what they were built from. *)
BuiltAsBefore ==
    \A i \in 1..Len(snaps) : snaps'[i].at = snaps[i].at /\ snaps'[i].base = snaps[i].base

(* What a session's step owes. *)
LEMMA AskedKeeps ==
    ASSUME TypeOK, VersionInv, AskedInv, NEW s \in Sessions, SessionStep(s), Others(s),
           BuiltAsBefore, Asked(call'[s], spc'[s], snaps', log)
    PROVE  AskedInv'
<1>1. UNCHANGED <<log, acked, wpc, commitAt>>
  BY SessionLeaves DEF tableVars, writerVars
<1>2. Untold'
  BY <1>1 DEF AskedInv, Untold
<1>3. ASSUME NEW t \in Sessions \ {s}
      PROVE  Asked(call'[t], spc'[t], snaps', log)
  <2>1. call'[t] = call[t] /\ spc'[t] = spc[t] /\ Asked(call[t], spc[t], snaps, log)
    BY DEF Others, AskedInv
  <2>2. call[t].since \in SUBSET (1..Len(log)) /\ log \in Seq(State) /\ Extends(log, log)
    <3>1. call[t].since \subseteq acked
      BY DEF VersionInv, Reads
    <3> QED
      BY <3>1, ObserverTypes DEF Extends
  <2>3. spc[t] \in CatchUpPlaces \cup {"lock"} => snaps'[call[t].snap].at = snaps[call[t].snap].at
    BY CatchUpSnapshot DEF CatchUpPlaces, BuiltAsBefore
  <2>4. call[t].lease.snap # 0 =>
           /\ snaps'[call[t].lease.snap].at = snaps[call[t].lease.snap].at
           /\ snaps'[call[t].lease.snap].base = snaps[call[t].lease.snap].base
    BY LeasedSnapshot DEF BuiltAsBefore
  <2> QED
    BY <2>1, <2>2, <2>3, <2>4, AskedStays
<1> QED
  BY <1>1, <1>2, <1>3 DEF AskedInv

(* A statement that is not about to catch up, with the lease it had or none. *)
LEMMA AskedAside ==
    ASSUME TypeOK, AskedInv, NEW s \in Sessions, BuiltAsBefore,
           call'[s].op = call[s].op, call'[s].since = call[s].since,
           call'[s].lease = call[s].lease \/ call'[s].lease.snap = 0,
           spc'[s] \notin CatchUpPlaces \cup {"lock"}
    PROVE  Asked(call'[s], spc'[s], snaps', log)
<1>1. Asked(call[s], spc[s], snaps, log)
  BY DEF AskedInv
<1>2. CASE call'[s].lease.snap = 0
  BY <1>2 DEF Asked
<1>3. CASE call'[s].lease = call[s].lease /\ call[s].lease.snap # 0
  <2>1. /\ snaps'[call[s].lease.snap].at = snaps[call[s].lease.snap].at
        /\ snaps'[call[s].lease.snap].base = snaps[call[s].lease.snap].base
    BY <1>3, LeasedSnapshot DEF BuiltAsBefore
  <2> QED
    BY <1>1, <1>3, <2>1 DEF Asked
<1> QED
  BY <1>2, <1>3

(* A snapshot whose generations stand when it is looked up lacks nothing destructive that
   was acknowledged, and one that is current nothing at all unless an appender wrote it. *)
LEMMA LookedUp ==
    ASSUME TypeOK, GenInv, Untold, NEW i \in 1..Len(snaps), snaps[i].at # 0,
           NEW commits \in SUBSET acked, NEW version,
           Current(snaps[i], version) \/ CanCatchUp(snaps[i])
    PROVE  /\ NoneDestroyed(snaps[i].at, commits, log)
           /\ Current(snaps[i], version) /\ "appender" \notin Kinds =>
                 \A j \in commits : j <= snaps[i].at
<1>1. /\ snaps[i] \in GoodSnapshots /\ snaps[i] \in Snapshots
      /\ writeGen \in Nat /\ destrGen \in Nat /\ tableGen \in Nat
  BY ObserverTyped DEF GenInv, GoodSnapshots
<1>2. snaps[i].at \in Nat
  BY <1>1 DEF Snapshots
<1>3. ~Behind(snaps[i])
  BY <1>1 DEF Behind, Current, CanCatchUp, GoodSnapshots
<1>4. ASSUME NEW j \in commits, ~(j <= snaps[i].at)
      PROVE  j \in (snaps[i].at + 1)..Len(log) /\ ~Unannounced(j)
  <2>1. j \in 1..Len(log) /\ j \in acked
    BY ObserverTypes
  <2> QED
    BY <1>2, <1>4, <2>1 DEF Unannounced, Untold
<1>5. NoneDestroyed(snaps[i].at, commits, log)
  BY <1>1, <1>3, <1>4 DEF NoneDestroyed, GoodSnapshots, NoneMissed
<1>6. ASSUME Current(snaps[i], version), "appender" \notin Kinds, NEW j \in commits
      PROVE  j <= snaps[i].at
  BY <1>1, <1>4, <1>6 DEF Current, GoodSnapshots, AllCounted
<1> QED
  BY <1>5, <1>6

(* A lookup finds a snapshot for the statement to follow, or the arrays to read alone. *)
LEMMA FindAsked ==
    ASSUME TypeOK, VersionInv, GenInv, NothingSavedInv, AskedInv, NEW s \in Sessions, Find(s)
    PROVE  Asked(call'[s], spc'[s], snaps, log)
<1> DEFINE prepared == Prepared(call[s].version, WantsFull(s))
           follow == {i \in Kept(call[s].version) : CanCatchUp(snaps[i])}
<1>1. Asked(call[s], spc[s], snaps, log) /\ call[s].since \in SUBSET acked /\ Untold
  BY DEF AskedInv, VersionInv, Reads
<1>2. \A i \in prepared \cup follow :
         /\ i \in 1..Len(snaps) /\ snaps[i].at # 0
         /\ i \in prepared => Current(snaps[i], call[s].version)
         /\ i \in follow => CanCatchUp(snaps[i])
  BY SnapsLength DEF Prepared, Kept, NothingSavedInv, TypeOK
<1>3. \A i \in prepared \cup follow :
         /\ NoneDestroyed(snaps[i].at, call[s].since, log)
         /\ i \in prepared /\ "appender" \notin Kinds =>
               \A j \in call[s].since : j <= snaps[i].at
  BY <1>1, <1>2, LookedUp
<1> HIDE DEF prepared, follow
<1>4. CASE call[s].op \in {"algorithm", "narrow", "unchanged"} /\ prepared # {}
  <2>1. PICK i \in prepared : Lease(s, i, snaps[i].base)
    BY <1>4 DEF Find, prepared
  <2> DEFINE c == [NoCall EXCEPT !.op = call[s].op, !.since = call[s].since,
                       !.lease = [snap |-> i, rows |-> snaps[i].base],
                       !.acquires = call[s].acquires + 1]
  <2>2. c.since = call[s].since /\ c.lease.snap = i /\ c.lease.rows = snaps[i].base
    BY DEF NoCall
  <2>3. call' = [call EXCEPT ![s] = c]
    BY <2>1 DEF Lease
  <2> HIDE DEF c
  <2>4. call'[s] = c
    BY <2>3, Called
  <2>5. spc'[s] \in {"save", "unsave", "leased"}
    BY <2>1, CallTyped DEF Lease, Goto
  <2> QED
    BY <1>3, <2>2, <2>4, <2>5 DEF Asked, CatchUpPlaces
<1>5. ASSUME NEW i, NEW p, p \in {"load", "claim", "failed", "lock"}, Goto(s, p), Looked(s, i),
             p = "lock" => i \in prepared \cup follow /\ call[s].op \notin ArraysOnly
      PROVE  Asked(call'[s], spc'[s], snaps, log)
  <2> DEFINE c == [call[s] EXCEPT !.version = 0, !.snap = i]
  <2>1. c.op = call[s].op /\ c.since = call[s].since /\ c.lease = call[s].lease /\ c.snap = i
    BY CallTyped DEF Calls
  <2>2. call' = [call EXCEPT ![s] = c]
    BY <1>5, CallTyped DEF Looked
  <2> HIDE DEF c
  <2>3. call'[s] = c /\ spc'[s] = p
    BY <1>5, <2>2, Called, Moved
  <2> QED
    BY <1>1, <1>3, <1>5, <2>1, <2>3 DEF Asked, CatchUpPlaces
<1>6. CASE call[s].op \in {"algorithm", "narrow", "unchanged"} /\ prepared = {}
  <2>1. \E p \in {"load", "claim", "failed"} : Goto(s, p) /\ Looked(s, 0)
    BY <1>6 DEF Find, prepared
  <2> QED
    BY <1>5, <2>1
<1>7. CASE call[s].op \notin {"algorithm", "narrow", "unchanged"}
  <2>1. \/ Goto(s, "load") /\ Looked(s, 0)
        \/ Goto(s, "lock") /\ \E i \in prepared \cup follow : Looked(s, i)
    BY <1>7 DEF Find, prepared, follow
  <2> QED
    BY <1>5, <1>7, <2>1 DEF ArraysOnly
<1> QED
  BY <1>4, <1>6, <1>7

(* The catch-up stays with the snapshot it was given, and leases it. *)
LEMMA CatchUpAsked ==
    ASSUME TypeOK, VersionInv, AskedInv, NEW s \in Sessions, BuiltAsBefore,
           \/ LockCatchUp(s) \/ CheckSynced(s) \/ StoreDelta(s)
           \/ Scan(s) /\ ScanFits(snaps[call[s].snap], call[s].rows)
    PROVE  Asked(call'[s], spc'[s], snaps', log)
<1> DEFINE i == call[s].snap
<1>1. spc[s] \in CatchUpPlaces \cup {"lock"}
  BY DEF LockCatchUp, CheckSynced, Scan, StoreDelta, At, CatchUpPlaces
<1>2. i \in 1..Len(snaps) /\ Asked(call[s], spc[s], snaps, log)
  BY <1>1, CatchUpSnapshot DEF CatchUpPlaces, AskedInv
<1>3. /\ snaps'[i].at = snaps[i].at /\ call[s].op \notin ArraysOnly
      /\ NoneDestroyed(snaps[i].at, call[s].since, log)
  BY <1>1, <1>2 DEF BuiltAsBefore, Asked
<1>4. ASSUME NEW gen, NEW rows, NEW p,
             call' = [call EXCEPT ![s] = [call[s] EXCEPT !.gen = gen, !.rows = rows]], Goto(s, p)
      PROVE  Asked(call'[s], spc'[s], snaps', log)
  <2> DEFINE c == [call[s] EXCEPT !.gen = gen, !.rows = rows]
  <2>1. /\ c.op = call[s].op /\ c.since = call[s].since /\ c.lease = call[s].lease
        /\ c.snap = call[s].snap
    BY CallTyped DEF Calls
  <2> HIDE DEF c
  <2>2. call'[s] = c
    BY <1>4, Called DEF c
  <2>3. call[s].lease.snap # 0 => snaps'[call[s].lease.snap].at = snaps[call[s].lease.snap].at
    BY LeasedSnapshot DEF BuiltAsBefore
  <2> QED
    BY <1>2, <1>3, <2>1, <2>2, <2>3 DEF Asked
<1>5. ASSUME NEW rows, Lease(s, i, rows)
      PROVE  Asked(call'[s], spc'[s], snaps', log)
  <2> DEFINE c == [NoCall EXCEPT !.op = call[s].op, !.since = call[s].since,
                       !.lease = [snap |-> i, rows |-> rows], !.acquires = call[s].acquires + 1]
  <2>1. c.op = call[s].op /\ c.since = call[s].since /\ c.lease.snap = i
    BY DEF NoCall
  <2>2. call' = [call EXCEPT ![s] = c]
    BY <1>5 DEF Lease
  <2> HIDE DEF c
  <2>3. call'[s] = c
    BY <2>2, Called
  <2>4. spc'[s] \in {"save", "unsave", "leased"}
    BY <1>5, CallTyped DEF Lease, Goto
  <2> QED
    BY <1>3, <2>1, <2>3, <2>4 DEF Asked, CatchUpPlaces
<1>6. CASE LockCatchUp(s)
  <2>1. [call[s] EXCEPT !.gen = dbGen] = [call[s] EXCEPT !.gen = dbGen, !.rows = call[s].rows]
    BY CallTyped DEF Calls
  <2> QED
    BY <1>4, <1>6, <2>1 DEF LockCatchUp
<1>7. ASSUME NEW rows, NEW p, call' = [call EXCEPT ![s] = [call[s] EXCEPT !.rows = rows]],
             Goto(s, p)
      PROVE  Asked(call'[s], spc'[s], snaps', log)
  <2>1. [call[s] EXCEPT !.rows = rows] = [call[s] EXCEPT !.gen = call[s].gen, !.rows = rows]
    BY CallTyped DEF Calls
  <2> QED
    BY <1>4, <1>7, <2>1
<1>8. CASE CheckSynced(s)
  BY <1>5, <1>7, <1>8 DEF CheckSynced
<1>9. CASE Scan(s) /\ ScanFits(snaps[call[s].snap], call[s].rows)
  BY <1>7, <1>9 DEF Scan
<1>10. CASE StoreDelta(s)
  BY <1>5, <1>10 DEF StoreDelta
<1> QED
  BY <1>6, <1>8, <1>9, <1>10

(* A build keeps what the statement may expect. *)
LEMMA BuildAsked ==
    ASSUME TypeOK, AskedInv, NEW s \in Sessions, BuiltAsBefore,
           BuildGenerations(s) \/ BuildRead(s) \/ BuildValidate(s) \/ Publish(s)
    PROVE  Asked(call'[s], spc'[s], snaps', log)
<1>1. ASSUME NEW work, NEW p, p \notin CatchUpPlaces \cup {"lock"},
             call' = [call EXCEPT ![s] = [call[s] EXCEPT !.work = work]], Goto(s, p)
      PROVE  Asked(call'[s], spc'[s], snaps', log)
  <2> DEFINE c == [call[s] EXCEPT !.work = work]
  <2>1. c.op = call[s].op /\ c.since = call[s].since /\ c.lease = call[s].lease
    BY CallTyped DEF Calls
  <2> HIDE DEF c
  <2>2. call'[s] = c /\ spc'[s] = p
    BY <1>1, Called, Moved DEF c
  <2> QED
    BY <1>1, <2>1, <2>2, AskedAside
<1>2. CASE BuildGenerations(s)
  <2>1. Goto(s, "read") /\ \E work : call' = [call EXCEPT ![s].work = work]
    BY <1>2 DEF BuildGenerations
  <2> QED
    BY <1>1, <2>1, CallTyped DEF CatchUpPlaces
<1>3. CASE BuildRead(s)
  <2>1. Goto(s, "validate") /\ \E work : call' = [call EXCEPT ![s].work = work]
    BY <1>3, CallTyped DEF BuildRead
  <2> QED
    BY <1>1, <2>1, CallTyped DEF CatchUpPlaces
<1>4. CASE BuildValidate(s)
  <2>1. call' = call /\ \E p \in {"publish", "fail"} : Goto(s, p)
    BY <1>4 DEF BuildValidate
  <2>2. spc'[s] \in {"publish", "fail"}
    BY <2>1, Moved
  <2> QED
    BY <2>1, <2>2, AskedAside DEF CatchUpPlaces
<1>5. CASE Publish(s)
  <2>1. /\ \E work : call' = [call EXCEPT ![s].work = work]
        /\ \E p \in {"version", "release"} : Goto(s, p)
    BY <1>5 DEF Publish
  <2> QED
    BY <1>1, <2>1, CallTyped DEF CatchUpPlaces
<1> QED
  BY <1>2, <1>3, <1>4, <1>5

(* The steps that only move on do not go to the catch-up. *)
LEMMA PlainAsked ==
    ASSUME TypeOK, AskedInv, NEW s \in Sessions, BuiltAsBefore,
           \/ ReadVersion(s) \/ LoadCheck(s) \/ Claim(s) \/ Wait(s) \/ BuildThrows(s) \/ Release(s)
           \/ ReleaseFailed(s) \/ SaveFlag(s) \/ SaveWrite(s) \/ SaveCheck(s) \/ Unsave(s)
           \/ Reacquire(s)
           \/ Scan(s) /\ ~ScanFits(snaps[call[s].snap], call[s].rows)
    PROVE  Asked(call'[s], spc'[s], snaps', log)
<1>1. MovesOn(s)
  BY PlainMoves
<1>2. spc'[s] # "lock"
  <2>1. CASE Reacquire(s)
    BY <2>1, Moved DEF Reacquire, At
  <2>2. CASE Claim(s) \/ Release(s) \/ ReleaseFailed(s)
    BY <2>2, ReleaseLocals
  <2>3. CASE ~Reacquire(s) /\ ~Claim(s) /\ ~Release(s) /\ ~ReleaseFailed(s)
    <3>1. PICK p \in Places \ {"lock"} : Goto(s, p)
      BY <2>3 DEF ReadVersion, LoadCheck, NotLoaded, Wait, BuildThrows, SaveFlag, SaveWrite,
                  SaveCheck, Unsave, Scan, Rebuild, Places
    <3> QED
      BY <3>1, Moved
  <2> QED
    BY <2>1, <2>2, <2>3
<1> QED
  BY <1>1, <1>2, AskedAside DEF MovesOn, PlainPlaces, CatchUpPlaces

(* A session's step changes no snapshot's arrays, and another's statement not at all. *)
LEMMA SessionsBuiltAsBefore ==
    ASSUME TypeOK, NEW s \in Sessions, SessionStep(s), ~Dropping(s)
    PROVE  Others(s) /\ BuiltAsBefore
<1>1. CASE LockCatchUp(s) \/ Scan(s) \/ (CheckSynced(s) /\ ~Leases(s))
  BY <1>1, QuietLocals DEF Quiet, BuiltAsBefore
<1>2. CASE CheckSynced(s) /\ Leases(s)
  BY <1>2, LeaseLocals DEF CheckSynced, BuiltAsBefore
<1>3. CASE StoreDelta(s)
  <2>1. /\ call[s].snap \in 1..Len(snaps) /\ snaps[call[s].snap] \in Snapshots
        /\ snaps \in Seq(Snapshots)
    BY <1>3, CatchUpSnapshot, CallTyped DEF StoreDelta, At
  <2> DEFINE new == CaughtUp(snaps[call[s].snap], call[s])
  <2>2. /\ snaps' = [snaps EXCEPT ![call[s].snap] = new]
        /\ new.at = snaps[call[s].snap].at /\ new.base = snaps[call[s].snap].base
    BY <1>3, <2>1 DEF StoreDelta, CaughtUp, SyncGeneration, Snapshots
  <2> HIDE DEF new
  <2>3. BuiltAsBefore
    BY <2>1, <2>2 DEF BuiltAsBefore
  <2>4. Leases(s)
    BY <1>3 DEF StoreDelta, Leases
  <2> QED
    BY <2>3, <2>4, LeaseLocals
<1>4. CASE ~LockCatchUp(s) /\ ~CheckSynced(s) /\ ~Scan(s) /\ ~StoreDelta(s)
  BY <1>4, AsideStep, KeptSame DEF BuiltAsBefore
<1> QED
  BY <1>1, <1>2, <1>3, <1>4

LEMMA AskedSession ==
    ASSUME TypeOK, VersionInv, GenInv, NothingSavedInv, AskedInv,
           NEW s \in Sessions, SessionStep(s)
    PROVE  AskedInv'
<1>1. CASE Dropping(s)
  <2>1. UNCHANGED <<log, acked, wpc, commitAt, snaps, call, spc>>
    BY <1>1, SessionLeaves DEF Dropping, storageVars, sessionVars, tableVars, writerVars
  <2> QED
    BY <2>1 DEF AskedInv, Untold
<1>2. CASE ~Dropping(s)
  <2>1. Others(s) /\ BuiltAsBefore
    BY <1>2, SessionsBuiltAsBefore
  <2> SUFFICES Asked(call'[s], spc'[s], snaps', log)
    BY <2>1, AskedKeeps
  <2>2. ASSUME NEW c, NEW p, call' = [call EXCEPT ![s] = c], c.lease.snap = 0, Goto(s, p),
               p \notin CatchUpPlaces \cup {"lock"}
        PROVE  Asked(call'[s], spc'[s], snaps', log)
    BY <2>2, Called, Moved DEF Asked
  <2>3. ASSUME NEW op \in Operations, Begin(s, op)
        PROVE  Asked(call'[s], spc'[s], snaps', log)
    <3> DEFINE c == [NoCall EXCEPT !.op = op, !.since = acked]
    <3>1. call[s] = NoCall
      BY <2>3 DEF Begin, At, VersionInv, Reads
    <3>2. call' = [call EXCEPT ![s] = c]
      BY <2>3, <3>1, CallTyped DEF Begin
    <3>3. c.lease.snap = 0
      BY DEF NoCall, NoLease
    <3> HIDE DEF c
    <3>4. PICK p \in {"generations", "version"} : Goto(s, p)
      BY <2>3 DEF Begin
    <3> QED
      BY <2>2, <3>2, <3>3, <3>4 DEF CatchUpPlaces
  <2>4. CASE Finish(s)
    <3>1. NoCall.lease.snap = 0
      BY DEF NoCall, NoLease
    <3> QED
      BY <2>2, <2>4, <3>1 DEF Finish, CatchUpPlaces
  <2>5. CASE Find(s)
    <3>1. snaps' = snaps
      BY <2>5 DEF Find
    <3> QED
      BY <2>5, <3>1, FindAsked
  <2>6. CASE \/ LockCatchUp(s) \/ CheckSynced(s) \/ StoreDelta(s)
             \/ Scan(s) /\ ScanFits(snaps[call[s].snap], call[s].rows)
    BY <2>1, <2>6, CatchUpAsked
  <2>7. CASE \/ ReadVersion(s) \/ LoadCheck(s) \/ Claim(s) \/ Wait(s) \/ BuildThrows(s)
             \/ Release(s) \/ ReleaseFailed(s) \/ SaveFlag(s) \/ SaveWrite(s) \/ SaveCheck(s)
             \/ Unsave(s) \/ Reacquire(s)
             \/ Scan(s) /\ ~ScanFits(snaps[call[s].snap], call[s].rows)
    BY <2>1, <2>7, PlainAsked
  <2>8. CASE BuildGenerations(s) \/ BuildRead(s) \/ BuildValidate(s) \/ Publish(s)
    BY <2>1, <2>8, BuildAsked
  <2>9. CASE LoadRead(s)
    <3> DEFINE c == [call[s] EXCEPT !.gen = 0]
    <3>1. call' = [call EXCEPT ![s] = c]
      BY <2>9, CallTyped DEF LoadRead, NothingSavedInv
    <3>2. c.op = call[s].op /\ c.since = call[s].since /\ c.lease = call[s].lease
      BY CallTyped DEF Calls
    <3> HIDE DEF c
    <3>3. PICK p \in {"claim", "failed"} : Goto(s, p)
      BY <2>9 DEF LoadRead, NotLoaded, NothingSavedInv
    <3>4. call'[s] = c /\ spc'[s] = p
      BY <3>1, <3>3, Called, Moved
    <3> QED
      BY <2>1, <3>2, <3>4, AskedAside DEF CatchUpPlaces
  <2>10. ~LoadStamp(s) /\ ~LoadPublish(s)
    BY DEF LoadStamp, LoadPublish, At, NothingSavedInv
  <2> QED
    BY <1>2, <2>3, <2>4, <2>5, <2>6, <2>7, <2>8, <2>9, <2>10 DEF SessionStep, Resolving
<1> QED
  BY <1>1, <1>2

LEMMA AskedStep ==
    ASSUME TypeOK, TypeOK', VersionInv, GenInv, NothingSavedInv, AskedInv, [Next]_vars
    PROVE  AskedInv'
<1>1. ASSUME NEW w \in Writers, Writing(w)
      PROVE  AskedInv'
  <2>1. WriterStep(w) /\ UNCHANGED <<snaps, call, spc>>
    BY <1>1 DEF Writing, storageVars, sessionVars
  <2>2. Untold'
    BY <2>1, UntoldStep DEF AskedInv
  <2>3. log \in Seq(State) /\ log' \in Seq(State) /\ Extends(log, log')
    <3>1. log \in Seq(State) /\ log' \in Seq(State)
      BY DEF TypeOK, ObserverTypeOK, LogTypeOK, State
    <3>2. log' = log \/ \E state : log' = Append(log, state)
      BY <2>1 DEF WriterStep, Finishing, PlanTableWrite, PlanPreparedWrite, AppendRows, Issue,
                  Rollback, FlushRows, CommitRows, AdvancePlanned, InvalidateAfterCommit,
                  DropSavedCsrs, DropCheck, DropSelect, DropFoundNone, DropDelete, tableVars
    <3>3. ASSUME NEW state, log' = Append(log, state)
          PROVE  Extends(log, log')
      BY <3>1, <3>3 DEF Extends
    <3> QED
      BY <3>1, <3>2, <3>3 DEF Extends
  <2>4. ASSUME NEW s \in Sessions
        PROVE  Asked(call[s], spc[s], snaps, log')
    <3>1. call[s].since \in SUBSET (1..Len(log)) /\ Asked(call[s], spc[s], snaps, log)
      BY ObserverTypes DEF AskedInv, VersionInv, Reads
    <3> QED
      BY <2>3, <3>1, AskedStays
  <2> QED
    BY <2>1, <2>2, <2>4 DEF AskedInv
<1>2. CASE Crash
  <2>1. Untold'
    BY <1>2 DEF Crash, Untold
  <2>2. NoCall.lease.snap = 0
    BY DEF NoCall, NoLease
  <2>3. \A s \in Sessions : call'[s] = NoCall /\ spc'[s] = "idle"
    BY <1>2 DEF Crash
  <2> QED
    BY <2>1, <2>2, <2>3 DEF AskedInv, Asked, CatchUpPlaces
<1>3. CASE UNCHANGED vars
  BY <1>3 DEF vars, observerVars, tableVars, writerVars, storageVars, sessionVars, AskedInv, Untold
<1> QED
  BY <1>1, <1>2, <1>3, AskedSession DEF Next, Ended

LEMMA OneRowAt ==
    ASSUME NEW rows, OneRowEach(rows), NEW r \in rows
    PROVE  RowAt(rows, r[1]) = {r[2]}
BY DEF OneRowEach, RowAt

(* Rows gathered from commits are fresh: the one the statement expects of a row is not after
   the commit the row was taken from, or it would be an update of it that came after the
   snapshot. *)
LEMMA GatheredIsFresh ==
    ASSUME TypeOK, VersionInv, NothingDeleted, NEW s \in Sessions, call[s].since \subseteq acked,
           NEW at \in 1..Len(log), Gathered(call[s].lease.rows, at, call[s].since, log),
           NoneDestroyed(at, call[s].since, log)
    PROVE  Fresh(s)
<1> DEFINE rows == call[s].lease.rows
<1>1. PICK k \in at..Len(log) :
         /\ Ids(rows) = Ids(log[k].rows)
         /\ \A j \in call[s].since : j <= k \/ log[j].rows = log[j - 1].rows
  BY DEF Gathered
<1>2. /\ Len(log) \in Nat /\ k \in 1..Len(log) /\ acked \subseteq 1..Len(log)
      /\ \A j \in 1..Len(log) : OneRowEach(log[j].rows)
      /\ \A j, m \in 1..Len(log) : j < m => Ids(log[j].rows) \subseteq Ids(log[m].rows)
      /\ \A j \in 2..Len(log) : ~log[j].destructive => log[j - 1].rows \subseteq log[j].rows
  <2>1. Len(log) \in Nat /\ k \in 1..Len(log) /\ acked \subseteq 1..Len(log)
    BY ObserverTypes
  <2>2. LogGrows
    BY DEF VersionInv
  <2>3. ASSUME NEW j \in 2..Len(log), ~log[j].destructive
        PROVE  log[j - 1].rows \subseteq log[j].rows
    <3>1. j - 1 \in 1..Len(log) /\ j \in 1..Len(log) /\ j - 1 < j /\ (j - 1) + 1 = j
      BY <2>1
    <3>2. \A m \in ((j - 1) + 1)..j : m = j
      BY <3>1
    <3> QED
      BY <2>2, <2>3, <3>1, <3>2 DEF LogGrows
  <2> QED
    BY <2>1, <2>2, <2>3 DEF LogGrows
<1>3. Ids(rows) \subseteq RowIds
  <2>1. Ids(log[k].rows) \subseteq RowIds
    BY <1>2 DEF RowIds, Ids
  <2> QED
    BY <1>1, <2>1
<1> SUFFICES ASSUME NEW i \in RowIds
             PROVE  \E n \in LastAcked(s, i)..Len(log) : RowAt(rows, i) = RowAt(log[n].rows, i)
  BY <1>3 DEF Fresh
<1> DEFINE m == LastAcked(s, i)
<1>4. /\ m \in (call[s].since \cup {1}) \cap (1..Len(log))
      /\ \/ m = 1
         \/ /\ m \in call[s].since \ {1}
            /\ RowAt(log[m].rows, i) # RowAt(log[m - 1].rows, i)
  BY LastAckedIs
<1> HIDE DEF m
<1>5. m <= k
  BY <1>1, <1>2, <1>4
<1>6. CASE i \notin Ids(rows)
  <2>1. RowAt(rows, i) = {} /\ RowAt(log[k].rows, i) = {}
    BY <1>1, <1>6 DEF Ids, RowAt
  <2> QED
    BY <1>2, <1>4, <1>5, <2>1 DEF m
<1>7. CASE i \in Ids(rows)
  <2>1. PICK r \in rows : r[1] = i
    BY <1>7 DEF Ids
  <2>2. PICK j \in at..Len(log) : r \in log[j].rows
    BY <2>1 DEF Gathered
  <2>3. j \in 1..Len(log) /\ at <= j
    BY <1>2, <2>2
  <2>4. RowAt(rows, i) = {r[2]} /\ RowAt(log[j].rows, i) = {r[2]}
    BY <1>2, <2>1, <2>2, <2>3, OneRowAt DEF Gathered
  <2>5. CASE m <= j
    BY <1>2, <1>4, <2>3, <2>4, <2>5 DEF m
  <2>6. CASE ~(m <= j)
    <3>1. m \in call[s].since /\ m \in 2..Len(log) /\ j <= m - 1
      BY <1>2, <1>4, <2>3, <2>6
    <3>2. ~log[m].destructive
      BY <1>2, <2>3, <2>6, <3>1 DEF NoneDestroyed
    <3>3. log[m - 1].rows \subseteq log[m].rows
      BY <1>2, <3>1, <3>2
    <3>4. Ids(log[j].rows) \subseteq Ids(log[m - 1].rows) /\ m - 1 \in 1..Len(log)
      BY <1>2, <2>3, <3>1
    <3>5. PICK q \in log[m - 1].rows : q[1] = i
      BY <2>1, <2>2, <3>4 DEF Ids
    <3>6. RowAt(log[m - 1].rows, i) = {q[2]} /\ RowAt(log[m].rows, i) = {q[2]}
      BY <1>2, <3>1, <3>3, <3>4, <3>5, OneRowAt
    <3> QED
      BY <1>4, <2>6, <2>3, <3>6
  <2> QED
    BY <2>5, <2>6
<1> QED
  BY <1>6, <1>7

LEMMA LeasesFresh ==
    ASSUME TypeOK, VersionInv, NothingSavedInv, AskedInv, NothingDeleted,
           Operations \subseteq ReadWithDelta \/ "appender" \notin Kinds
    PROVE  LeaseFresh
<1> SUFFICES ASSUME NEW s \in Sessions, HasLease(s)
             PROVE  Fresh(s)
  BY DEF LeaseFresh
<1> DEFINE snap == snaps[call[s].lease.snap]
<1>1. /\ Reads(call[s], spc[s], snaps, log, acked, dbGen)
      /\ Asked(call[s], spc[s], snaps, log)
      /\ call[s].lease.snap # 0 /\ call[s].lease.snap \in 1..Len(snaps)
  BY LeasedSnapshot DEF HasLease, VersionInv, AskedInv
<1>2. snap.at # 0 /\ Sound(snap, log, acked, dbGen)
  BY <1>1 DEF NothingSavedInv, VersionInv
<1>3. Whole(snap, log)
  BY <1>2 DEF Sound, Complete
<1>4. snap.at \in 1..Len(log) /\ snap.base = log[snap.at].rows
  BY <1>3 DEF Whole
<1>5. call[s].since \subseteq acked /\ NoneDestroyed(snap.at, call[s].since, log)
  BY <1>1 DEF Reads, Asked
<1>6. CASE call[s].op \notin ArraysOnly
  <2>1. Gathered(call[s].lease.rows, snap.at, call[s].since, log)
    BY <1>1, <1>2, <1>6 DEF Reads, Serves
  <2> QED
    BY <1>4, <1>5, <2>1, GatheredIsFresh
<1>7. CASE call[s].op \in ArraysOnly
  <2>1. "appender" \notin Kinds
    BY <1>1, <1>7 DEF Reads, ArraysOnly, ReadWithDelta
  <2>2. call[s].lease.rows = snap.base /\ \A j \in call[s].since : j <= snap.at
    BY <1>1, <1>7, <2>1 DEF Asked
  <2> DEFINE at == snap.at
  <2>3. at \in 1..Len(log) /\ at <= at /\ call[s].lease.rows = log[at].rows
    BY <1>4, <2>2, ObserverTypes
  <2>4. \A j \in call[s].since : j <= at
    BY <2>2
  <2> HIDE DEF at
  <2>5. Version(call[s].lease.rows, at, call[s].since, log)
    BY <2>3, <2>4 DEF Version
  <2> QED
    BY <1>5, <2>5, VersionIsFresh
<1> QED
  BY <1>6, <1>7

(* Every lease is fresh, whatever was updated or inserted before, during or after the
   catch-up that gave it, as long as nothing is deleted and no saved CSR is loaded: the
   row counts a scan compares can hide an insert behind a delete only.  A statement that
   reads the arrays of a current snapshot alone misses the rows of an appender, which
   advance no generation of the table. *)
THEOREM LeasesAreFresh ==
    ASSUME "delete" \notin Kinds, "build" \notin Operations,
           Operations \subseteq ReadWithDelta \/ "appender" \notin Kinds
    PROVE  Spec => []LeaseFresh
<1>1. NothingDeleted
  BY DEF NothingDeleted
<1>2. Init => NothingSavedInv
  BY DEF Init, InitObserver, InitStorage, NothingSavedInv
<1>3. TypeOK /\ VersionInv /\ NothingSavedInv /\ [Next]_vars => NothingSavedInv'
  BY NothingSavedStep
<1>4. Init => AskedInv
  <2>1. NoCall.lease.snap = 0
    BY DEF NoCall, NoLease
  <2> QED
    BY <2>1 DEF Init, InitObserver, InitStorage, AskedInv, Untold, Asked, CatchUpPlaces
<1>5. /\ TypeOK /\ TypeOK' /\ VersionInv /\ GenInv /\ NothingSavedInv /\ AskedInv /\ [Next]_vars
      => AskedInv'
  BY AskedStep
<1>6. TypeOK /\ VersionInv /\ NothingSavedInv /\ AskedInv => LeaseFresh
  BY <1>1, LeasesFresh
<1> QED
  BY <1>2, <1>3, <1>4, <1>5, <1>6, VersionAlways, GenAlways, PTL DEF Spec

-----------------------------------------------------------------------------
(* The refinement of GraphLeases: what more it takes. *)

(* A statement that holds its lease. *)
LeasedPlaces == {"save", "save_write", "save_check", "unsave", "leased"}

(* Nothing was announced against a snapshot. *)
Unthreatened(snap) == snap.write = 0 /\ snap.destr = 0

(* Writers that only insert advance no generation a lease is checked against; a statement
   has a lease in some places and none in the others. *)
OnlyInserts ==
    /\ writeGen = 0 /\ destrGen = 0
    /\ Undisturbed
    /\ \A w \in Writers : /\ stmts[w] \subseteq Inserting
                          /\ planned[w].table # "destructive" /\ ~planned[w].prepared
    /\ \A i \in 1..Len(snaps) : Unthreatened(snaps[i])
    /\ \A s \in Sessions :
          /\ Unthreatened(call[s].work)
          /\ IF spc[s] \in LeasedPlaces THEN call[s].lease.snap # 0 ELSE call[s].lease = NoLease
          /\ spc[s] = "idle" => call[s] = NoCall

-----------------------------------------------------------------------------
(* What a statement's step does to its lease. *)

SameLease(s) == call'[s].since = call[s].since /\ call'[s].lease = call[s].lease

(* The places of a statement that has begun and has no lease. *)
AskingPlaces == Places \ (LeasedPlaces \cup {"idle"})

(* A lease is not given up before the statement ends: nothing was announced against
   its snapshot when a later operator asks for it again. *)
LEMMA ReacquireKeeps ==
    ASSUME TypeOK, OnlyInserts, NEW s \in Sessions, Reacquire(s)
    PROVE  SameLease(s) /\ spc'[s] = "leased" /\ spc[s] = "leased"
<1>1. spc[s] = "leased"
  BY DEF Reacquire, At
<1>2. call[s].lease.snap # 0
  BY <1>1 DEF OnlyInserts, LeasedPlaces
<1>3. call[s].lease.snap \in 1..Len(snaps)
  BY <1>2, CallFields, SnapsLength DEF TypeOK
<1>4. Reusable(snaps[call[s].lease.snap])
  BY <1>3 DEF OnlyInserts, Unthreatened, Reusable
<1> DEFINE c == [call[s] EXCEPT !.acquires = @ + 1]
<1>5. call' = [call EXCEPT ![s] = c] /\ spc' = spc
  BY <1>4 DEF Reacquire
<1>6. c.since = call[s].since /\ c.lease = call[s].lease
  BY CallTyped DEF Calls
<1> HIDE DEF c
<1>7. call'[s] = c
  BY <1>5, Called
<1> QED
  BY <1>1, <1>5, <1>6, <1>7 DEF SameLease

(* The steps that neither begin nor end a statement, nor give it a lease. *)
Seeks(s) ==
    \/ ReadVersion(s) \/ (Find(s) /\ ~Leases(s)) \/ LoadCheck(s) \/ LoadRead(s) \/ LoadStamp(s)
    \/ LoadPublish(s) \/ LockCatchUp(s) \/ (CheckSynced(s) /\ ~Leases(s)) \/ Scan(s)
    \/ Claim(s) \/ Wait(s) \/ BuildGenerations(s) \/ BuildRead(s) \/ BuildValidate(s)
    \/ BuildThrows(s) \/ Publish(s) \/ Release(s) \/ ReleaseFailed(s)

Saves(s) == SaveFlag(s) \/ SaveWrite(s) \/ SaveCheck(s) \/ Unsave(s)

LEMMA SeeksOn ==
    ASSUME TypeOK, NEW s \in Sessions, Seeks(s)
    PROVE  spc[s] \in AskingPlaces /\ spc'[s] \in AskingPlaces
<1>1. spc[s] \in AskingPlaces
  BY DEF Seeks, ReadVersion, Find, LoadCheck, LoadRead, LoadStamp, LoadPublish, LockCatchUp,
         CheckSynced, Scan, Claim, Wait, BuildGenerations, BuildRead, BuildValidate, BuildThrows,
         Publish, Release, ReleaseFailed, At, AskingPlaces, Places, LeasedPlaces
<1>2. CASE \/ ReadVersion(s) \/ (Find(s) /\ ~Leases(s)) \/ LoadCheck(s) \/ LoadRead(s)
           \/ LoadStamp(s) \/ LockCatchUp(s) \/ (CheckSynced(s) /\ ~Leases(s)) \/ Scan(s)
  <2>1. PICK p \in AskingPlaces : Goto(s, p)
    BY <1>2 DEF Leases, ReadVersion, Find, LoadCheck, NotLoaded, LoadRead, LoadStamp, LockCatchUp,
                CheckSynced, Scan, Rebuild, AskingPlaces, Places, LeasedPlaces
  <2> QED
    BY <1>1, <2>1, Moved
<1>3. CASE \/ LoadPublish(s) \/ Claim(s) \/ Wait(s) \/ BuildGenerations(s) \/ BuildRead(s)
           \/ BuildValidate(s) \/ BuildThrows(s) \/ Publish(s) \/ Release(s) \/ ReleaseFailed(s)
  <2>1. PICK p \in AskingPlaces : Goto(s, p)
    BY <1>3 DEF LoadPublish, Loaded, Claim, Wait, BuildGenerations, BuildRead, BuildValidate,
                BuildThrows, Publish, Release, ReleaseFailed, AskingPlaces, Places, LeasedPlaces
  <2> QED
    BY <1>1, <2>1, Moved
<1> QED
  BY <1>2, <1>3 DEF Seeks

LEMMA SavesOn ==
    ASSUME TypeOK, NEW s \in Sessions, Saves(s)
    PROVE  SameLease(s) /\ spc[s] \in LeasedPlaces /\ spc'[s] \in LeasedPlaces
<1>1. spc[s] \in LeasedPlaces /\ call' = call
  BY DEF Saves, SaveFlag, SaveWrite, SaveCheck, Unsave, At, LeasedPlaces
<1>2. PICK p \in LeasedPlaces : Goto(s, p)
  BY DEF Saves, SaveFlag, SaveWrite, SaveCheck, Unsave, LeasedPlaces
<1> QED
  BY <1>1, <1>2, Moved DEF SameLease

LEMMA SeeksKeeps ==
    ASSUME TypeOK, NEW s \in Sessions, Seeks(s)
    PROVE  SameLease(s)
<1>1. ASSUME NEW c, call' = [call EXCEPT ![s] = c],
             c.since = call[s].since, c.lease = call[s].lease
      PROVE  SameLease(s)
  BY <1>1, Called DEF SameLease
<1>2. CASE Wait(s) \/ BuildValidate(s) \/ BuildThrows(s) \/ (LoadCheck(s) /\ call' = call)
  BY <1>2 DEF Wait, BuildValidate, BuildThrows, SameLease
<1>3. ASSUME NEW v, call' = [call EXCEPT ![s] = [call[s] EXCEPT !.version = v]]
      PROVE  SameLease(s)
  <2>1. /\ [call[s] EXCEPT !.version = v].since = call[s].since
        /\ [call[s] EXCEPT !.version = v].lease = call[s].lease
    BY CallTyped DEF Calls
  <2> QED
    BY <1>1, <1>3, <2>1
<1>4. ASSUME NEW i, call' = [call EXCEPT ![s] = [call[s] EXCEPT !.version = 0, !.snap = i]]
      PROVE  SameLease(s)
  <2>1. /\ [call[s] EXCEPT !.version = 0, !.snap = i].since = call[s].since
        /\ [call[s] EXCEPT !.version = 0, !.snap = i].lease = call[s].lease
    BY CallTyped DEF Calls
  <2> QED
    BY <1>1, <1>4, <2>1
<1>5. ASSUME NEW g, NEW work,
             call' = [call EXCEPT ![s] = [call[s] EXCEPT !.gen = g, !.work = work]]
      PROVE  SameLease(s)
  <2>1. /\ [call[s] EXCEPT !.gen = g, !.work = work].since = call[s].since
        /\ [call[s] EXCEPT !.gen = g, !.work = work].lease = call[s].lease
    BY CallTyped DEF Calls
  <2> QED
    BY <1>1, <1>5, <2>1
<1>6. ASSUME NEW rows, NEW i, NEW g,
             call' = [call EXCEPT ![s] = [call[s] EXCEPT !.rows = rows, !.snap = i, !.gen = g]]
      PROVE  SameLease(s)
  <2>1. /\ [call[s] EXCEPT !.rows = rows, !.snap = i, !.gen = g].since = call[s].since
        /\ [call[s] EXCEPT !.rows = rows, !.snap = i, !.gen = g].lease = call[s].lease
    BY CallTyped DEF Calls
  <2> QED
    BY <1>1, <1>6, <2>1
<1>7. ASSUME NEW tried, NEW i,
             call' = [call EXCEPT ![s] = [call[s] EXCEPT !.work = NoSnapshot, !.tried = tried,
                                                         !.snap = i]]
      PROVE  SameLease(s)
  <2>1. /\ [call[s] EXCEPT !.work = NoSnapshot, !.tried = tried, !.snap = i].since = call[s].since
        /\ [call[s] EXCEPT !.work = NoSnapshot, !.tried = tried, !.snap = i].lease = call[s].lease
    BY CallTyped DEF Calls
  <2> QED
    BY <1>1, <1>7, <2>1
<1>8. CASE ReadVersion(s)
  BY <1>3, <1>8 DEF ReadVersion
<1>9. CASE Find(s) /\ ~Leases(s)
  <2>1. PICK i : Looked(s, i)
    BY <1>9 DEF Find, Leases
  <2>2. call' = [call EXCEPT ![s] = [call[s] EXCEPT !.version = 0, !.snap = i]]
    BY <2>1, CallTyped DEF Looked
  <2> QED
    BY <1>4, <2>2
<1>10. CASE \/ LockCatchUp(s) \/ (LoadCheck(s) /\ call' # call) \/ LoadRead(s) \/ LoadStamp(s)
            \/ BuildGenerations(s) \/ BuildRead(s) \/ Publish(s)
  <2>1. \A g : [call[s] EXCEPT !.gen = g] = [call[s] EXCEPT !.gen = g, !.work = call[s].work]
    BY CallTyped DEF Calls
  <2>2. \A work : [call[s] EXCEPT !.work = work]
                     = [call[s] EXCEPT !.gen = call[s].gen, !.work = work]
    BY CallTyped DEF Calls
  <2>3. CASE LockCatchUp(s) \/ (LoadCheck(s) /\ call' # call) \/ (LoadRead(s) /\ saved = {})
    <3>1. PICK g : call' = [call EXCEPT ![s] = [call[s] EXCEPT !.gen = g]]
      BY <2>3 DEF LockCatchUp, LoadCheck, LoadRead
    <3> QED
      BY <1>5, <2>1, <3>1
  <2>4. CASE LoadRead(s) /\ saved # {}
    <3>1. PICK work : call' = [call EXCEPT ![s].gen = 0, ![s].work = work]
      BY <2>4 DEF LoadRead
    <3>2. call' = [call EXCEPT ![s] = [call[s] EXCEPT !.gen = 0, !.work = work]]
      BY <3>1, CallTyped
    <3> QED
      BY <1>5, <3>2
  <2>5. CASE LoadStamp(s) \/ BuildGenerations(s) \/ BuildRead(s) \/ Publish(s)
    <3>1. PICK work : call' = [call EXCEPT ![s] = [call[s] EXCEPT !.work = work]]
      BY <2>5 DEF LoadStamp, BuildGenerations, BuildRead, Publish
    <3> QED
      BY <1>5, <2>2, <3>1
  <2> QED
    BY <1>10, <2>3, <2>4, <2>5
<1>11. CASE Scan(s) \/ (CheckSynced(s) /\ ~Leases(s))
  <2>1. \/ \E rows : call' = [call EXCEPT ![s] = [call[s] EXCEPT !.rows = rows]]
        \/ call' = [call EXCEPT ![s] = [call[s] EXCEPT !.rows = {}, !.snap = 0, !.gen = 0]]
    BY <1>11, CallTyped DEF Scan, Rebuild, CheckSynced, Leases
  <2>2. CASE \E rows : call' = [call EXCEPT ![s] = [call[s] EXCEPT !.rows = rows]]
    <3>1. PICK rows : call' = [call EXCEPT ![s] = [call[s] EXCEPT !.rows = rows]]
      BY <2>2
    <3>2. /\ [call[s] EXCEPT !.rows = rows].since = call[s].since
          /\ [call[s] EXCEPT !.rows = rows].lease = call[s].lease
      BY CallTyped DEF Calls
    <3> QED
      BY <1>1, <3>1, <3>2
  <2>3. CASE call' = [call EXCEPT ![s] = [call[s] EXCEPT !.rows = {}, !.snap = 0, !.gen = 0]]
    BY <1>6, <2>3
  <2> QED
    BY <2>1, <2>2, <2>3
<1>12. CASE Claim(s) \/ Release(s) \/ ReleaseFailed(s)
  <2>1. \/ call' = [call EXCEPT ![s] = [call[s] EXCEPT !.rebuilt = TRUE]]
        \/ call' = [call EXCEPT ![s] = [call[s] EXCEPT !.rebuilt = TRUE, !.claimed = TRUE]]
        \/ call' = [call EXCEPT ![s] = [call[s] EXCEPT !.claimed = FALSE]]
        \/ call' = [call EXCEPT ![s] = [call[s] EXCEPT !.claimed = FALSE, !.work = NoSnapshot]]
    BY <1>12, CallTyped DEF Claim, Release, ReleaseFailed
  <2>2. CASE call' = [call EXCEPT ![s] = [call[s] EXCEPT !.rebuilt = TRUE]]
    <3>1. /\ [call[s] EXCEPT !.rebuilt = TRUE].since = call[s].since
          /\ [call[s] EXCEPT !.rebuilt = TRUE].lease = call[s].lease
      BY CallTyped DEF Calls
    <3> QED
      BY <1>1, <2>2, <3>1
  <2>3. CASE call' = [call EXCEPT ![s] = [call[s] EXCEPT !.rebuilt = TRUE, !.claimed = TRUE]]
    <3>1. /\ [call[s] EXCEPT !.rebuilt = TRUE, !.claimed = TRUE].since = call[s].since
          /\ [call[s] EXCEPT !.rebuilt = TRUE, !.claimed = TRUE].lease = call[s].lease
      BY CallTyped DEF Calls
    <3> QED
      BY <1>1, <2>3, <3>1
  <2>4. CASE call' = [call EXCEPT ![s] = [call[s] EXCEPT !.claimed = FALSE]]
    <3>1. /\ [call[s] EXCEPT !.claimed = FALSE].since = call[s].since
          /\ [call[s] EXCEPT !.claimed = FALSE].lease = call[s].lease
      BY CallTyped DEF Calls
    <3> QED
      BY <1>1, <2>4, <3>1
  <2>5. CASE call' = [call EXCEPT ![s] = [call[s] EXCEPT !.claimed = FALSE, !.work = NoSnapshot]]
    <3>1. /\ [call[s] EXCEPT !.claimed = FALSE, !.work = NoSnapshot].since = call[s].since
          /\ [call[s] EXCEPT !.claimed = FALSE, !.work = NoSnapshot].lease = call[s].lease
      BY CallTyped DEF Calls
    <3> QED
      BY <1>1, <2>5, <3>1
  <2> QED
    BY <2>1, <2>2, <2>3, <2>4, <2>5
<1>13. CASE LoadPublish(s)
  <2>1. PICK i : Loaded(s, i)
    BY <1>13 DEF LoadPublish
  <2>2. /\ [call[s] EXCEPT !.work = NoSnapshot, !.tried = TRUE]
           = [call[s] EXCEPT !.work = NoSnapshot, !.tried = TRUE, !.snap = call[s].snap]
        /\ [call[s] EXCEPT !.work = NoSnapshot, !.snap = i]
           = [call[s] EXCEPT !.work = NoSnapshot, !.tried = call[s].tried, !.snap = i]
    BY CallTyped DEF Calls
  <2>3. \/ call' = [call EXCEPT ![s] = [call[s] EXCEPT !.work = NoSnapshot, !.tried = TRUE]]
        \/ call' = [call EXCEPT ![s] = [call[s] EXCEPT !.work = NoSnapshot, !.snap = i]]
    BY <2>1, CallTyped DEF Loaded
  <2>4. CASE call' = [call EXCEPT ![s] = [call[s] EXCEPT !.work = NoSnapshot, !.tried = TRUE]]
    BY <1>7, <2>2, <2>4
  <2>5. CASE call' = [call EXCEPT ![s] = [call[s] EXCEPT !.work = NoSnapshot, !.snap = i]]
    BY <1>7, <2>2, <2>5
  <2> QED
    BY <2>3, <2>4, <2>5
<1> QED
  BY <1>2, <1>8, <1>9, <1>10, <1>11, <1>12, <1>13 DEF Seeks

-----------------------------------------------------------------------------
(* What sessions do to the leases. *)

LEMMA GivesLease ==
    ASSUME TypeOK, NEW s \in Sessions, Leases(s), CheckSynced(s) \/ StoreDelta(s)
    PROVE  /\ call'[s].lease.snap # 0 /\ call'[s].since = call[s].since
           /\ spc[s] \in AskingPlaces /\ spc'[s] \in LeasedPlaces
<1>1. spc[s] \in {"synced", "store"}
  BY DEF CheckSynced, StoreDelta, At
<1>2. call[s].snap # 0
  BY <1>1, CatchUpSnapshot
<1>3. PICK rows : Lease(s, call[s].snap, rows)
  <2>1. spc'[s] # "scan"
    BY LeaseLocals
  <2>2. CASE CheckSynced(s)
    BY <2>1, <2>2, Moved DEF CheckSynced
  <2>3. CASE StoreDelta(s)
    BY <2>3 DEF StoreDelta
  <2> QED
    BY <2>2, <2>3
<1> DEFINE c == [NoCall EXCEPT !.op = call[s].op, !.since = call[s].since,
                     !.lease = [snap |-> call[s].snap, rows |-> rows],
                     !.acquires = call[s].acquires + 1]
<1>4. c.since = call[s].since /\ c.lease.snap = call[s].snap
  BY DEF NoCall
<1>5. call' = [call EXCEPT ![s] = c]
  BY <1>3 DEF Lease
<1> HIDE DEF c
<1>6. call'[s] = c
  BY <1>5, Called
<1>7. spc'[s] \in LeasedPlaces
  BY <1>3, CallTyped DEF Lease, Goto, LeasedPlaces
<1> QED
  BY <1>1, <1>2, <1>4, <1>6, <1>7 DEF AskingPlaces, Places, LeasedPlaces

(* A statement begins, is given its lease, ends, or goes on as it is. *)
GoesOn(s) ==
    \/ call'[s] = call[s] /\ spc'[s] = spc[s]
    \/ /\ SameLease(s)
       /\ \/ spc[s] \in AskingPlaces /\ spc'[s] \in AskingPlaces
          \/ spc[s] \in LeasedPlaces /\ spc'[s] \in LeasedPlaces

LEMMA SessionEffect ==
    ASSUME TypeOK, OnlyInserts, VersionInv, Operations \subseteq ReadWithDelta,
           NEW s \in Sessions, SessionStep(s)
    PROVE  /\ Others(s)
           /\ \/ \E op \in Operations : Begin(s, op)
              \/ Leases(s) /\ (CheckSynced(s) \/ StoreDelta(s))
              \/ Finish(s)
              \/ GoesOn(s)
<1>0. Reads(call[s], spc[s], snaps, log, acked, dbGen)
  BY DEF VersionInv
<1>1. CASE Quiet(s)
  <2>1. Others(s)
    BY <1>1, QuietLocals
  <2>2. (\E op \in Operations : Begin(s, op)) \/ Seeks(s) \/ Saves(s) \/ Reacquire(s)
    BY <1>1 DEF Quiet, Seeks, Saves
  <2>3. Seeks(s) => GoesOn(s)
    BY SeeksOn, SeeksKeeps DEF GoesOn
  <2>4. Saves(s) => GoesOn(s)
    BY SavesOn DEF GoesOn
  <2>5. Reacquire(s) => GoesOn(s)
    BY ReacquireKeeps DEF GoesOn, LeasedPlaces
  <2> QED
    BY <2>1, <2>2, <2>3, <2>4, <2>5
<1>2. CASE Dropping(s)
  BY <1>2 DEF Dropping, sessionVars, Others, GoesOn
<1>3. CASE Leases(s) /\ (Find(s) \/ CheckSynced(s) \/ StoreDelta(s))
  <2>1. Others(s)
    BY <1>3, LeaseLocals
  <2>2. ~Find(s)
    <3>1. call[s].op \notin ArraysOnly
      BY <1>0 DEF Reads, ReadWithDelta, ArraysOnly
    <3> QED
      BY <1>3, <3>1, FindMoves
  <2> QED
    BY <1>3, <2>1, <2>2
<1>4. CASE Finish(s)
  BY <1>4, LeaseLocals
<1>5. CASE \/ LoadRead(s) \/ LoadStamp(s) \/ LoadPublish(s)
           \/ BuildGenerations(s) \/ BuildRead(s) \/ Publish(s)
           \/ Claim(s) \/ Release(s) \/ ReleaseFailed(s)
  <2>1. Others(s)
    BY <1>5, LoadLocals, BuildLocals, ReleaseLocals
  <2>2. Seeks(s)
    BY <1>5 DEF Seeks
  <2> QED
    BY <2>1, <2>2, SeeksOn, SeeksKeeps DEF GoesOn
<1> QED
  BY <1>1, <1>2, <1>3, <1>4, <1>5, SessionSteps

(* No snapshot is made that a write was announced against. *)
LEMMA WorkUnthreatened ==
    ASSUME TypeOK, OnlyInserts, NEW s \in Sessions, SessionStep(s)
    PROVE  Unthreatened(call'[s].work)
<1>1. Unthreatened(call[s].work) /\ writeGen = 0 /\ destrGen = 0
  BY DEF OnlyInserts
<1>2. Unthreatened(NoSnapshot)
  BY DEF NoSnapshot, Unthreatened
<1>3. CASE Quiet(s) \/ Dropping(s)
  BY <1>1, <1>3, QuietLocals DEF Dropping, sessionVars
<1>4. CASE Leases(s) \/ Finish(s)
  BY <1>2, <1>4, LeaseLocals
<1>5. CASE LoadRead(s) \/ LoadStamp(s) \/ LoadPublish(s)
  BY <1>1, <1>2, <1>5, LoadLocals DEF Unthreatened
<1>6. CASE BuildGenerations(s) \/ BuildRead(s) \/ Publish(s)
  BY <1>1, <1>2, <1>6, BuildLocals DEF Unthreatened
<1>7. CASE Claim(s) \/ Release(s) \/ ReleaseFailed(s)
  BY <1>1, <1>2, <1>7, ReleaseLocals
<1> QED
  BY <1>3, <1>4, <1>5, <1>6, <1>7, SessionSteps

LEMMA SnapshotsUnthreatened ==
    ASSUME TypeOK, TypeOK', OnlyInserts, NEW s \in Sessions, SessionStep(s)
    PROVE  \A i \in 1..Len(snaps') : Unthreatened(snaps'[i])
<1>1. snaps \in Seq(Snapshots) /\ Len(snaps) \in Nat /\ Unthreatened(call[s].work)
      /\ \A i \in 1..Len(snaps) : Unthreatened(snaps[i])
  BY CallTyped DEF OnlyInserts
<1>2. CASE snaps' = snaps \/ snaps' = Append(snaps, call[s].work)
  BY <1>1, <1>2, CallTyped
<1>3. CASE StoreDelta(s)
  <2>1. call[s].snap \in 1..Len(snaps)
    BY <1>3, CatchUpSnapshot DEF StoreDelta, At
  <2> DEFINE new == [snaps[call[s].snap] EXCEPT !.delta = call[s].rows, !.synced = SyncGeneration(s)]
  <2>2. snaps' = [snaps EXCEPT ![call[s].snap] = new]
    BY <1>1, <1>3, <2>1 DEF StoreDelta
  <2>3. Unthreatened(new)
    <3>1. snaps[call[s].snap] \in Snapshots /\ Unthreatened(snaps[call[s].snap])
      BY <1>1, <2>1
    <3>2. new.write = snaps[call[s].snap].write /\ new.destr = snaps[call[s].snap].destr
      BY <3>1 DEF Snapshots
    <3> QED
      BY <3>1, <3>2 DEF Unthreatened
  <2> HIDE DEF new
  <2> QED
    BY <1>1, <2>1, <2>2, <2>3
<1>4. snaps' = snaps \/ snaps' = Append(snaps, call[s].work) \/ StoreDelta(s)
  BY DEF SessionStep, Resolving, Begin, ReadVersion, Find, LoadCheck, LoadRead, LoadStamp,
       LoadPublish, LockCatchUp, CheckSynced, Scan, Claim, Wait, BuildGenerations,
       BuildRead, BuildValidate, BuildThrows, Publish, PublishSnapshot, Release, ReleaseFailed,
       SaveFlag, SaveWrite, SaveCheck, Unsave, Reacquire, Finish, Dropping, storageVars
<1> QED
  BY <1>2, <1>3, <1>4

LEMMA SessionInserts ==
    ASSUME TypeOK, TypeOK', OnlyInserts, VersionInv, Operations \subseteq ReadWithDelta,
           NEW s \in Sessions, SessionStep(s)
    PROVE  OnlyInserts'
<1>1. /\ UNCHANGED <<log, stmts, planned>>
      /\ writeGen' = writeGen /\ destrGen' = destrGen
  BY SessionObserver, SessionLeaves DEF tableVars, writerVars
<1>2. Others(s)
  BY SessionEffect
<1>3. /\ IF spc'[s] \in LeasedPlaces THEN call'[s].lease.snap # 0 ELSE call'[s].lease = NoLease
      /\ spc'[s] = "idle" => call'[s] = NoCall
  <2>1. /\ IF spc[s] \in LeasedPlaces THEN call[s].lease.snap # 0 ELSE call[s].lease = NoLease
        /\ spc[s] = "idle" => call[s] = NoCall
    BY DEF OnlyInserts
  <2>2. CASE \E op \in Operations : Begin(s, op)
    <3>1. PICK op \in Operations : Begin(s, op)
      BY <2>2
    <3> DEFINE c == [call[s] EXCEPT !.op = op, !.since = acked]
    <3>2. call' = [call EXCEPT ![s] = c]
      BY <3>1, CallTyped DEF Begin
    <3>3. c.lease = call[s].lease
      BY CallTyped DEF Calls
    <3> HIDE DEF c
    <3>4. call'[s].lease = call[s].lease /\ spc[s] = "idle"
      BY <3>1, <3>2, <3>3, Called DEF Begin, At
    <3>5. PICK p \in {"generations", "version"} : Goto(s, p)
      BY <3>1 DEF Begin
    <3>6. spc'[s] \in {"generations", "version"}
      BY <3>5, Moved
    <3> QED
      BY <2>1, <3>4, <3>6 DEF LeasedPlaces
  <2>3. CASE Leases(s) /\ (CheckSynced(s) \/ StoreDelta(s))
    BY <2>3, GivesLease DEF LeasedPlaces
  <2>4. CASE Finish(s)
    <3>1. call'[s] = NoCall /\ spc'[s] = "idle"
      BY <2>4, Called, Moved DEF Finish
    <3> QED
      BY <3>1 DEF NoCall, LeasedPlaces
  <2>5. CASE GoesOn(s)
    BY <2>1, <2>5 DEF GoesOn, SameLease, AskingPlaces, LeasedPlaces
  <2> QED
    BY <2>2, <2>3, <2>4, <2>5, SessionEffect
<1> QED
  BY <1>1, <1>2, <1>3, WorkUnthreatened, SnapshotsUnthreatened DEF OnlyInserts, Undisturbed, Others

-----------------------------------------------------------------------------
(* Writers that only insert. *)

LEMMA WriterInserts ==
    ASSUME TypeOK, TypeOK', OnlyInserts, Kinds \subseteq Inserting, NEW w \in Writers,
           WriterStep(w), UNCHANGED <<snaps, call, spc>>
    PROVE  OnlyInserts'
<1>1. /\ planned \in [Writers -> [table : PlannedTables, prepared : BOOLEAN]]
      /\ planned[w].table # "destructive" /\ planned[w].prepared = FALSE
      /\ stmts \in [Writers -> SUBSET AllKinds] /\ stmts[w] \subseteq Inserting
      /\ writeGen = 0 /\ destrGen = 0
  BY DEF OnlyInserts, TypeOK, ObserverTypeOK, WriterTypeOK
<1>2. writeGen' = 0 /\ destrGen' = 0
  BY <1>1 DEF WriterStep, Finishing, PlanTableWrite, PlanPreparedWrite, MayIssue, AppendRows,
      Rollback, FlushRows, CommitRows, AdvancePlanned, InvalidateAfterCommit, DropSavedCsrs,
      DropCheck, DropSelect, DropFoundNone, DropDelete, InvalidateCache, genVars,
      DestructiveAfterCommit, PreparedAfterCommit, Inserting, InsertsOnly
<1>3. Undisturbed'
  <2>1. CASE log' = log
    BY <2>1 DEF Undisturbed, OnlyInserts
  <2>2. CASE CommitRows(w)
    <3>1. PICK entry : log' = Append(log, entry) /\ entry.destructive = FALSE
      BY <1>1, <2>2 DEF CommitRows
    <3> QED
      BY <3>1, ObserverTypes DEF Undisturbed, OnlyInserts
  <2> QED
    BY <2>1, <2>2 DEF WriterStep, Finishing, PlanTableWrite, PlanPreparedWrite, AppendRows,
       Rollback, FlushRows, AdvancePlanned, InvalidateAfterCommit, DropSavedCsrs,
       DropCheck, DropSelect, DropFoundNone, DropDelete, tableVars
<1>4. stmts'[w] \subseteq Inserting /\ \A v \in Writers \ {w} : stmts'[v] = stmts[v]
  BY <1>1 DEF WriterStep, Finishing, PlanTableWrite, PlanPreparedWrite, MayIssue, Issue, AppendRows,
      Rollback, FlushRows, CommitRows, AdvancePlanned, InvalidateAfterCommit, DropSavedCsrs,
      DropCheck, DropSelect, DropFoundNone, DropDelete, writerVars
<1>5. /\ planned'[w].table # "destructive" /\ ~planned'[w].prepared
      /\ \A v \in Writers \ {w} : planned'[v] = planned[v]
  <2>1. ASSUME NEW k \in Kinds, PlanTableWrite(w, k)
        PROVE  /\ planned'[w].table # "destructive" /\ ~planned'[w].prepared
               /\ \A v \in Writers \ {w} : planned'[v] = planned[v]
    <3>1. k \in InsertsOnly
      BY <2>1 DEF PlanTableWrite, Inserting, InsertsOnly
    <3>2. PlanTable(planned[w].table, k \in InsertsOnly) = "inserts"
      BY <1>1, <3>1 DEF PlanTable
    <3>3. planned' = [planned EXCEPT ![w] = [planned[w] EXCEPT !.table = "inserts"]]
      BY <1>1, <2>1, <3>2 DEF PlanTableWrite
    <3>4. /\ [planned[w] EXCEPT !.table = "inserts"].table = "inserts"
          /\ [planned[w] EXCEPT !.table = "inserts"].prepared = FALSE
      BY <1>1
    <3> QED
      BY <1>1, <3>3, <3>4
  <2>2. CASE Rollback(w) \/ AdvancePlanned(w)
    BY <1>1, <2>2 DEF Rollback, AdvancePlanned, Unplanned
  <2>3. CASE planned' = planned
    BY <1>1, <2>3
  <2>4. ~PlanPreparedWrite(w)
    BY DEF PlanPreparedWrite, MayIssue, Inserting
  <2> QED
    BY <2>1, <2>2, <2>3, <2>4 DEF WriterStep, Finishing, AppendRows, FlushRows, CommitRows,
       InvalidateAfterCommit, DropSavedCsrs, DropCheck, DropSelect, DropFoundNone, DropDelete,
       writerVars
<1> QED
  BY <1>2, <1>3, <1>4, <1>5 DEF OnlyInserts

LEMMA InsertsInit == Init => OnlyInserts
<1> SUFFICES ASSUME Init PROVE OnlyInserts
  OBVIOUS
<1>1. Undisturbed
  BY DEF Init, InitObserver, Undisturbed
<1>2. /\ NoCall.lease = NoLease /\ Unthreatened(NoCall.work)
      /\ Unplanned.table = "none" /\ Unplanned.prepared = FALSE
  BY DEF NoCall, NoSnapshot, Unthreatened, Unplanned
<1>3. \A w \in Writers : stmts[w] = {} /\ planned[w] = Unplanned
  BY DEF Init, InitObserver
<1>4. Len(snaps) = 0 /\ \A s \in Sessions : call[s] = NoCall /\ spc[s] = "idle"
  BY DEF Init, InitStorage
<1> QED
  BY <1>1, <1>2, <1>3, <1>4 DEF Init, InitObserver, OnlyInserts, LeasedPlaces

LEMMA InsertsStep ==
    ASSUME TypeOK, TypeOK', VersionInv, OnlyInserts, Kinds \subseteq Inserting,
           Operations \subseteq ReadWithDelta, CrashLimit = 0, [Next]_vars
    PROVE  OnlyInserts'
<1>2. ~Crash
  BY DEF Crash, TypeOK
<1>3. ASSUME NEW w \in Writers, Writing(w)
      PROVE  OnlyInserts'
  BY <1>3, WriterInserts DEF Writing, storageVars, sessionVars
<1>4. CASE UNCHANGED vars
  BY <1>4 DEF vars, observerVars, tableVars, genVars, savedVars, writerVars, storageVars,
              sessionVars, OnlyInserts, Undisturbed
<1> QED
  BY <1>2, <1>3, <1>4, SessionInserts DEF Next, Ended

-----------------------------------------------------------------------------
(* The refinement. *)

(* Where GraphLeases sees a statement. *)
Place == [s \in Sessions |-> IF At(s, "idle") THEN "idle"
                             ELSE IF HasLease(s) THEN "given" ELSE "asking"]

LEMMA PromiseInit == Init => Promise!Init
<1> SUFFICES ASSUME Init PROVE Promise!Init
  OBVIOUS
<1>1. Len(log) = 1 /\ acked = {1} /\ \A s \in Sessions : call[s] = NoCall /\ spc[s] = "idle"
  BY DEF Init, InitObserver, InitStorage
<1>2. NoCall.since = {} /\ NoCall.lease.rows = {}
  BY DEF NoCall, NoLease
<1>3. Len([k \in 1..Len(log) |-> log[k].rows]) = 1
  BY <1>1
<1> QED
  BY <1>1, <1>2, <1>3 DEF Promise!Init, At

LEMMA PromiseWriter ==
    ASSUME TypeOK, TypeOK', NEW w \in Writers, Writing(w)
    PROVE  Promise!Next \/ UNCHANGED Promise!leaseVars
<1>1. UNCHANGED <<call, spc>>
  BY DEF Writing, sessionVars
<1>2. /\ \A s \in Sessions : At(s, "idle")' = At(s, "idle") /\ HasLease(s)' = HasLease(s)
      /\ Len(log) \in Nat
  BY <1>1, ObserverTypes DEF At, HasLease
<1>3. CASE log' = log /\ acked' = acked
  BY <1>1, <1>2, <1>3 DEF Promise!leaseVars
<1>4. CASE CommitRows(w)
  <2>1. PICK entry : log' = Append(log, entry)
    BY <1>4 DEF CommitRows
  <2>2. acked' = acked
    BY <1>4 DEF CommitRows
  <2>3. Len(log') = Len(log) + 1 /\ \A k \in 1..Len(log) : log'[k] = log[k]
    BY <2>1, ObserverTypes
  <2> DEFINE before == [k \in 1..Len(log) |-> log[k].rows]
             after == [k \in 1..Len(log') |-> log'[k].rows]
  <2>4. Len(before) = Len(log) /\ Len(after) = Len(log) + 1
    BY <1>2, <2>3
  <2>5. SubSeq(after, 1, Len(before)) = before
    BY <1>2, <2>3, <2>4
  <2> QED
    BY <1>1, <1>2, <2>2, <2>4, <2>5 DEF Promise!Next, Promise!Commit
<1>5. CASE InvalidateAfterCommit(w)
  <2>1. log' = log /\ acked' = acked \cup {commitAt[w]} /\ commitAt[w] \in 1..Len(log)
    BY <1>5, ObserverTypes DEF InvalidateAfterCommit, TypeOK, ObserverTypeOK, WriterTypeOK
  <2>2. acked \subseteq 1..Len(log) /\ Len([k \in 1..Len(log) |-> log[k].rows]) = Len(log)
    BY <1>2, ObserverTypes
  <2>3. CASE acked' = acked
    BY <1>3, <2>1, <2>3
  <2>4. CASE acked' # acked
    BY <1>1, <1>2, <2>1, <2>2, <2>4 DEF Promise!Next, Promise!Acknowledge
  <2> QED
    BY <2>3, <2>4
<1> QED
  BY <1>3, <1>4, <1>5 DEF Writing, WriterStep, Finishing, PlanTableWrite, PlanPreparedWrite,
     AppendRows, Rollback, FlushRows, AdvancePlanned, DropSavedCsrs, DropCheck, DropSelect,
     DropFoundNone, DropDelete, tableVars

(* Ask: a statement begins, and may expect what is acknowledged. *)
LEMMA PromiseAsk ==
    ASSUME TypeOK, OnlyInserts, NEW s \in Sessions, NEW op, Begin(s, op), Others(s),
           UNCHANGED <<log, acked>>
    PROVE  Promise!Ask(s)
<1>1. spc[s] = "idle" /\ call[s] = NoCall /\ NoCall.lease = NoLease
  <2>1. NoCall.lease = NoLease
    BY DEF NoCall
  <2> QED
    BY <2>1 DEF Begin, At, OnlyInserts
<1> DEFINE c == [call[s] EXCEPT !.op = op, !.since = acked]
<1>2. call' = [call EXCEPT ![s] = c]
  BY CallTyped DEF Begin
<1>3. c.since = acked /\ c.lease = NoLease
  BY <1>1, CallTyped DEF Calls
<1> HIDE DEF c
<1>4. call'[s].since = acked /\ call'[s].lease = NoLease
  BY <1>2, <1>3, Called
<1>5. PICK p \in {"generations", "version"} : Goto(s, p)
  BY DEF Begin
<1>6. spc'[s] # "idle"
  BY <1>5, Moved
<1>7. call[s].lease.snap = 0 /\ call'[s].lease.snap = 0 /\ call'[s].lease.rows = call[s].lease.rows
  BY <1>1, <1>4 DEF NoLease
<1>8. /\ Place'[s] = "asking" /\ Place[s] = "idle"
      /\ \A t \in Sessions \ {s} : Place'[t] = Place[t] /\ call'[t] = call[t]
  BY <1>1, <1>6, <1>7 DEF Place, Others, At, HasLease
<1> QED
  BY <1>4, <1>7, <1>8 DEF Promise!Ask, Place

(* Give: the statement takes its lease. *)
LEMMA PromiseGive ==
    ASSUME TypeOK, TypeOK', OnlyInserts, OnlyInserts', OneVersionUnderInserts',
           NEW s \in Sessions, Leases(s), CheckSynced(s) \/ StoreDelta(s), Others(s),
           UNCHANGED <<log, acked>>
    PROVE  Promise!Give(s)
<1>1. /\ call'[s].lease.snap # 0 /\ call'[s].since = call[s].since
      /\ spc[s] \in AskingPlaces /\ spc'[s] \in LeasedPlaces
  BY GivesLease
<1>2. call[s].lease.snap = 0 /\ spc[s] # "idle" /\ spc'[s] # "idle"
  BY <1>1 DEF OnlyInserts, AskingPlaces, LeasedPlaces, NoLease
<1>3. PICK k \in 1..Len(log) : /\ call'[s].lease.rows = log[k].rows
                               /\ \A j \in call[s].since : j <= k
  BY <1>1 DEF OneVersionUnderInserts, LeaseIsOneVersion, HasLease, OnlyInserts, Undisturbed
<1>4. Len([i \in 1..Len(log) |-> log[i].rows]) = Len(log)
  BY ObserverTypes
<1>5. /\ Place'[s] = "given" /\ Place[s] = "asking"
      /\ \A t \in Sessions \ {s} : Place'[t] = Place[t] /\ call'[t] = call[t]
  BY <1>1, <1>2 DEF Place, Others, At, HasLease
<1>6. [t \in Sessions |-> call[t].since]' = [t \in Sessions |-> call[t].since]
  BY <1>1, <1>5
<1>7. [t \in Sessions |-> call[t].lease.rows]'
         = [[t \in Sessions |-> call[t].lease.rows] EXCEPT ![s] = log[k].rows]
  BY <1>3, <1>5
<1>8. Place' = [Place EXCEPT ![s] = "given"]
  BY <1>5 DEF Place
<1> QED
  BY <1>3, <1>4, <1>5, <1>6, <1>7, <1>8 DEF Promise!Give, Place

(* End: with a result or an error. *)
LEMMA PromiseEnd ==
    ASSUME TypeOK, NEW s \in Sessions, Finish(s), Others(s), UNCHANGED <<log, acked>>
    PROVE  Promise!End(s)
<1>1. call'[s] = NoCall /\ spc'[s] = "idle" /\ spc[s] # "idle"
  BY Called, Moved DEF Finish
<1>2. NoCall.since = {} /\ NoCall.lease = NoLease /\ NoLease.rows = {}
  BY DEF NoCall, NoLease
<1> QED
  BY <1>1, <1>2 DEF Promise!End, Others, At, HasLease

LEMMA PromiseSession ==
    ASSUME TypeOK, TypeOK', VersionInv, OnlyInserts, OnlyInserts', OneVersionUnderInserts',
           Operations \subseteq ReadWithDelta, NEW s \in Sessions, SessionStep(s)
    PROVE  Promise!Next \/ UNCHANGED Promise!leaseVars
<1>1. UNCHANGED <<log, acked>> /\ Others(s)
  BY SessionEffect, SessionLeaves DEF tableVars
<1>2. CASE \E op \in Operations : Begin(s, op)
  BY <1>1, <1>2, PromiseAsk DEF Promise!Next
<1>3. CASE Leases(s) /\ (CheckSynced(s) \/ StoreDelta(s))
  BY <1>1, <1>3, PromiseGive DEF Promise!Next
<1>4. CASE Finish(s)
  BY <1>1, <1>4, PromiseEnd DEF Promise!Next
<1>5. CASE GoesOn(s)
  <2>1. \A t \in Sessions : /\ call'[t].since = call[t].since /\ call'[t].lease = call[t].lease
                            /\ spc'[t] = "idle" <=> spc[t] = "idle"
    BY <1>1, <1>5 DEF GoesOn, SameLease, AskingPlaces, LeasedPlaces, Others
  <2> QED
    BY <1>1, <2>1 DEF Promise!leaseVars, At, HasLease
<1> QED
  BY <1>2, <1>3, <1>4, <1>5, SessionEffect

LEMMA PromiseStep ==
    ASSUME TypeOK, TypeOK', VersionInv, OnlyInserts, OnlyInserts', OneVersionUnderInserts',
           Operations \subseteq ReadWithDelta, CrashLimit = 0, [Next]_vars
    PROVE  [Promise!Next]_Promise!leaseVars
<1>2. ~Crash
  BY DEF Crash, TypeOK
<1>3. CASE UNCHANGED vars
  BY <1>3 DEF vars, observerVars, tableVars, sessionVars, Promise!leaseVars, At, HasLease
<1> QED
  BY <1>2, <1>3, PromiseWriter, PromiseSession DEF Next, Ended

(* CsrStorage implements GraphLeases as long as writers only insert, statements read their
   snapshot with its delta and the process does not end: every step is one of GraphLeases
   or none. *)
THEOREM KeepsItsPromise ==
    ASSUME Kinds \subseteq Inserting, Operations \subseteq ReadWithDelta, CrashLimit = 0
    PROVE  Spec => Promise!Init /\ [][Promise!Next]_Promise!leaseVars
<1>1. Init => OnlyInserts /\ Promise!Init
  BY InsertsInit, PromiseInit
<1>2. TypeOK /\ TypeOK' /\ VersionInv /\ OnlyInserts /\ [Next]_vars => OnlyInserts'
  BY InsertsStep
<1>3. TypeOK /\ VersionInv => OneVersionUnderInserts
  BY VersionLeases
<1>4. TypeOK /\ TypeOK' /\ VersionInv /\ OnlyInserts /\ OnlyInserts' /\ OneVersionUnderInserts'
         /\ [Next]_vars => [Promise!Next]_Promise!leaseVars
  BY PromiseStep
<1> QED
  BY <1>1, <1>2, <1>3, <1>4, VersionAlways, PTL DEF Spec

-----------------------------------------------------------------------------
(* What is saved. *)
Builder(s) == call[s].op \in Builds

(* Where a drop is, a save is not: a connection that drops saved CSRs is a writer with an
   open transaction or the one gql_build_csr that runs, past its save. *)
InPlace(c, p, d) ==
    /\ d # "no" => c.op \in Builds /\ p = "leased"
    /\ p \in {"save", "save_write", "save_check"} => c.op = "build"
    /\ p = "unsave" => c.op = "build_memory"

Alone ==
    /\ BuildOpen => \A w \in Writers : wpc[w] = "idle"
    /\ \A s, t \in Sessions : Builder(s) /\ Builder(t) => s = t
    /\ \A w \in Writers : drop[w] # "no" => wpc[w] = "open"
    /\ \A s \in Sessions : InPlace(call[s], spc[s], drop[s])

(* A write that may do more than insert is past its drop with nothing left to drop, and
   its rows are not committed before. *)
Dropped ==
    \A w \in Writers :
        /\ wpc[w] = "idle" => stmts[w] = {}
        /\ /\ wpc[w] \in {"open", "flushed"} /\ drop[w] = "no"
           /\ ~(stmts[w] \subseteq Inserting)
           => saved = {}

(* What a save announced stands until it wrote, and a drop that found nothing has missed
   nothing. *)
NotMissed ==
    /\ SavedIsNotOverlooked
    /\ \A s \in Sessions : spc[s] = "save_write" => savedExists
    /\ \A c \in Connections : drop[c] = "none" => saved = {}

(* Where gql_build_csr is once its own snapshot was published. *)
AfterPublish ==
    {"release", "version", "find", "load", "load_read", "load_stamp", "load_publish", "lock",
     "synced", "scan", "store", "claim", "wait", "save", "save_write"}

Published(c, p) == c.op \in Builds /\ (c.rebuilt \/ p \in AfterPublish)

(* While gql_build_csr runs: what any statement makes is of rows in the table, and so
   are, once it published its own, all published snapshots, with the one it works on. *)
MadeOf(c, p, list, pub, rows) ==
    /\ p \in {"validate", "publish", "load_stamp", "load_publish"} => c.work.base \subseteq rows
    /\ c.op \in Builds /\ p \in {"read", "validate", "publish"} => c.work.full
    /\ Published(c, p) =>
          /\ \A i \in pub : list[i].base \subseteq rows
          /\ p \in {"lock", "synced", "scan", "store"} => list[c.snap].base \subseteq rows
          /\ p \in {"save", "save_write"} => list[c.lease.snap].base \subseteq rows

BuildsOfTable ==
    BuildOpen => \A s \in Sessions : MadeOf(call[s], spc[s], snaps, published, Table.rows)

SavedInv == Alone /\ Dropped /\ NotMissed /\ SavedDescribesTable /\ BuildsOfTable

-----------------------------------------------------------------------------
(* Writers. *)

LEMMA ConnectionsTyped ==
    ASSUME TypeOK
    PROVE  /\ drop \in [Connections -> {"no", "check", "select", "none", "delete"}]
           /\ Writers \subseteq Connections /\ Sessions \subseteq Connections
           /\ Writers \cap Sessions = {}
           /\ wpc \in [Writers -> {"idle", "open", "flushed", "committed", "advanced"}]
           /\ stmts \in [Writers -> SUBSET AllKinds]
BY ConstantsAssumption
   DEF TypeOK, ObserverTypeOK, SavedTypeOK, WriterTypeOK, Connections

(* No write begins while gql_build_csr runs. *)
LEMMA WriterAlone ==
    ASSUME SerialSaves, TypeOK, SavedInv, NEW w \in Writers, Writing(w)
    PROVE  ~BuildOpen
<1>1. wpc[w] # "idle" \/ ~BuildOpen
  BY DEF Writing
<1> QED
  BY <1>1 DEF SavedInv, Alone

(* What a writer owes the invariant. *)
LEMMA WriterSaved ==
    ASSUME TypeOK, SavedInv, NEW w \in Writers, ~BuildOpen, UNCHANGED <<storageVars, sessionVars>>,
           \A c \in Connections \ {w} : drop'[c] = drop[c],
           drop'[w] # "no" => wpc'[w] = "open",
           Dropped', SavedDescribesTable', SavedIsNotOverlooked',
           savedExists' = savedExists \/ saved' = {},
           \A v \in Writers \ {w} : wpc'[v] = wpc[v],
           saved' \subseteq saved, drop'[w] = "none" => saved' = {}
    PROVE  SavedInv'
<1>1. ~BuildOpen' /\ call' = call /\ spc' = spc
  BY DEF BuildOpen, sessionVars
<1>2. BuildsOfTable'
  BY <1>1 DEF BuildsOfTable
<1>3. \A s \in Sessions : call[s].op \notin Builds
  BY DEF BuildOpen
<1>4. Alone'
  <2>1. \A s \in Sessions : drop'[s] = drop[s]
    BY ConnectionsTyped
  <2> QED
    BY <1>1, <1>3, <2>1, ConnectionsTyped DEF SavedInv, Alone, Builder
<1>5. NotMissed'
  <2>1. \A s \in Sessions : spc[s] # "save_write"
    BY <1>3 DEF SavedInv, Alone, InPlace, Builds
  <2> QED
    BY <1>1, <2>1, ConnectionsTyped DEF SavedInv, NotMissed
<1> QED
  BY <1>2, <1>4, <1>5 DEF SavedInv

(* A statement is planned. *)
LEMMA PlanSaved ==
    ASSUME TypeOK, SavedInv, NEW w \in Writers, NEW k \in AllKinds, ~BuildOpen,
           UNCHANGED <<storageVars, sessionVars, tableVars, savedVars>>,
           MayIssue(w, k), Issue(w, k),
           drop' = IF k \in Inserting THEN drop ELSE [drop EXCEPT ![w] = "check"]
    PROVE  SavedInv'
<1>1. /\ wpc'[w] = "open" /\ stmts'[w] = stmts[w] \cup {k} /\ drop[w] = "no"
      /\ \A v \in Writers \ {w} : wpc'[v] = wpc[v] /\ stmts'[v] = stmts[v]
      /\ \A c \in Connections \ {w} : drop'[c] = drop[c]
      /\ IF k \in Inserting THEN drop'[w] = "no" ELSE drop'[w] = "check"
  BY ConnectionsTyped DEF MayIssue, Issue
<1>2. Dropped'
  <2>1. ASSUME NEW v \in Writers
        PROVE  /\ wpc'[v] = "idle" => stmts'[v] = {}
               /\ /\ wpc'[v] \in {"open", "flushed"} /\ drop'[v] = "no"
                  /\ ~(stmts'[v] \subseteq Inserting)
                  => saved = {}
    <3>1. CASE v = w
      <4>1. ~(stmts'[w] \subseteq Inserting) /\ k \in Inserting => ~(stmts[w] \subseteq Inserting)
        BY <1>1
      <4>2. ~(stmts[w] \subseteq Inserting) => wpc[w] = "open"
        BY DEF SavedInv, Dropped, MayIssue
      <4> QED
        BY <1>1, <3>1, <4>1, <4>2 DEF SavedInv, Dropped
    <3>2. CASE v # w
      BY <1>1, <3>2, ConnectionsTyped DEF SavedInv, Dropped
    <3> QED
      BY <3>1, <3>2
  <2> QED
    BY <2>1 DEF Dropped, savedVars
<1>3. SavedDescribesTable' /\ SavedIsNotOverlooked'
  BY DEF SavedInv, NotMissed, SavedDescribesTable, SavedIsNotOverlooked, Table, savedVars, tableVars
<1> QED
  BY <1>1, <1>2, <1>3, WriterSaved DEF savedVars

(* A transaction that only inserts keeps the rows there are; any other commits with
   nothing saved. *)
LEMMA CommitSaved ==
    ASSUME TypeOK, SavedInv, NEW w \in Writers, ~BuildOpen, UNCHANGED <<storageVars, sessionVars>>,
           CommitRows(w)
    PROVE  SavedInv'
<1>1. PICK rows \in Rewritten(Table.rows, stmts[w]) :
         log' = Append(log, [rows |-> rows \cup {<<i, 0>> : i \in reserved[w]},
                             version |-> IF "gql_insert" \in stmts[w] THEN Table.version + 1
                                         ELSE Table.version,
                             destructive |-> ~(stmts[w] \subseteq Inserting)])
  BY DEF CommitRows
<1>2. Table'.rows = rows \cup {<<i, 0>> : i \in reserved[w]}
  BY <1>1, ObserverTypes DEF Table
<1>3. SavedDescribesTable'
  <2>1. CASE stmts[w] \subseteq Inserting
    <3>1. Rewritten(Table.rows, stmts[w]) = {Table.rows}
      BY <2>1 DEF Rewritten, Inserting
    <3> QED
      BY <1>1, <1>2, <3>1 DEF CommitRows, SavedInv, SavedDescribesTable, savedVars
  <2>2. CASE ~(stmts[w] \subseteq Inserting)
    BY <2>2 DEF CommitRows, SavedInv, Dropped, SavedDescribesTable, savedVars
  <2> QED
    BY <2>1, <2>2
<1>4. /\ wpc'[w] = "committed" /\ \A v \in Writers \ {w} : wpc'[v] = wpc[v]
      /\ stmts' = stmts /\ drop' = drop /\ drop[w] = "no" /\ UNCHANGED savedVars
  BY ConnectionsTyped DEF CommitRows
<1>5. Dropped'
  BY <1>4, ConnectionsTyped DEF SavedInv, Dropped, savedVars
<1> QED
  BY <1>3, <1>4, <1>5, WriterSaved DEF SavedInv, NotMissed, SavedIsNotOverlooked, savedVars

(* DropSavedCsrs takes nothing for dropped that is there. *)
LEMMA DropKeeps ==
    ASSUME TypeOK, SavedInv, NEW c \in Connections, DropSavedCsrs(c)
    PROVE  /\ UNCHANGED <<tableVars, writerVars>>
           /\ \A d \in Connections \ {c} : drop'[d] = drop[d]
           /\ drop[c] # "no"
           /\ saved' \subseteq saved
           /\ savedExists' = savedExists \/ saved' = {}
           /\ SavedIsNotOverlooked' /\ SavedDescribesTable'
           /\ drop'[c] \in {"none", "no"} => saved' = {}
<1>0. drop \in [Connections -> {"no", "check", "select", "none", "delete"}]
  BY ConnectionsTyped
<1>1. UNCHANGED <<tableVars, writerVars>> /\ saved' \subseteq saved /\ drop[c] # "no"
  BY DEF DropSavedCsrs, DropCheck, DropSelect, DropFoundNone, DropDelete, savedVars
<1>2. SavedDescribesTable'
  BY <1>1 DEF SavedInv, SavedDescribesTable, Table, tableVars
<1>3. \A d \in Connections \ {c} : drop'[d] = drop[d]
  BY <1>0 DEF DropSavedCsrs, DropCheck, DropSelect, DropFoundNone, DropDelete
<1>4. CASE DropCheck(c)
  BY <1>0, <1>1, <1>2, <1>3, <1>4
     DEF DropCheck, NothingSaved, SavedInv, NotMissed, SavedIsNotOverlooked, savedVars
<1>5. CASE DropSelect(c)
  BY <1>0, <1>1, <1>2, <1>3, <1>5
     DEF DropSelect, SavedInv, NotMissed, SavedIsNotOverlooked, savedVars
<1>6. CASE DropFoundNone(c)
  BY <1>0, <1>1, <1>2, <1>3, <1>6
     DEF DropFoundNone, SavedInv, NotMissed, SavedIsNotOverlooked
<1>7. CASE DropDelete(c)
  BY <1>0, <1>1, <1>2, <1>3, <1>7
     DEF DropDelete, SavedInv, NotMissed, SavedIsNotOverlooked
<1> QED
  BY <1>4, <1>5, <1>6, <1>7 DEF DropSavedCsrs

LEMMA WriterStepSaved ==
    ASSUME SerialSaves, TypeOK, SavedInv, NEW w \in Writers, Writing(w)
    PROVE  SavedInv'
<1>0. ~BuildOpen /\ UNCHANGED <<storageVars, sessionVars>> /\ WriterStep(w)
  BY WriterAlone DEF Writing
<1>1. ASSUME NEW k \in Kinds, PlanTableWrite(w, k)
      PROVE  SavedInv'
  <2>1. /\ k \in AllKinds /\ MayIssue(w, k) /\ Issue(w, k) /\ UNCHANGED <<tableVars, savedVars>>
        /\ drop' = IF k \in Inserting THEN drop ELSE [drop EXCEPT ![w] = "check"]
    BY <1>1, ConstantsAssumption DEF PlanTableWrite, Inserting, InsertsOnly
  <2> QED
    BY <1>0, <2>1, PlanSaved
<1>2. CASE PlanPreparedWrite(w)
  <2>1. /\ "prepared" \in AllKinds \ Inserting
    BY DEF AllKinds, Inserting
  <2> QED
    BY <1>0, <1>2, <2>1, PlanSaved DEF PlanPreparedWrite
<1>3. CASE AppendRows(w)
  <2>1. "appender" \in AllKinds \cap Inserting
    BY DEF AllKinds, Inserting
  <2> QED
    BY <1>0, <1>3, <2>1, PlanSaved DEF AppendRows
<1>4. CASE Rollback(w) \/ FlushRows(w) \/ AdvancePlanned(w) \/ InvalidateAfterCommit(w)
  <2>1. /\ log' = log /\ UNCHANGED savedVars
        /\ \A v \in Writers \ {w} : wpc'[v] = wpc[v] /\ stmts'[v] = stmts[v]
        /\ \A c \in Connections \ {w} : drop'[c] = drop[c]
    BY <1>4, ConnectionsTyped
       DEF Rollback, FlushRows, AdvancePlanned, InvalidateAfterCommit, tableVars
  <2>2. /\ drop'[w] = "no" \/ (drop'[w] = drop[w] /\ wpc[w] # "open")
        /\ \/ wpc'[w] = "idle" /\ stmts'[w] = {}
           \/ wpc'[w] = "flushed" /\ wpc[w] = "open" /\ stmts'[w] = stmts[w] /\ drop[w] = "no"
           \/ wpc'[w] = "advanced"
    <3>1. CASE Rollback(w)
      BY <3>1, ConnectionsTyped DEF Rollback
    <3>2. CASE FlushRows(w)
      BY <3>2, ConnectionsTyped DEF FlushRows
    <3>3. CASE AdvancePlanned(w)
      BY <3>3, ConnectionsTyped DEF AdvancePlanned
    <3>4. CASE InvalidateAfterCommit(w)
      BY <3>4, ConnectionsTyped DEF InvalidateAfterCommit
    <3> QED
      BY <1>4, <3>1, <3>2, <3>3, <3>4
  <2>3. drop'[w] = "no"
    BY <2>2 DEF SavedInv, Alone
  <2>4. Dropped'
    BY <2>1, <2>2, ConnectionsTyped DEF SavedInv, Dropped, savedVars
  <2>5. SavedDescribesTable' /\ SavedIsNotOverlooked'
    BY <2>1 DEF SavedInv, NotMissed, SavedDescribesTable, SavedIsNotOverlooked, Table, savedVars
  <2> QED
    BY <1>0, <2>1, <2>3, <2>4, <2>5, WriterSaved DEF savedVars
<1>5. CASE CommitRows(w)
  BY <1>0, <1>5, CommitSaved
<1>6. CASE DropSavedCsrs(w)
  <2>0. w \in Connections
    BY ConnectionsTyped
  <2>1. /\ wpc' = wpc /\ stmts' = stmts /\ wpc[w] = "open"
    BY <1>6, <2>0, DropKeeps DEF writerVars, SavedInv, Alone
  <2>2. Dropped'
    <3>1. \A v \in Writers \ {w} : drop'[v] = drop[v]
      BY <1>6, <2>0, DropKeeps, ConnectionsTyped
    <3> QED
      BY <1>6, <2>0, <2>1, <3>1, DropKeeps DEF SavedInv, Dropped
  <2> QED
    BY <1>0, <1>6, <2>0, <2>1, <2>2, DropKeeps, WriterSaved
<1> QED
  BY <1>0, <1>1, <1>2, <1>3, <1>4, <1>5, <1>6 DEF WriterStep, Finishing

-----------------------------------------------------------------------------
(* Sessions. *)

(* What statement t of a build needs of what another one publishes. *)
StillOfTable(t) ==
    Published(call[t], spc[t]) => \A i \in published' : snaps'[i].base \subseteq Table.rows

(* What a session owes the invariant. *)
LEMMA SessionSaved ==
    ASSUME TypeOK, SavedInv, NEW s \in Sessions, Others(s), UNCHANGED <<tableVars, writerVars>>,
           call'[s].op \in {call[s].op, "none"}, InPlace(call'[s], spc'[s], drop'[s]),
           \A c \in Connections \ {s} : drop'[c] = drop[c],
           NotMissed', SavedDescribesTable', saved' \subseteq saved \/ BuildOpen,
           \A i \in 1..Len(snaps) : snaps'[i].base = snaps[i].base,
           BuildOpen => /\ MadeOf(call'[s], spc'[s], snaps', published', Table.rows)
                        /\ \A t \in Sessions \ {s} : StillOfTable(t)
    PROVE  SavedInv'
<1>1. /\ wpc' = wpc /\ stmts' = stmts /\ Table' = Table
      /\ \A w \in Writers : drop'[w] = drop[w]
      /\ \A t \in Sessions \ {s} :
            call'[t] = call[t] /\ spc'[t] = spc[t] /\ drop'[t] = drop[t]
  BY ConnectionsTyped DEF writerVars, tableVars, Table, Others
<1>2. \A t \in Sessions : Builder(t)' => Builder(t)
  BY <1>1 DEF Builder, Builds
<1>3. BuildOpen' => BuildOpen
  BY <1>2 DEF BuildOpen, Builder
<1>4. Alone'
  BY <1>1, <1>2, <1>3 DEF SavedInv, Alone
<1>5. Dropped'
  BY <1>1 DEF SavedInv, Dropped, Alone
<1>6. ASSUME BuildOpen, NEW t \in Sessions \ {s}
      PROVE  MadeOf(call[t], spc[t], snaps', published', Table.rows)
  <2>1. MadeOf(call[t], spc[t], snaps, published, Table.rows)
    BY <1>6 DEF SavedInv, BuildsOfTable
  <2>2. /\ spc[t] \in {"lock", "synced", "scan", "store"} => call[t].snap \in 1..Len(snaps)
        /\ spc[t] \in {"save", "save_write"} => call[t].lease.snap \in 1..Len(snaps)
    BY CatchUpSnapshot, LeasedSnapshot DEF TypeOK, SessionTypeOK
  <2>3. StillOfTable(t)
    BY <1>6
  <2> QED
    BY <2>1, <2>2, <2>3 DEF MadeOf, StillOfTable
<1>7. BuildsOfTable'
  BY <1>1, <1>3, <1>6 DEF BuildsOfTable
<1> QED
  BY <1>4, <1>5, <1>7 DEF SavedInv

(* A step that neither saves nor drops. *)
LEMMA ReaderSaved ==
    ASSUME TypeOK, SavedInv, NEW s \in Sessions, Others(s), UNCHANGED observerVars,
           call'[s].op = call[s].op, Builder(s) => spc[s] # "leased", spc'[s] # "save_write",
           spc'[s] \in {"save", "save_check"} => call[s].op = "build",
           spc'[s] = "unsave" => call[s].op = "build_memory",
           \A i \in 1..Len(snaps) : snaps'[i].base = snaps[i].base,
           BuildOpen => /\ MadeOf(call'[s], spc'[s], snaps', published', Table.rows)
                        /\ \A t \in Sessions \ {s} : StillOfTable(t)
    PROVE  SavedInv'
<1>1. UNCHANGED <<tableVars, writerVars, drop, saved, savedKnown, savedExists, log>>
  BY DEF observerVars, savedVars, tableVars
<1>2. InPlace(call'[s], spc'[s], drop'[s])
  BY <1>1 DEF SavedInv, Alone, InPlace, Builder
<1>3. SavedDescribesTable'
  BY <1>1 DEF SavedInv, SavedDescribesTable, Table
<1>4. NotMissed'
  BY <1>1 DEF SavedInv, NotMissed, SavedIsNotOverlooked, Others
<1> QED
  BY <1>1, <1>2, <1>3, <1>4, SessionSaved

(* Where a statement has nothing in hand that the invariant speaks of. *)
EmptyHanded == Places \ {"read", "validate", "publish", "load_stamp", "load_publish", "lock",
                         "synced", "scan", "store", "save", "save_write", "save_check", "unsave"}

(* A statement that goes on there, once published if it was. *)
LEMMA MovesSaved ==
    ASSUME TypeOK, SavedInv, NEW s \in Sessions, Others(s), UNCHANGED observerVars, snaps' = snaps,
           published' \subseteq published,
           call'[s].op = call[s].op, Builder(s) => spc[s] # "leased", spc'[s] \in EmptyHanded,
           Published(call'[s], spc'[s]) => Published(call[s], spc[s])
    PROVE  SavedInv'
<1>1. ASSUME BuildOpen
      PROVE  /\ MadeOf(call'[s], spc'[s], snaps', published', Table.rows)
             /\ \A t \in Sessions \ {s} : StillOfTable(t)
  <2>1. \A t \in Sessions : MadeOf(call[t], spc[t], snaps, published, Table.rows)
    BY <1>1 DEF SavedInv, BuildsOfTable
  <2> QED
    BY <2>1 DEF MadeOf, StillOfTable, EmptyHanded
<1> QED
  BY <1>1, ReaderSaved DEF EmptyHanded

(* The steps that make nothing, take no snapshot and hand out no lease. *)
LEMMA PlainSaved ==
    ASSUME TypeOK, SavedInv, NEW s \in Sessions, SessionStep(s),
           \/ ReadVersion(s) \/ LoadCheck(s) \/ Claim(s) \/ Wait(s) \/ BuildThrows(s) \/ Release(s)
           \/ ReleaseFailed(s) \/ Reacquire(s)
           \/ Scan(s) /\ ~ScanFits(snaps[call[s].snap], call[s].rows)
    PROVE  SavedInv'
<1>1. MovesOn(s)
  BY PlainMoves
<1>2. Others(s)
  BY QuietLocals, ReleaseLocals DEF Quiet
<1>3. UNCHANGED observerVars /\ snaps' = snaps /\ published' = published
  BY DEF ReadVersion, LoadCheck, Claim, Wait, BuildThrows, Release, ReleaseFailed, Reacquire, Scan,
         storageVars
<1>4. Builder(s) => spc[s] # "leased"
  BY DEF ReadVersion, LoadCheck, Claim, Wait, BuildThrows, Release, ReleaseFailed, Reacquire, Scan,
         At, Builder, Builds
<1>5. ASSUME NEW c, NEW p, call' = [call EXCEPT ![s] = c], Goto(s, p), p \in EmptyHanded,
             Published(c, p) => Published(call[s], spc[s])
      PROVE  SavedInv'
  <2>1. call'[s] = c /\ spc'[s] = p
    BY <1>5, Called, Moved
  <2> QED
    BY <1>1, <1>2, <1>3, <1>4, <1>5, <2>1, MovesSaved DEF MovesOn
<1>6. CASE Wait(s) \/ BuildThrows(s) \/ (LoadCheck(s) /\ call' = call)
  <2>1. PICK p \in EmptyHanded : Goto(s, p) /\ (p \in AfterPublish => spc[s] \in AfterPublish)
    BY <1>6 DEF Wait, BuildThrows, LoadCheck, NotLoaded, At, EmptyHanded, Places, AfterPublish
  <2>2. call' = [call EXCEPT ![s] = call[s]]
    BY <1>6, CallTyped DEF Wait, BuildThrows
  <2> QED
    BY <1>5, <2>1, <2>2 DEF Published
<1>7. CASE ReadVersion(s)
  <2>1. PICK v : call' = [call EXCEPT ![s] = [call[s] EXCEPT !.version = v]]
    BY <1>7 DEF ReadVersion
  <2>2. Goto(s, "find") /\ spc[s] \in AfterPublish /\ "find" \in EmptyHanded
    BY <1>7 DEF ReadVersion, At, AfterPublish, EmptyHanded, Places
  <2>3. /\ [call[s] EXCEPT !.version = v].op = call[s].op
    BY CallTyped DEF Calls
  <2> QED
    BY <1>5, <2>1, <2>2, <2>3 DEF Published
<1>8. CASE LoadCheck(s) /\ call' # call
  <2>1. call' = [call EXCEPT ![s] = [call[s] EXCEPT !.gen = dbGen]] /\ Goto(s, "load_read")
    BY <1>8 DEF LoadCheck
  <2>2. spc[s] \in AfterPublish /\ "load_read" \in EmptyHanded
    BY <1>8 DEF LoadCheck, At, AfterPublish, EmptyHanded, Places
  <2>3. /\ [call[s] EXCEPT !.gen = dbGen].op = call[s].op
    BY CallTyped DEF Calls
  <2> QED
    BY <1>5, <2>1, <2>2, <2>3 DEF Published
<1>9. CASE Claim(s)
  <2>1. spc[s] \in AfterPublish /\ "wait" \in EmptyHanded /\ "generations" \in EmptyHanded
    BY <1>9 DEF Claim, At, AfterPublish, EmptyHanded, Places
  <2>2. /\ [call[s] EXCEPT !.rebuilt = TRUE].op = call[s].op
        /\ [call[s] EXCEPT !.rebuilt = TRUE, !.claimed = TRUE].op = call[s].op
    BY CallTyped DEF Calls
  <2>3. \/ call' = [call EXCEPT ![s] = [call[s] EXCEPT !.rebuilt = TRUE]] /\ Goto(s, "wait")
        \/ /\ call' = [call EXCEPT ![s] = [call[s] EXCEPT !.rebuilt = TRUE, !.claimed = TRUE]]
           /\ Goto(s, "generations")
    BY <1>9, CallTyped DEF Claim
  <2> QED
    BY <1>5, <2>1, <2>2, <2>3 DEF Published
<1>10. CASE Release(s)
  <2>1. call' = [call EXCEPT ![s] = [call[s] EXCEPT !.claimed = FALSE]] /\ Goto(s, "version")
    BY <1>10 DEF Release
  <2>2. spc[s] \in AfterPublish /\ "version" \in EmptyHanded
    BY <1>10 DEF Release, At, AfterPublish, EmptyHanded, Places
  <2>3. [call[s] EXCEPT !.claimed = FALSE].op = call[s].op
    BY CallTyped DEF Calls
  <2> QED
    BY <1>5, <2>1, <2>2, <2>3 DEF Published
<1>11. CASE ReleaseFailed(s)
  <2> DEFINE c == [call[s] EXCEPT !.claimed = FALSE, !.work = NoSnapshot]
  <2>1. call' = [call EXCEPT ![s] = c] /\ Goto(s, "failed")
    BY <1>11, CallTyped DEF ReleaseFailed
  <2>2. "failed" \notin AfterPublish /\ "failed" \in EmptyHanded
    BY DEF AfterPublish, EmptyHanded, Places
  <2>3. c.op = call[s].op /\ c.rebuilt = call[s].rebuilt
    BY CallTyped DEF Calls
  <2> HIDE DEF c
  <2> QED
    BY <1>5, <2>1, <2>2, <2>3 DEF Published
<1>12. CASE Reacquire(s)
  <2>1. call[s].op = "query" /\ call'[s].op = call[s].op
    BY <1>1, <1>12 DEF Reacquire, MovesOn
  <2>2. spc'[s] \in {"leased", "version"}
    BY <1>12, CallTyped DEF Reacquire, At, Goto
  <2>3. spc'[s] \in EmptyHanded /\ ~Published(call'[s], spc'[s])
    BY <2>1, <2>2 DEF EmptyHanded, Places, Published, Builds
  <2> QED
    BY <1>2, <1>3, <1>4, <2>1, <2>3, MovesSaved
<1>13. CASE Scan(s) /\ ~ScanFits(snaps[call[s].snap], call[s].rows)
  <2> DEFINE c == [call[s] EXCEPT !.rows = {}, !.snap = 0, !.gen = 0]
  <2>1. call' = [call EXCEPT ![s] = c]
    BY <1>13, CallTyped DEF Scan, Rebuild
  <2>2. PICK p \in {"outrun", "claim"} : Goto(s, p)
    BY <1>13 DEF Scan, Rebuild
  <2>3. c.op = call[s].op
    BY CallTyped DEF Calls
  <2>4. spc[s] \in AfterPublish /\ p \in EmptyHanded
    BY <1>13 DEF Scan, At, AfterPublish, EmptyHanded, Places
  <2> HIDE DEF c
  <2> QED
    BY <1>5, <2>1, <2>2, <2>3, <2>4 DEF Published
<1> QED
  BY <1>6, <1>7, <1>8, <1>9, <1>10, <1>11, <1>12, <1>13

-----------------------------------------------------------------------------
(* Sessions: the snapshot a statement works on, and the lease. *)

(* The invariant, as a statement of this session finds it while gql_build_csr runs. *)
LEMMA MadeHere ==
    ASSUME TypeOK, SavedInv, BuildOpen
    PROVE  \A t \in Sessions :
              /\ MadeOf(call[t], spc[t], snaps, published, Table.rows)
              /\ published' \subseteq published /\ snaps' = snaps => StillOfTable(t)
<1>1. \A t \in Sessions : MadeOf(call[t], spc[t], snaps, published, Table.rows)
  BY DEF SavedInv, BuildsOfTable
<1> QED
  BY <1>1 DEF MadeOf, StillOfTable

(* A statement that works on a published snapshot, or on the one it has. *)
LEMMA WorksOnSaved ==
    ASSUME TypeOK, SavedInv, NEW s \in Sessions, UNCHANGED observerVars, snaps' = snaps,
           published' \subseteq published, NEW c, NEW p \in {"lock", "synced", "scan", "store"},
           call' = [call EXCEPT ![s] = c], Goto(s, p), spc[s] \in AfterPublish,
           c.op = call[s].op, c.snap \in published
              \/ (c.snap = call[s].snap /\ spc[s] \in {"lock", "synced", "scan"})
    PROVE  SavedInv'
<1>1. call'[s] = c /\ spc'[s] = p /\ Others(s)
  BY Called, Moved DEF Others
<1>2. spc[s] # "leased"
  BY DEF AfterPublish
<1>3. ASSUME BuildOpen
      PROVE  MadeOf(c, p, snaps, published', Table.rows)
  <2>1. MadeOf(call[s], spc[s], snaps, published, Table.rows)
    BY <1>3, MadeHere
  <2>2. Published(c, p) => Published(call[s], spc[s])
    BY DEF Published
  <2> QED
    BY <2>1, <2>2 DEF MadeOf
<1>4. BuildOpen => \A t \in Sessions \ {s} : StillOfTable(t)
  BY MadeHere
<1> QED
  BY <1>1, <1>2, <1>3, <1>4, ReaderSaved DEF Builder

(* The catch-up, up to the delta. *)
LEMMA CatchUpSaved ==
    ASSUME TypeOK, SavedInv, NEW s \in Sessions,
           \/ LockCatchUp(s) \/ (CheckSynced(s) /\ ~Leases(s))
           \/ (Scan(s) /\ ScanFits(snaps[call[s].snap], call[s].rows))
    PROVE  SavedInv'
<1>1. /\ UNCHANGED observerVars /\ snaps' = snaps /\ published' = published
      /\ spc[s] \in {"lock", "synced", "scan"} /\ spc[s] \in AfterPublish
  BY DEF LockCatchUp, CheckSynced, Scan, At, AfterPublish
<1>2. CASE LockCatchUp(s)
  <2> DEFINE c == [call[s] EXCEPT !.gen = dbGen]
  <2>1. call' = [call EXCEPT ![s] = c] /\ Goto(s, "synced")
    BY <1>2 DEF LockCatchUp
  <2>2. c.op = call[s].op /\ c.snap = call[s].snap
    BY CallTyped DEF Calls
  <2> HIDE DEF c
  <2> QED
    BY <1>1, <2>1, <2>2, WorksOnSaved
<1>3. CASE CheckSynced(s) /\ ~Leases(s)
  <2> DEFINE c == [call[s] EXCEPT !.rows = snaps[call[s].snap].delta]
  <2>1. call' = [call EXCEPT ![s] = c] /\ Goto(s, "scan")
    BY <1>3 DEF CheckSynced, Leases
  <2>2. c.op = call[s].op /\ c.snap = call[s].snap
    BY CallTyped DEF Calls
  <2> HIDE DEF c
  <2> QED
    BY <1>1, <2>1, <2>2, WorksOnSaved
<1>4. CASE Scan(s) /\ ScanFits(snaps[call[s].snap], call[s].rows)
  <2> DEFINE rows == call[s].rows \cup ScanFinds(snaps[call[s].snap], call[s].rows)
             c == [call[s] EXCEPT !.rows = rows]
  <2>1. call' = [call EXCEPT ![s] = c] /\ Goto(s, "store")
    BY <1>4 DEF Scan
  <2> HIDE DEF rows
  <2>2. c.op = call[s].op /\ c.snap = call[s].snap
    BY CallTyped DEF Calls
  <2> HIDE DEF c
  <2> QED
    BY <1>1, <2>1, <2>2, WorksOnSaved
<1> QED
  BY <1>2, <1>3, <1>4

(* A lease of the snapshot a statement works on. *)
LEMMA LeaseSaved ==
    ASSUME TypeOK, SavedInv, NEW s \in Sessions, UNCHANGED observerVars,
           published' \subseteq published,
           Leases(s), Find(s) \/ CheckSynced(s) \/ StoreDelta(s)
    PROVE  SavedInv'
<1>1. PICK i, rows :
         /\ Lease(s, i, rows)
         /\ call[s].op \notin Builds \/ (i = call[s].snap /\ spc[s] \in {"synced", "store"})
  <2>1. CASE Find(s)
    <3>1. call[s].op \in {"algorithm", "narrow", "unchanged"}
      <4>1. CASE call[s].op \notin {"algorithm", "narrow", "unchanged"}
        <5>1. PICK p \in {"load", "lock"} : Goto(s, p)
          BY <2>1, <4>1 DEF Find
        <5> QED
          BY <5>1, Moved, LeaseLocals
      <4> QED
        BY <4>1
    <3> QED
      BY <3>1 DEF Leases, Builds
  <2>2. CASE CheckSynced(s)
    <3>1. CASE snaps[call[s].snap].synced = call[s].gen
      BY <2>2, <3>1 DEF CheckSynced, At
    <3>2. CASE snaps[call[s].snap].synced # call[s].gen
      <4>1. Goto(s, "scan")
        BY <2>2, <3>2 DEF CheckSynced
      <4>2. spc'[s] = "scan"
        BY <4>1, Moved
      <4>3. spc'[s] \in {"save", "unsave", "leased", "idle"}
        BY LeaseLocals
      <4> QED
        BY <4>2, <4>3
    <3> QED
      BY <3>1, <3>2
  <2>3. CASE StoreDelta(s)
    BY <2>3 DEF StoreDelta, At
  <2> QED
    BY <2>1, <2>2, <2>3
<1> DEFINE c == [NoCall EXCEPT !.op = call[s].op, !.since = call[s].since,
                     !.lease = [snap |-> i, rows |-> rows], !.acquires = call[s].acquires + 1]
<1>2. c.op = call[s].op /\ c.lease.snap = i /\ c.rebuilt = FALSE
  BY DEF NoCall
<1>3. call' = [call EXCEPT ![s] = c]
  BY <1>1 DEF Lease
<1> HIDE DEF c
<1>4. call'[s] = c
  BY <1>3, Called
<1>5. /\ spc'[s] \in {"save", "unsave", "leased"}
      /\ spc'[s] = "save" => call[s].op = "build"
      /\ spc'[s] = "unsave" => call[s].op = "build_memory"
  BY <1>1, CallTyped DEF Lease, Goto
<1>6. \A k \in 1..Len(snaps) : snaps'[k].base = snaps[k].base
  <2>1. CASE StoreDelta(s)
    <3> DEFINE k == call[s].snap
               new == CaughtUp(snaps[k], call[s])
    <3>1. k \in 1..Len(snaps) /\ snaps[k] \in Snapshots /\ snaps \in Seq(Snapshots)
      BY <2>1, CatchUpSnapshot, CallTyped DEF StoreDelta, At
    <3>2. snaps' = [snaps EXCEPT ![k] = new] /\ new.base = snaps[k].base
      BY <2>1, <3>1 DEF StoreDelta, CaughtUp, SyncGeneration, Snapshots
    <3> HIDE DEF new
    <3> QED
      BY <3>1, <3>2
  <2>2. CASE Find(s) \/ CheckSynced(s)
    BY <2>2 DEF Find, CheckSynced
  <2> QED
    BY <2>1, <2>2
<1>7. ASSUME BuildOpen
      PROVE  /\ MadeOf(c, spc'[s], snaps', published', Table.rows)
             /\ \A t \in Sessions \ {s} : StillOfTable(t)
  <2>1. \A t \in Sessions : MadeOf(call[t], spc[t], snaps, published, Table.rows)
    BY <1>7, MadeHere
  <2>2. published \subseteq 1..Len(snaps)
    BY DEF TypeOK, StorageTypeOK
  <2>3. \A t \in Sessions \ {s} : StillOfTable(t)
    BY <1>6, <2>1, <2>2 DEF MadeOf, StillOfTable
  <2>4. ASSUME Published(c, spc'[s])
        PROVE  /\ \A k \in published' : snaps'[k].base \subseteq Table.rows
               /\ snaps'[i].base \subseteq Table.rows
    <3>1. i = call[s].snap /\ spc[s] \in {"synced", "store"}
      BY <1>1, <1>2, <2>4 DEF Published
    <3>2. Published(call[s], spc[s])
      BY <1>2, <2>4, <3>1 DEF Published, AfterPublish
    <3>3. i \in 1..Len(snaps)
      BY <3>1, CatchUpSnapshot
    <3> QED
      BY <1>6, <2>1, <2>2, <3>1, <3>2, <3>3 DEF MadeOf
  <2> QED
    BY <1>2, <1>5, <2>3, <2>4 DEF MadeOf
<1>8. Builder(s) => spc[s] # "leased"
  BY DEF Find, CheckSynced, StoreDelta, At
<1>9. Others(s)
  BY LeaseLocals
<1> QED
  BY <1>2, <1>4, <1>5, <1>6, <1>7, <1>8, <1>9, ReaderSaved

(* The lookup. *)
LEMMA FindSaved ==
    ASSUME TypeOK, SavedInv, NEW s \in Sessions, Find(s)
    PROVE  SavedInv'
<1>1. /\ UNCHANGED observerVars /\ snaps' = snaps /\ published' \subseteq published
      /\ spc[s] = "find" /\ spc[s] \in AfterPublish
  BY DEF Find, Kept, At, AfterPublish
<1>2. CASE Leases(s)
  BY <1>1, <1>2, LeaseSaved
<1>3. CASE ~Leases(s)
  <2> DEFINE prepared == Prepared(call[s].version, WantsFull(s))
             follow == {i \in Kept(call[s].version) : CanCatchUp(snaps[i])}
  <2>0. /\ prepared \subseteq published' /\ follow \subseteq published'
    BY DEF Find, Prepared, Kept
  <2> HIDE DEF prepared, follow
  <2>1. PICK p \in {"claim", "load", "failed", "lock"} :
           \E i : Looked(s, i) /\ Goto(s, p) /\ (p = "lock" => i \in published')
    <3>1. CASE call[s].op \in {"algorithm", "narrow", "unchanged"} /\ prepared # {}
      <4>1. \E i \in prepared : Lease(s, i, snaps[i].base)
        BY <3>1 DEF Find, prepared
      <4> QED
        BY <1>3, <4>1 DEF Leases
    <3>2. CASE call[s].op \in {"algorithm", "narrow"} /\ prepared = {}
      BY <3>2 DEF Find, prepared
    <3>3. CASE call[s].op = "unchanged" /\ prepared = {}
      BY <3>3 DEF Find, prepared
    <3>4. CASE call[s].op \notin {"algorithm", "narrow", "unchanged"}
      <4>1. LET found == IF prepared # {} THEN prepared ELSE follow
            IN  IF found = {} THEN Goto(s, "load") /\ Looked(s, 0)
                ELSE /\ \E i \in found : Looked(s, i)
                     /\ Goto(s, "lock")
        BY <3>4 DEF Find, prepared, follow
      <4> QED
        BY <2>0, <4>1
    <3> QED
      BY <3>1, <3>2, <3>3, <3>4
  <2>7. PICK i : Looked(s, i) /\ Goto(s, p) /\ (p = "lock" => i \in published)
    BY <1>1, <2>1
  <2> DEFINE c == [call[s] EXCEPT !.version = 0, !.snap = i]
  <2>2. call' = [call EXCEPT ![s] = c]
    BY <2>7, CallTyped DEF Looked
  <2>3. c.op = call[s].op /\ c.snap = i
    BY CallTyped DEF Calls
  <2> HIDE DEF c
  <2>4. CASE p = "lock"
    BY <1>1, <2>2, <2>3, <2>4, <2>7, WorksOnSaved
  <2>5. CASE p # "lock"
    <3>1. call'[s] = c /\ spc'[s] = p /\ Others(s) /\ p \in EmptyHanded
      BY <2>2, <2>5, <2>7, Called, Moved DEF Others, EmptyHanded, Places
    <3> QED
      BY <1>1, <2>3, <3>1, MovesSaved DEF Published
  <2> QED
    BY <2>4, <2>5
<1> QED
  BY <1>2, <1>3

-----------------------------------------------------------------------------
(* Sessions: the snapshots they load and build. *)

(* A snapshot of rows in the table may be published while gql_build_csr runs. *)
LEMMA AddedSaved ==
    ASSUME TypeOK, SavedInv, NEW new \in Snapshots, BuildOpen => new.base \subseteq Table.rows,
           \/ snaps' = snaps /\ published' \subseteq published
           \/ snaps' = Append(snaps, new) /\ published' \subseteq published \cup {Len(snaps) + 1}
    PROVE  /\ \A i \in 1..Len(snaps) : snaps'[i].base = snaps[i].base
           /\ BuildOpen => \A t \in Sessions : StillOfTable(t)
<1>1. snaps \in Seq(Snapshots) /\ Len(snaps) \in Nat /\ published \subseteq 1..Len(snaps)
  BY SnapsLength DEF TypeOK, StorageTypeOK
<1>2. \A i \in 1..Len(snaps) : snaps'[i] = snaps[i]
  BY <1>1
<1>3. snaps' = Append(snaps, new) => snaps'[Len(snaps) + 1] = new
  BY <1>1
<1>4. ASSUME BuildOpen, NEW t \in Sessions, Published(call[t], spc[t]), NEW i \in published'
      PROVE  snaps'[i].base \subseteq Table.rows
  <2>1. \A k \in published : snaps[k].base \subseteq Table.rows
    BY <1>4, MadeHere DEF MadeOf
  <2> QED
    BY <1>1, <1>2, <1>3, <1>4, <2>1
<1> QED
  BY <1>2, <1>4 DEF StillOfTable

(* A saved copy is read, which is of rows in the table. *)
LEMMA LoadSaved ==
    ASSUME TypeOK, SavedInv, NEW s \in Sessions, LoadRead(s) \/ LoadStamp(s)
    PROVE  SavedInv'
<1>1. /\ UNCHANGED observerVars /\ snaps' = snaps /\ published' = published
      /\ spc[s] \in AfterPublish /\ spc[s] # "leased"
  BY DEF LoadRead, LoadStamp, At, AfterPublish, storageVars
<1>2. ASSUME NEW c, NEW p \in {"load_stamp", "load_publish"}, call' = [call EXCEPT ![s] = c],
             Goto(s, p), c.op = call[s].op, c.work.base \subseteq Table.rows \/ ~BuildOpen
      PROVE  SavedInv'
  <2>1. call'[s] = c /\ spc'[s] = p /\ Others(s)
    BY <1>2, Called, Moved DEF Others
  <2>2. ASSUME BuildOpen
        PROVE  /\ MadeOf(c, p, snaps, published', Table.rows)
               /\ \A t \in Sessions \ {s} : StillOfTable(t)
    <3>1. Published(c, p) => Published(call[s], spc[s])
      BY <1>1, <1>2 DEF Published
    <3>2. MadeOf(call[s], spc[s], snaps, published, Table.rows)
      BY <2>2, MadeHere
    <3> QED
      BY <1>1, <1>2, <2>2, <3>1, <3>2, MadeHere DEF MadeOf
  <2> QED
    BY <1>1, <1>2, <2>1, <2>2, ReaderSaved DEF Builder
<1>3. CASE LoadRead(s) /\ saved = {}
  <2> DEFINE c == [call[s] EXCEPT !.gen = 0]
  <2>1. PICK p \in {"claim", "failed"} : Goto(s, p)
    BY <1>3 DEF LoadRead, NotLoaded
  <2>2. call' = [call EXCEPT ![s] = c]
    BY <1>3, CallTyped DEF LoadRead
  <2>3. c.op = call[s].op
    BY CallTyped DEF Calls
  <2> HIDE DEF c
  <2>4. call'[s] = c /\ spc'[s] = p /\ Others(s) /\ p \in EmptyHanded
    BY <2>1, <2>2, Called, Moved DEF Others, EmptyHanded, Places
  <2> QED
    BY <1>1, <2>3, <2>4, MovesSaved DEF Published
<1>4. CASE LoadRead(s) /\ saved # {}
  <2>1. PICK copy \in saved :
           call' = [call EXCEPT ![s].gen = 0, ![s].work = [NoSnapshot EXCEPT
                       !.base = copy.base, !.version = copy.version,
                       !.watermark = copy.watermark, !.full = TRUE, !.disk = TRUE]]
    BY <1>4 DEF LoadRead
  <2> DEFINE new == [NoSnapshot EXCEPT !.base = copy.base, !.version = copy.version,
                         !.watermark = copy.watermark, !.full = TRUE, !.disk = TRUE]
             c == [call[s] EXCEPT !.gen = 0, !.work = new]
  <2>2. new.base = copy.base
    BY DEF NoSnapshot
  <2> HIDE DEF new
  <2>3. call' = [call EXCEPT ![s] = c]
    BY <2>1, CallTyped DEF new, Calls
  <2>4. c.op = call[s].op /\ c.work = new
    BY CallTyped DEF Calls
  <2>5. Goto(s, "load_stamp") /\ copy.base \subseteq Table.rows
    BY <1>4 DEF LoadRead, SavedInv, SavedDescribesTable
  <2> HIDE DEF c
  <2> QED
    BY <1>2, <2>2, <2>3, <2>4, <2>5
<1>5. CASE LoadStamp(s)
  <2> DEFINE new == [call[s].work EXCEPT !.write = writeGen, !.table = tableGen,
                                         !.destr = destrGen, !.synced = LoadedSync]
             c == [call[s] EXCEPT !.work = new]
  <2>1. call' = [call EXCEPT ![s] = c] /\ Goto(s, "load_publish") /\ spc[s] = "load_stamp"
    BY <1>5, CallTyped DEF LoadStamp, At
  <2>2. new.base = call[s].work.base
    BY CallTyped DEF Snapshots
  <2> HIDE DEF new
  <2>3. c.op = call[s].op /\ c.work = new
    BY CallTyped DEF Calls
  <2>4. BuildOpen => call[s].work.base \subseteq Table.rows
    BY <2>1, MadeHere DEF MadeOf
  <2> HIDE DEF c
  <2> QED
    BY <1>2, <2>1, <2>2, <2>3, <2>4
<1> QED
  BY <1>3, <1>4, <1>5

(* It is published, unless there is a full one. *)
LEMMA LoadedSaved ==
    ASSUME TypeOK, SavedInv, NEW s \in Sessions, LoadPublish(s)
    PROVE  SavedInv'
<1>1. UNCHANGED observerVars /\ spc[s] = "load_publish"
  BY DEF LoadPublish, At
<1>2. PICK i :
         /\ Loaded(s, i)
         /\ \/ i \in published /\ snaps' = snaps /\ published' = published
            \/ /\ i = Len(snaps) + 1 /\ snaps' = Append(snaps, call[s].work)
               /\ published' = published \cup {Len(snaps) + 1}
  BY DEF LoadPublish
<1>3. /\ \A k \in 1..Len(snaps) : snaps'[k].base = snaps[k].base
      /\ BuildOpen => \A t \in Sessions : StillOfTable(t)
  <2>1. BuildOpen => call[s].work.base \subseteq Table.rows
    BY <1>1, MadeHere DEF MadeOf
  <2> QED
    BY <1>2, <2>1, AddedSaved, CallTyped
<1>4. ASSUME NEW c, NEW p \in {"version", "lock"}, call' = [call EXCEPT ![s] = c], Goto(s, p),
             c.op = call[s].op, p = "lock" => c.snap = i
      PROVE  SavedInv'
  <2>1. call'[s] = c /\ spc'[s] = p /\ Others(s)
    BY <1>4, Called, Moved DEF Others
  <2>2. ASSUME BuildOpen
        PROVE  MadeOf(c, p, snaps', published', Table.rows)
    <3>1. Published(c, p) => Published(call[s], spc[s])
      BY <1>1, <1>4 DEF Published, AfterPublish
    <3>2. Published(c, p) => \A k \in published' : snaps'[k].base \subseteq Table.rows
      BY <1>3, <2>2, <3>1 DEF StillOfTable
    <3> QED
      BY <1>2, <1>4, <3>2 DEF MadeOf
  <2> QED
    BY <1>1, <1>3, <1>4, <2>1, <2>2, ReaderSaved DEF Builder
<1>5. CASE call[s].op \in {"algorithm", "narrow"}
  <2> DEFINE c == [call[s] EXCEPT !.work = NoSnapshot, !.tried = TRUE]
  <2>1. call' = [call EXCEPT ![s] = c] /\ Goto(s, "version")
    BY <1>2, <1>5, CallTyped DEF Loaded, Calls
  <2>2. c.op = call[s].op
    BY CallTyped DEF Calls
  <2> HIDE DEF c
  <2> QED
    BY <1>4, <2>1, <2>2
<1>6. CASE call[s].op \notin {"algorithm", "narrow"}
  <2> DEFINE c == [call[s] EXCEPT !.work = NoSnapshot, !.snap = i]
  <2>1. call' = [call EXCEPT ![s] = c] /\ Goto(s, "lock")
    BY <1>2, <1>6, CallTyped DEF Loaded, Calls
  <2>2. c.op = call[s].op /\ c.snap = i
    BY CallTyped DEF Calls
  <2> HIDE DEF c
  <2> QED
    BY <1>4, <2>1, <2>2
<1> QED
  BY <1>5, <1>6

(* A build: it reads the table, where nothing is deleted while gql_build_csr runs. *)
LEMMA BuildSaved ==
    ASSUME TypeOK, SavedInv, NEW s \in Sessions,
           BuildGenerations(s) \/ BuildRead(s) \/ BuildValidate(s)
    PROVE  SavedInv'
<1>1. /\ UNCHANGED observerVars /\ snaps' = snaps /\ published' = published
      /\ spc[s] \in {"generations", "read", "validate"}
  BY DEF BuildGenerations, BuildRead, BuildValidate, At, storageVars
<1>2. ASSUME NEW c, NEW p \in {"read", "validate", "publish", "fail"},
             call' = [call EXCEPT ![s] = c], Goto(s, p),
             c.op = call[s].op, c.rebuilt = call[s].rebuilt,
             c.op \in Builds /\ p # "fail" => c.work.full,
             p \in {"validate", "publish"} /\ BuildOpen => c.work.base \subseteq Table.rows
      PROVE  SavedInv'
  <2>1. call'[s] = c /\ spc'[s] = p /\ Others(s)
    BY <1>2, Called, Moved DEF Others
  <2>2. ASSUME BuildOpen
        PROVE  /\ MadeOf(c, p, snaps, published', Table.rows)
               /\ \A t \in Sessions \ {s} : StillOfTable(t)
    <3>1. Published(c, p) => Published(call[s], spc[s])
      BY <1>1, <1>2 DEF Published, AfterPublish
    <3>2. MadeOf(call[s], spc[s], snaps, published, Table.rows)
      BY <2>2, MadeHere
    <3> QED
      BY <1>1, <1>2, <2>2, <3>1, <3>2, MadeHere DEF MadeOf
  <2> QED
    BY <1>1, <1>2, <2>1, <2>2, ReaderSaved DEF Builder
<1>3. CASE BuildGenerations(s)
  <2> DEFINE new == [NoSnapshot EXCEPT !.write = writeGen, !.table = tableGen, !.destr = destrGen,
                                       !.synced = dbGen, !.full = WantsFull(s)]
             c == [call[s] EXCEPT !.work = new]
  <2>1. call' = [call EXCEPT ![s] = c] /\ Goto(s, "read")
    BY <1>3, CallTyped DEF BuildGenerations
  <2>2. new.full = WantsFull(s)
    BY DEF NoSnapshot
  <2> HIDE DEF new
  <2>3. c.op = call[s].op /\ c.rebuilt = call[s].rebuilt /\ c.work = new
    BY CallTyped DEF Calls
  <2>4. call[s].op \in Builds => WantsFull(s)
    BY DEF WantsFull, Builds
  <2> HIDE DEF c
  <2> QED
    BY <1>2, <2>1, <2>2, <2>3, <2>4
<1>4. CASE BuildRead(s)
  <2> DEFINE new == [call[s].work EXCEPT !.base = Table.rows, !.at = Len(log),
                         !.version = Table.version, !.watermark = Watermark(Table.rows)]
             c == [call[s] EXCEPT !.work = new]
  <2>1. call' = [call EXCEPT ![s] = c] /\ Goto(s, "validate") /\ spc[s] = "read"
    BY <1>4, CallTyped DEF BuildRead, At
  <2>2. new.full = call[s].work.full /\ new.base = Table.rows
    BY CallTyped DEF Snapshots
  <2> HIDE DEF new
  <2>3. c.op = call[s].op /\ c.rebuilt = call[s].rebuilt /\ c.work = new
    BY CallTyped DEF Calls
  <2>4. call[s].op \in Builds => call[s].work.full
    BY <2>1, MadeHere DEF MadeOf, BuildOpen
  <2> HIDE DEF c
  <2> QED
    BY <1>2, <2>1, <2>2, <2>3, <2>4
<1>5. CASE BuildValidate(s)
  <2>1. PICK p \in {"publish", "fail"} : Goto(s, p)
    BY <1>5 DEF BuildValidate
  <2>2. call' = [call EXCEPT ![s] = call[s]] /\ spc[s] = "validate"
    BY <1>5, CallTyped DEF BuildValidate, At
  <2>3. /\ call[s].op \in Builds => call[s].work.full
        /\ BuildOpen => call[s].work.base \subseteq Table.rows
    BY <2>2, MadeHere DEF MadeOf, BuildOpen
  <2> QED
    BY <1>2, <2>1, <2>2, <2>3
<1> QED
  BY <1>3, <1>4, <1>5

(* The full snapshot of gql_build_csr replaces every other one. *)
LEMMA FullReplaces ==
    ASSUME TypeOK, NEW new \in Snapshots, new.full, PublishSnapshot(new)
    PROVE  snaps' = Append(snaps, new) /\ published' = {Len(snaps) + 1}
<1>1. {i \in published : ~Replaced(snaps[i], new)} = {}
  BY DEF Replaced, Covers
<1> QED
  BY <1>1 DEF PublishSnapshot

LEMMA PublishSaved ==
    ASSUME TypeOK, SavedInv, NEW s \in Sessions, Publish(s)
    PROVE  SavedInv'
<1> DEFINE new == call[s].work
<1>1. /\ UNCHANGED observerVars /\ spc[s] = "publish" /\ new \in Snapshots /\ PublishSnapshot(new)
  BY CallTyped DEF Publish, At
<1>2. /\ BuildOpen => new.base \subseteq Table.rows
      /\ call[s].op \in Builds => new.full /\ BuildOpen
  BY <1>1, MadeHere DEF MadeOf, BuildOpen
<1> DEFINE c == [call[s] EXCEPT !.work = NoSnapshot]
<1>3. PICK p \in {"release", "version"} : Goto(s, p)
  BY DEF Publish
<1>4. call' = [call EXCEPT ![s] = c]
  BY CallTyped DEF Publish
<1>5. c.op = call[s].op
  BY CallTyped DEF Calls
<1> HIDE DEF c, new
<1>6. call'[s] = c /\ spc'[s] = p /\ Others(s)
  BY <1>3, <1>4, Called, Moved DEF Others
<1>7. \/ snaps' = snaps /\ published' \subseteq published
      \/ snaps' = Append(snaps, new) /\ published' \subseteq published \cup {Len(snaps) + 1}
  BY <1>1 DEF PublishSnapshot
<1>8. /\ \A i \in 1..Len(snaps) : snaps'[i].base = snaps[i].base
      /\ BuildOpen => \A t \in Sessions : StillOfTable(t)
  BY <1>1, <1>2, <1>7, AddedSaved
<1>9. ASSUME call[s].op \in Builds
      PROVE  \A i \in published' : snaps'[i].base \subseteq Table.rows
  <2>1. snaps' = Append(snaps, new) /\ published' = {Len(snaps) + 1}
    BY <1>1, <1>2, <1>9, FullReplaces
  <2>2. snaps'[Len(snaps) + 1] = new
    BY <2>1, CallTyped
  <2> QED
    BY <1>2, <1>9, <2>1, <2>2
<1>10. MadeOf(c, p, snaps', published', Table.rows)
  BY <1>5, <1>9 DEF MadeOf, Published
<1> QED
  BY <1>1, <1>5, <1>6, <1>8, <1>10, ReaderSaved DEF Builder

-----------------------------------------------------------------------------
(* Sessions: saving and dropping. *)

(* The steps of gql_build_csr once it has its lease. *)
LEMMA SavesSaved ==
    ASSUME TypeOK, SavedInv, NEW s \in Sessions,
           SaveFlag(s) \/ SaveWrite(s) \/ SaveCheck(s) \/ Unsave(s)
    PROVE  SavedInv'
<1>1. /\ UNCHANGED <<tableVars, writerVars>> /\ snaps' = snaps /\ published' = published
      /\ call' = call /\ s \in Connections
  BY ConnectionsTyped
     DEF SaveFlag, SaveWrite, SaveCheck, Unsave, InvalidateCache, storageVars, tableVars
<1>2. PICK p \in {"save_write", "save_check", "leased"} :
         /\ Goto(s, p)
         /\ p = "save_write" => spc[s] = "save"
         /\ p = "save_check" => spc[s] = "save_write"
         /\ spc[s] \in {"save", "save_write", "save_check", "unsave"}
  BY DEF SaveFlag, SaveWrite, SaveCheck, Unsave, At
<1>3. spc'[s] = p /\ Others(s)
  BY <1>1, <1>2, Moved DEF Others
<1>4. BuildOpen /\ call[s].op \in Builds /\ drop[s] = "no"
      /\ (p \in {"save_write", "save_check"} => call[s].op = "build")
  BY <1>2 DEF SavedInv, Alone, InPlace, BuildOpen, Builds
<1>5. /\ \A c \in Connections \ {s} : drop'[c] = drop[c]
      /\ drop'[s] \in {"no", "check"} /\ (drop'[s] # "no" => p = "leased")
  <2>1. CASE drop' = drop
    BY <1>4, <2>1
  <2>2. CASE drop' = [drop EXCEPT ![s] = "check"] /\ Goto(s, "leased")
    BY <1>1, <1>3, <2>2, ConnectionsTyped, Moved
  <2> QED
    BY <2>1, <2>2 DEF SaveFlag, SaveWrite, SaveCheck, Unsave
<1>6. InPlace(call'[s], spc'[s], drop'[s])
  BY <1>1, <1>3, <1>4, <1>5 DEF InPlace
<1>7. MadeOf(call[s], spc[s], snaps, published, Table.rows)
  BY <1>4, MadeHere
<1>8. MadeOf(call'[s], spc'[s], snaps', published', Table.rows)
  <2>1. Published(call[s], p) => Published(call[s], spc[s])
    BY <1>2 DEF Published, AfterPublish
  <2> QED
    BY <1>1, <1>2, <1>3, <1>7, <2>1 DEF MadeOf
<1>9. \A t \in Sessions \ {s} : StillOfTable(t)
  BY <1>1, <1>4, MadeHere
(* No other connection is dropping what this one saves. *)
<1>10. \A c \in Connections \ {s} : drop[c] = "no"
  <2>1. \A t \in Sessions \ {s} : drop[t] = "no"
    BY <1>4 DEF SavedInv, Alone, Builder, InPlace
  <2>2. \A w \in Writers : drop[w] = "no"
    BY <1>4 DEF SavedInv, Alone
  <2> QED
    BY <2>1, <2>2, ConnectionsTyped DEF Connections
<1>11. \A t \in Sessions \ {s} : spc'[t] # "save_write"
  BY <1>3, <1>4 DEF SavedInv, Alone, Builder, InPlace, Others, Builds
<1>12. SavedDescribesTable' /\ NotMissed'
  <2>1. Table' = Table /\ \A c \in Connections : drop'[c] # "none"
    BY <1>1, <1>5, <1>10 DEF tableVars, Table
  <2>2. CASE SaveFlag(s)
    BY <1>11, <2>1, <2>2 DEF SaveFlag, SavedInv, NotMissed, SavedDescribesTable, SavedIsNotOverlooked
  <2>3. CASE SaveWrite(s)
    <3>1. spc[s] = "save_write" /\ p = "save_check" /\ savedExists' = savedExists
      BY <1>3, <2>3, Moved DEF SaveWrite, At
    <3>2. savedExists
      BY <3>1 DEF SavedInv, NotMissed
    <3>3. snaps[call[s].lease.snap].base \subseteq Table.rows
      BY <1>4, <1>7, <3>1 DEF MadeOf, Published, AfterPublish
    <3>4. SavedDescribesTable'
      BY <2>1, <2>3, <3>3 DEF SaveWrite, SavedDescribesTable
    <3> QED
      BY <1>3, <1>11, <2>1, <3>1, <3>2, <3>4 DEF NotMissed, SavedIsNotOverlooked
  <2>4. CASE SaveCheck(s) \/ Unsave(s)
    <3>1. UNCHANGED savedVars /\ spc'[s] = "leased"
      BY <2>4, Moved DEF SaveCheck, Unsave
    <3> QED
      BY <1>11, <2>1, <3>1
         DEF SavedInv, NotMissed, SavedDescribesTable, SavedIsNotOverlooked, savedVars
  <2> QED
    BY <2>2, <2>3, <2>4
<1> QED
  BY <1>1, <1>3, <1>4, <1>5, <1>6, <1>8, <1>9, <1>12, SessionSaved

(* gql_build_csr drops what is saved. *)
LEMMA DroppingSaved ==
    ASSUME TypeOK, SavedInv, NEW s \in Sessions, Dropping(s)
    PROVE  SavedInv'
<1>1. /\ s \in Connections /\ DropSavedCsrs(s) /\ call' = call /\ spc' = spc
      /\ snaps' = snaps /\ published' = published /\ Others(s)
  BY ConnectionsTyped DEF Dropping, storageVars, sessionVars, Others
<1>2. /\ UNCHANGED <<tableVars, writerVars>> /\ drop[s] # "no" /\ saved' \subseteq saved
      /\ \A d \in Connections \ {s} : drop'[d] = drop[d]
      /\ savedExists' = savedExists \/ saved' = {}
      /\ SavedIsNotOverlooked' /\ SavedDescribesTable'
      /\ drop'[s] \in {"none", "no"} => saved' = {}
  BY <1>1, DropKeeps
<1>3. call[s].op \in Builds /\ spc[s] = "leased" /\ BuildOpen
  BY <1>2 DEF SavedInv, Alone, InPlace, BuildOpen
<1>4. InPlace(call'[s], spc'[s], drop'[s])
  BY <1>1, <1>3 DEF InPlace
<1>5. \A t \in Sessions : spc'[t] # "save_write"
  BY <1>1, <1>3 DEF SavedInv, Alone, Builder, InPlace, Builds
<1>6. NotMissed'
  BY <1>2, <1>5 DEF SavedInv, NotMissed
<1>7. /\ MadeOf(call'[s], spc'[s], snaps', published', Table.rows)
      /\ \A t \in Sessions \ {s} : StillOfTable(t)
  BY <1>1, <1>3, MadeHere
<1> QED
  BY <1>1, <1>2, <1>4, <1>6, <1>7, SessionSaved

LEMMA FinishSaved ==
    ASSUME TypeOK, SavedInv, NEW s \in Sessions, Finish(s)
    PROVE  SavedInv'
<1>1. /\ UNCHANGED observerVars /\ snaps' = snaps /\ published' = published /\ drop[s] = "no"
      /\ call'[s] = NoCall /\ spc'[s] = "idle" /\ Others(s)
  BY Called, Moved DEF Finish, storageVars, Others
<1>2. NoCall.op = "none"
  BY DEF NoCall
<1>3. UNCHANGED <<tableVars, writerVars, savedVars, drop>>
  BY <1>1 DEF observerVars
<1>4. InPlace(call'[s], spc'[s], drop'[s])
  BY <1>1, <1>3 DEF InPlace
<1>5. NotMissed' /\ SavedDescribesTable'
  BY <1>1, <1>3 DEF SavedInv, NotMissed, SavedIsNotOverlooked, SavedDescribesTable, savedVars,
                    tableVars, Table, Others
<1>6. BuildOpen => /\ MadeOf(call'[s], spc'[s], snaps', published', Table.rows)
                   /\ \A t \in Sessions \ {s} : StillOfTable(t)
  BY <1>1, <1>2, MadeHere DEF MadeOf, Published, Builds
<1> QED
  BY <1>1, <1>2, <1>3, <1>4, <1>5, <1>6, SessionSaved DEF savedVars

(* A statement begins, gql_build_csr when nothing else runs. *)
LEMMA BeginSaved ==
    ASSUME SerialSaves, TypeOK, VersionInv, SavedInv, NEW s \in Sessions, NEW op \in Operations,
           Begin(s, op)
    PROVE  SavedInv'
<1> DEFINE c == [NoCall EXCEPT !.op = op, !.since = acked]
<1>1. \A t \in Sessions : spc[t] = "idle" => call[t] = NoCall
  BY DEF VersionInv, Reads
<1>2. /\ NoCall.op = "none" /\ NoCall.rebuilt = FALSE
      /\ c.op = op /\ c.rebuilt = FALSE
  BY DEF NoCall
<1>3. call' = [call EXCEPT ![s] = c]
  BY <1>1, CallTyped DEF Begin, At
<1> HIDE DEF c
<1>4. PICK p \in {"generations", "version"} : Goto(s, p) /\ (op \in Builds => p = "generations")
  BY DEF Begin
<1>5. call'[s] = c /\ spc'[s] = p /\ Others(s)
  BY <1>3, <1>4, Called, Moved DEF Others
<1>6. /\ UNCHANGED observerVars /\ snaps' = snaps /\ published' = published /\ spc[s] = "idle"
  BY DEF Begin, At, storageVars
<1>7. UNCHANGED <<tableVars, writerVars, savedVars, drop>> /\ Table' = Table
  BY <1>6 DEF observerVars, tableVars, Table
<1>8. op \in Builds => /\ \A w \in Writers : wpc[w] = "idle"
                       /\ \A t \in Sessions : call[t] = NoCall
  BY <1>1 DEF Begin, NothingRuns, At
<1>9. drop[s] = "no"
  BY <1>6 DEF SavedInv, Alone, InPlace
<1>10. \A t \in Sessions : call'[t].op \in Builds =>
          IF t = s THEN op \in Builds ELSE op \notin Builds /\ call[t].op \in Builds
  BY <1>2, <1>5, <1>8 DEF Others, Builds
<1>11. Alone'
  <2>1. BuildOpen' => \A w \in Writers : wpc'[w] = "idle"
    BY <1>7, <1>8, <1>10 DEF BuildOpen, SavedInv, Alone, writerVars
  <2>2. \A t, u \in Sessions : Builder(t)' /\ Builder(u)' => t = u
    BY <1>10 DEF Builder, SavedInv, Alone
  <2>3. \A t \in Sessions : InPlace(call'[t], spc'[t], drop'[t])
    BY <1>5, <1>7, <1>9 DEF InPlace, SavedInv, Alone, Others
  <2> QED
    BY <1>7, <2>1, <2>2, <2>3 DEF SavedInv, Alone, writerVars
<1>12. Dropped' /\ SavedDescribesTable'
  BY <1>7 DEF SavedInv, Dropped, SavedDescribesTable, savedVars, writerVars
<1>13. NotMissed'
  BY <1>5, <1>7 DEF SavedInv, NotMissed, SavedIsNotOverlooked, savedVars, Others
<1>14. BuildsOfTable'
  <2> SUFFICES ASSUME BuildOpen', NEW t \in Sessions
               PROVE  MadeOf(call'[t], spc'[t], snaps, published, Table.rows)
    BY <1>6, <1>7 DEF BuildsOfTable
  <2>1. CASE t = s
    BY <1>2, <1>4, <1>5, <2>1 DEF MadeOf, Published, AfterPublish
  <2>2. CASE t # s /\ op \in Builds
    <3>1. call'[t] = NoCall /\ spc'[t] = spc[t] /\ spc[t] = "idle"
      BY <1>5, <1>8, <2>2 DEF Others, Begin, NothingRuns, At
    <3> QED
      BY <1>2, <3>1 DEF MadeOf, Published, Builds
  <2>3. CASE t # s /\ op \notin Builds
    <3>1. BuildOpen
      BY <1>10, <2>3 DEF BuildOpen
    <3> QED
      BY <1>5, <2>3, <3>1, MadeHere DEF Others
  <2> QED
    BY <2>1, <2>2, <2>3
<1> QED
  BY <1>11, <1>12, <1>13, <1>14 DEF SavedInv

LEMMA SessionStepSaved ==
    ASSUME SerialSaves, TypeOK, VersionInv, SavedInv, NEW s \in Sessions, SessionStep(s)
    PROVE  SavedInv'
<1>1. CASE Scan(s)
  BY <1>1, CatchUpSaved, PlainSaved
<1>2. CASE CheckSynced(s) \/ StoreDelta(s)
  <2>1. UNCHANGED observerVars /\ published' \subseteq published /\ (StoreDelta(s) => Leases(s))
    BY <1>2 DEF CheckSynced, StoreDelta, Leases
  <2> QED
    BY <1>2, <2>1, CatchUpSaved, LeaseSaved
<1> QED
  BY <1>1, <1>2, BeginSaved, FinishSaved, DroppingSaved, SavesSaved, PublishSaved, BuildSaved,
     LoadedSaved, LoadSaved, FindSaved, CatchUpSaved, PlainSaved
     DEF SessionStep, Resolving

(* The process ends: what is saved is not looked for any more, until it is. *)
LEMMA CrashSaved ==
    ASSUME TypeOK, SavedInv, Crash
    PROVE  SavedInv'
<1>1. /\ log' = log /\ saved' = saved /\ savedKnown' = FALSE
      /\ wpc' = [w \in Writers |-> "idle"] /\ stmts' = [w \in Writers |-> {}]
      /\ drop' = [c \in Connections |-> "no"]
      /\ spc' = [s \in Sessions |-> "idle"] /\ call' = [s \in Sessions |-> NoCall]
  BY DEF Crash
<1>2. NoCall.op \notin Builds
  BY DEF NoCall, Builds
<1>3. \A s \in Sessions : call'[s].op \notin Builds /\ spc'[s] = "idle" /\ drop'[s] = "no"
  BY <1>1, <1>2 DEF Connections
<1>4. \A w \in Writers : wpc'[w] = "idle" /\ stmts'[w] = {} /\ drop'[w] = "no"
  BY <1>1 DEF Connections
<1>5. Alone'
  BY <1>3, <1>4 DEF Alone, BuildOpen, Builder, InPlace
<1>6. Dropped'
  BY <1>4 DEF Dropped
<1>7. NotMissed'
  BY <1>1, <1>3 DEF NotMissed, SavedIsNotOverlooked
<1>8. SavedDescribesTable'
  BY <1>1 DEF SavedInv, SavedDescribesTable, Table
<1>9. BuildsOfTable'
  BY <1>3 DEF BuildsOfTable, BuildOpen
<1> QED
  BY <1>5, <1>6, <1>7, <1>8, <1>9 DEF SavedInv

LEMMA SavedInit == Init => SavedInv
<1> SUFFICES ASSUME Init PROVE SavedInv
  OBVIOUS
<1>1. /\ saved = {} /\ wpc = [w \in Writers |-> "idle"] /\ stmts = [w \in Writers |-> {}]
      /\ drop = [c \in Connections |-> "no"]
      /\ spc = [s \in Sessions |-> "idle"] /\ call = [s \in Sessions |-> NoCall]
  BY DEF Init, InitObserver, InitStorage
<1>2. NoCall.op \notin Builds
  BY DEF NoCall, Builds
<1>3. \A s \in Sessions : call[s].op \notin Builds /\ spc[s] = "idle" /\ drop[s] = "no"
  BY <1>1, <1>2 DEF Connections
<1>4. \A w \in Writers : wpc[w] = "idle" /\ stmts[w] = {} /\ drop[w] = "no"
  BY <1>1 DEF Connections
<1>5. Alone
  BY <1>3, <1>4 DEF Alone, BuildOpen, Builder, InPlace
<1>6. Dropped /\ NotMissed /\ SavedDescribesTable
  BY <1>1, <1>3, <1>4 DEF Dropped, NotMissed, SavedIsNotOverlooked, SavedDescribesTable
<1>7. BuildsOfTable
  BY <1>3 DEF BuildsOfTable, BuildOpen
<1> QED
  BY <1>5, <1>6, <1>7 DEF SavedInv

LEMMA SavedStep ==
    ASSUME SerialSaves, TypeOK, VersionInv, SavedInv, [Next]_vars
    PROVE  SavedInv'
<1>1. ASSUME NEW w \in Writers, Writing(w)
      PROVE  SavedInv'
  BY <1>1, WriterStepSaved
<1>2. CASE UNCHANGED vars
  <2>1. UNCHANGED <<log, saved, savedKnown, savedExists, wpc, stmts, drop, spc, call, snaps,
                    published>>
    BY <1>2 DEF vars, observerVars, tableVars, savedVars, writerVars, storageVars, sessionVars
  <2> QED
    BY <2>1 DEF SavedInv, Alone, Dropped, NotMissed, SavedIsNotOverlooked, SavedDescribesTable,
                BuildsOfTable, BuildOpen, Builder, Table
<1> QED
  BY <1>1, <1>2, SessionStepSaved, CrashSaved DEF Next, Ended

-----------------------------------------------------------------------------
(* When gql_build_csr is only called while nothing else runs, what it saves is in the
   tables as it was saved, whatever queries begin meanwhile, wherever the process ends, and
   whichever writes follow: SaveCsrSnapshot and DropSavedCsrs in src/gql_csr.cpp. *)
THEOREM SavedCopiesDescribeTable ==
    ASSUME SerialSaves
    PROVE  Spec => []SavedDescribesTable
<1>1. SavedInv => SavedDescribesTable
  BY DEF SavedInv
<1>2. TypeOK /\ VersionInv /\ SavedInv /\ [Next]_vars => SavedInv'
  BY SavedStep
<1> QED
  BY <1>1, <1>2, SavedInit, VersionAlways, PTL DEF Spec

(* And no write takes the shortcut that skips looking for it, while there is one:
   saved_csr_known in src/gql_csr.cpp. *)
THEOREM SavedCopiesAreNotOverlooked ==
    ASSUME SerialSaves
    PROVE  Spec => []SavedIsNotOverlooked
<1>1. SavedInv => SavedIsNotOverlooked
  BY DEF SavedInv, NotMissed
<1>2. TypeOK /\ VersionInv /\ SavedInv /\ [Next]_vars => SavedInv'
  BY SavedStep
<1> QED
  BY <1>1, <1>2, SavedInit, VersionAlways, PTL DEF Spec
=============================================================================
