-------------------------- MODULE CsrTopologyProofs --------------------------
(***************************************************************************)
(* What a lease says of its graph, for every graph: the lookups of         *)
(* CsrTopology by binary search, its counting sorts and its scan of a      *)
(* delta.                                                                  *)
(*                                                                         *)
(* The loops of CsrTopology are folds and recursive functions.  Their      *)
(* states are numbered, and a claim about all of them is the set of the    *)
(* numbers it holds for.                                                   *)
(***************************************************************************)
EXTENDS GraphReader, FiniteSetTheorems, TLAPS

(* One more element at the end of a sequence. *)
LEMMA AppendedTo ==
  ASSUME NEW X, NEW s \in Seq(X), NEW x \in X
  PROVE  /\ Append(s, x) \in Seq(X)
         /\ Len(Append(s, x)) = Len(s) + 1
         /\ Append(s, x)[Len(s) + 1] = x
         /\ \A i \in 1..Len(s) : Append(s, x)[i] = s[i]
OBVIOUS

(* A set of numbers below some number has a greatest. *)
LEMMA GreatestNumber ==
  ASSUME NEW S \in SUBSET Nat, S # {}, NEW n \in Nat, \A i \in S : i < n
  PROVE  \E i \in S : \A j \in S : j <= i
<1> DEFINE AboveIt(i) == {j \in S : i < j}
           Uppers == {AboveIt(i) : i \in S}
<1>1. IsFiniteSet(S)
  BY FS_BoundedSetOfNaturals
<1>2. IsWellFoundedOn(StrictSubsetOrdering(S), SUBSET S)
  BY <1>1, FS_FiniteSubsetsOfFinite, FS_StrictSubsetOrderingWellFounded
<1>3. Uppers \subseteq SUBSET S /\ Uppers # {}
  OBVIOUS
<1>4. PICK U \in Uppers : \A V \in Uppers : <<V, U>> \notin StrictSubsetOrdering(S)
  <2> HIDE DEF Uppers
  <2> QED
    BY <1>2, <1>3, WFMin
<1>5. PICK i \in S : U = AboveIt(i)
  BY <1>4
<1>6. SUFFICES ASSUME NEW j \in S, ~(j <= i)
               PROVE  FALSE
  BY <1>5
<1>7. i \in Nat /\ j \in Nat /\ i < j
  BY <1>6
<1>8. AboveIt(j) \subseteq AboveIt(i) /\ j \in AboveIt(i) /\ j \notin AboveIt(j)
  <2>1. \A k \in AboveIt(j) : k \in S /\ k \in Nat /\ i < k
    BY <1>7
  <2>2. j \in AboveIt(i)
    BY <1>7
  <2>3. j \notin AboveIt(j)
    BY <1>7
  <2> QED
    BY <2>1, <2>2, <2>3
<1>9. <<AboveIt(j), U>> \in StrictSubsetOrdering(S)
  BY <1>5, <1>8 DEF StrictSubsetOrdering
<1> QED
  BY <1>4, <1>9

(* Induction up to a number. *)
LEMMA NumberSteps ==
  ASSUME NEW n \in Nat, NEW S, 0 \in S, \A i \in 0..(n - 1) : i \in S => i + 1 \in S
  PROVE  0..n \subseteq S
<1> DEFINE Reached == {m \in 0..n : 0..m \subseteq S}
<1>1. Reached \in SUBSET Nat /\ n + 1 \in Nat /\ \A m \in Reached : m < n + 1
  OBVIOUS
<1>2. 0 \in Reached
  OBVIOUS
<1>3. PICK m \in Reached : \A k \in Reached : k <= m
  <2> HIDE DEF Reached
  <2> QED
    BY <1>1, <1>2, GreatestNumber
<1>4. m \in 0..n /\ 0..m \subseteq S
  BY <1>3
<1>5. m < n => m + 1 \in Reached
  <2> SUFFICES ASSUME m < n PROVE m + 1 \in Reached
    OBVIOUS
  <2>1. m \in 0..(n - 1) /\ m \in S
    BY <1>4
  <2>2. m + 1 \in S /\ m + 1 \in 0..n
    BY <2>1
  <2>3. \A k \in 0..(m + 1) : k \in 0..m \/ k = m + 1
    BY <1>4
  <2> QED
    BY <1>4, <2>2, <2>3
<1>6. m = n
  <2> HIDE DEF Reached
  <2> QED
    BY <1>3, <1>4, <1>5
<1> QED
  BY <1>4, <1>6

-----------------------------------------------------------------------------
(* A loop over 1..n has a state after each of its rounds. *)
IsRun(run, n, T, start, step) ==
  /\ run \in [0..n -> T]
  /\ run[0] = start
  /\ \A k \in 1..n : run[k] = step[k][run[k - 1]]

(* A loop of n steps on values of a type has a run: its states one after another. *)
LEMMA LoopRuns ==
  ASSUME NEW n \in Nat, NEW T, NEW start \in T, NEW step \in [1..n -> [T -> T]]
  PROVE  \E run : IsRun(run, n, T, start, step)
<1> DEFINE S == {m \in 0..n : \E run : IsRun(run, m, T, start, step)}
<1>1. 0 \in S
  <2>1. IsRun([k \in 0..0 |-> start], 0, T, start, step)
    BY DEF IsRun
  <2> QED
    BY <2>1
<1>2. ASSUME NEW m \in 0..(n - 1), m \in S PROVE m + 1 \in S
  <2>1. PICK run : IsRun(run, m, T, start, step)
    BY <1>2
  <2> DEFINE more == [k \in 0..(m + 1) |-> IF k = m + 1 THEN step[m + 1][run[m]] ELSE run[k]]
  <2>2. m + 1 \in 1..n /\ m \in 0..m /\ m + 1 \in 0..n
    OBVIOUS
  <2>3. step[m + 1] \in [T -> T] /\ run[m] \in T
    BY <2>1, <2>2 DEF IsRun
  <2>4. more \in [0..(m + 1) -> T]
    BY <2>1, <2>3 DEF IsRun
  <2>5. \A k \in 1..m : more[k] = run[k] /\ more[k - 1] = run[k - 1]
    OBVIOUS
  <2>6. more[m + 1] = step[m + 1][more[m]] /\ more[0] = run[0]
    OBVIOUS
  <2>7. \A k \in 1..(m + 1) : more[k] = step[k][more[k - 1]]
    <3> HIDE DEF more
    <3> SUFFICES ASSUME NEW k \in 1..(m + 1) PROVE more[k] = step[k][more[k - 1]]
      OBVIOUS
    <3>1. CASE k = m + 1
      BY <3>1, <2>6
    <3>2. CASE k \in 1..m
      BY <3>2, <2>1, <2>5 DEF IsRun
    <3> QED
      BY <3>1, <3>2
  <2>8. IsRun(more, m + 1, T, start, step)
    <3> HIDE DEF more
    <3> QED
      BY <2>1, <2>4, <2>6, <2>7 DEF IsRun
  <2> QED
    BY <2>2, <2>8
<1>3. 0..n \subseteq S
  <2> HIDE DEF S
  <2> QED
    BY <1>1, <1>2, NumberSteps
<1> QED
  BY <1>3

(* The greatest of a set of numbers up to n, as Max chooses it. *)
LEMMA MaxOf ==
  ASSUME NEW n \in Nat, NEW S \in SUBSET (1..n), S # {}
  PROVE  Max(S) \in S /\ \A i \in S : i <= Max(S)
<1>1. S \in SUBSET Nat /\ n + 1 \in Nat /\ \A i \in S : i < n + 1
  OBVIOUS
<1>2. \E x \in S : \A y \in S : x >= y
  BY <1>1, GreatestNumber
<1> QED
  BY <1>2 DEF Max

(* The fold of the library goes through 1..k from its greatest element down. *)
LEMMA MaxOfRange ==
  ASSUME NEW n \in Nat, NEW k \in 1..n
  PROVE  Max(1..k) = k /\ (1..k) \ {k} = 1..(k - 1)
<1>1. 1..k \in SUBSET (1..n) /\ 1..k # {} /\ k \in 1..k
  OBVIOUS
<1>2. Max(1..k) \in 1..k /\ \A i \in 1..k : i <= Max(1..k)
  BY <1>1, MaxOf
<1>3. Max(1..k) = k
  BY <1>1, <1>2
<1>4. (1..k) \ {k} = 1..(k - 1)
  OBVIOUS
<1> QED
  BY <1>3, <1>4

(* A fold over 1..n is defined on each of its subsets. *)
IsFold(it, n, T, base, step) ==
  /\ it \in [SUBSET (1..n) -> T]
  /\ \A S \in SUBSET (1..n) :
        it[S] = IF S = {} THEN base ELSE step[Max(S)][it[S \ {Max(S)}]]

(* The fold over 1..n has such a table of intermediate results, one for each k. *)
LEMMA FoldRuns ==
  ASSUME NEW n \in Nat, NEW T, NEW base \in T, NEW step \in [1..n -> [T -> T]]
  PROVE  \E it : IsFold(it, n, T, base, step)
<1> DEFINE Done == {m \in 0..n : \E it : IsFold(it, m, T, base, step)}
<1>1. 0 \in Done
  <2> DEFINE first == [S \in SUBSET (1..0) |-> base]
  <2>1. \A S \in SUBSET (1..0) : S = {}
    OBVIOUS
  <2>2. IsFold(first, 0, T, base, step)
    BY <2>1 DEF IsFold
  <2> QED
    BY <2>2
<1>2. ASSUME NEW m \in 0..(n - 1), m \in Done PROVE m + 1 \in Done
  <2>1. PICK it : IsFold(it, m, T, base, step)
    BY <1>2
  <2> DEFINE more == [S \in SUBSET (1..(m + 1)) |->
                        IF m + 1 \in S THEN step[m + 1][it[S \ {m + 1}]] ELSE it[S]]
  <2>2. m + 1 \in 1..n /\ m + 1 \in 0..n /\ m + 1 \in Nat
    OBVIOUS
  <2>3. \A S \in SUBSET (1..(m + 1)) : /\ S \ {m + 1} \in SUBSET (1..m)
                                       /\ m + 1 \notin S => S \in SUBSET (1..m)
    OBVIOUS
  <2>4. step[m + 1] \in [T -> T]
    BY <2>2
  <2>5. more \in [SUBSET (1..(m + 1)) -> T]
    <3>1. it \in [SUBSET (1..m) -> T]
      BY <2>1 DEF IsFold
    <3>2. \A S \in SUBSET (1..(m + 1)) :
             (IF m + 1 \in S THEN step[m + 1][it[S \ {m + 1}]] ELSE it[S]) \in T
      BY <2>3, <2>4, <3>1
    <3> QED
      BY <3>2
  <2>6. ASSUME NEW S \in SUBSET (1..(m + 1))
        PROVE  more[S] = IF S = {} THEN base ELSE step[Max(S)][more[S \ {Max(S)}]]
    <3>1. CASE m + 1 \in S
      <4>1. S # {} /\ S \in SUBSET (1..(m + 1))
        BY <3>1
      <4>2. Max(S) \in S /\ \A i \in S : i <= Max(S)
        BY <4>1, <2>2, MaxOf
      <4>5. Max(S) = m + 1
        <5>1. Max(S) \in 1..(m + 1) /\ m + 1 <= Max(S)
          BY <4>1, <4>2, <3>1
        <5> HIDE DEF more
        <5> QED
          BY <5>1
      <4>3. S \ {m + 1} \in SUBSET (1..(m + 1)) /\ m + 1 \notin S \ {m + 1}
        OBVIOUS
      <4>4. more[S] = step[m + 1][it[S \ {m + 1}]] /\ more[S \ {m + 1}] = it[S \ {m + 1}]
        BY <3>1, <4>3
      <4> HIDE DEF more
      <4> QED
        BY <3>1, <4>5, <4>4
    <3>2. CASE m + 1 \notin S
      <4>1. S \in SUBSET (1..m) /\ more[S] = it[S]
        BY <3>2, <2>3
      <4>2. CASE S = {}
        <5> HIDE DEF more
        <5> QED
          BY <4>1, <4>2, <2>1 DEF IsFold
      <4>3. CASE S # {}
        <5>1. S \ {Max(S)} \in SUBSET (1..(m + 1)) /\ m + 1 \notin S \ {Max(S)}
          BY <3>2
        <5>2. more[S \ {Max(S)}] = it[S \ {Max(S)}]
          BY <5>1
        <5> HIDE DEF more
        <5> QED
          BY <4>1, <4>3, <5>2, <2>1 DEF IsFold
      <4> QED
        BY <4>2, <4>3
    <3> QED
      BY <3>1, <3>2
  <2>7. IsFold(more, m + 1, T, base, step)
    <3> HIDE DEF more
    <3> QED
      BY <2>5, <2>6 DEF IsFold
  <2> QED
    BY <2>2, <2>7
<1>3. 0..n \subseteq Done
  <2> HIDE DEF Done
  <2> QED
    BY <1>1, <1>2, NumberSteps
<1> QED
  BY <1>3

IsChain(c, n, T, base, step) ==
  /\ c[{}] = base
  /\ \A S \in SUBSET (1..n) :
        S # {} /\ c[S \ {Max(S)}] \in T => c[S] = step[Max(S)][c[S \ {Max(S)}]]

(* A chain that answers to the steps of a loop is its run. *)
LEMMA FoldFollows ==
  ASSUME NEW n \in Nat, NEW T, NEW base \in T, NEW step \in [1..n -> [T -> T]], NEW c,
         IsChain(c, n, T, base, step)
  PROVE  \E run : IsRun(run, n, T, base, step) /\ run[n] = c[1..n]
<1>0. /\ c[{}] = base
      /\ \A S \in SUBSET (1..n) :
            S # {} /\ c[S \ {Max(S)}] \in T => c[S] = step[Max(S)][c[S \ {Max(S)}]]
  BY DEF IsChain
<1> DEFINE In == {m \in 0..n : c[1..m] \in T}
           run == [k \in 0..n |-> c[1..k]]
<1>1. \A k \in 1..n : c[1..(k - 1)] \in T => c[1..k] = step[k][c[1..(k - 1)]]
  <2> SUFFICES ASSUME NEW k \in 1..n, c[1..(k - 1)] \in T
               PROVE  c[1..k] = step[k][c[1..(k - 1)]]
    OBVIOUS
  <2>1. Max(1..k) = k /\ (1..k) \ {k} = 1..(k - 1)
    BY MaxOfRange
  <2>2. k \in 1..k /\ \A i \in 1..k : i \in 1..n
    OBVIOUS
  <2>3. 1..k \in SUBSET (1..n) /\ 1..k # {}
    BY <2>2
  <2> QED
    BY <1>0, <2>1, <2>3
<1>2. 0 \in In
  <2>1. 1..0 = {}
    OBVIOUS
  <2> QED
    BY <1>0, <2>1
<1>3. ASSUME NEW m \in 0..(n - 1), m \in In PROVE m + 1 \in In
  <2>1. m + 1 \in 1..n /\ m + 1 \in 0..n /\ (m + 1) - 1 = m /\ c[1..m] \in T
    BY <1>3
  <2>2. c[1..(m + 1)] = step[m + 1][c[1..m]]
    BY <1>1, <2>1
  <2> QED
    BY <2>1, <2>2
<1>4. 0..n \subseteq In
  <2> HIDE DEF In
  <2> QED
    BY <1>2, <1>3, NumberSteps
<1>5. run \in [0..n -> T] /\ run[n] = c[1..n]
  BY <1>4
<1>6. run[0] = base
  <2>1. 1..0 = {}
    OBVIOUS
  <2> QED
    BY <1>0, <2>1
<1>7. \A k \in 1..n : run[k] = step[k][run[k - 1]]
  <2> SUFFICES ASSUME NEW k \in 1..n PROVE run[k] = step[k][run[k - 1]]
    OBVIOUS
  <2>1. k - 1 \in 0..n /\ k \in 0..n
    OBVIOUS
  <2>2. c[1..(k - 1)] \in T
    BY <1>4, <2>1
  <2> QED
    BY <1>1, <2>1, <2>2
<1>8. IsRun(run, n, T, base, step)
  <2> HIDE DEF run
  <2> QED
    BY <1>5, <1>6, <1>7 DEF IsRun
<1> QED
  BY <1>5, <1>8

IsFolding(c, n, T, base, step) ==
  n \in Nat /\ base \in T /\ step \in [1..n -> [T -> T]] /\ IsChain(c, n, T, base, step)

HasRun(c, n, T, base, step) == \E run : IsRun(run, n, T, base, step) /\ run[n] = c[1..n]

(* The same with the chain and the type in one statement, as the proofs below use it. *)
LEMMA FoldingRuns ==
  ASSUME NEW n, NEW T, NEW base, NEW step, NEW c, IsFolding(c, n, T, base, step)
  PROVE  HasRun(c, n, T, base, step)
<1>1. n \in Nat /\ base \in T /\ step \in [1..n -> [T -> T]] /\ IsChain(c, n, T, base, step)
  BY DEF IsFolding
<1> QED
  BY <1>1, FoldFollows DEF HasRun


-----------------------------------------------------------------------------
(* The ids of a snapshot: smaller ones first. *)
AscendingIds(ids, size) ==
  /\ ids \in [0..(size - 1) -> Nat]
  /\ \A i, j \in 0..(size - 1) : i < j => ids[i] < ids[j]

(* Interpolation stays in the interval: a proper fraction of m, rounded down, is at most m. *)
LEMMA ShareOf ==
  ASSUME NEW a \in Nat, NEW b \in Nat, NEW m \in Nat, a < b
  PROVE  (a * m) \div b \in 0..m
<1> DEFINE q == (a * m) \div b
<1>1. a * m \in Nat /\ a * m <= b * m /\ b \in Nat \ {0}
  OBVIOUS
<1>2. q \in Nat /\ b * q <= a * m
  BY <1>1
<1>3. b * q <= b * m
  <2>1. b * q \in Nat /\ b * m \in Nat
    BY <1>2
  <2> HIDE DEF q
  <2> QED
    BY <2>1, <1>1, <1>2
<1>4. q <= m
  <2> HIDE DEF q
  <2> QED
    BY <1>1, <1>2, <1>3
<1> QED
  BY <1>2, <1>4

(* Both probes of the search, the middle and the interpolated one, are inside the range. *)
LEMMA MiddleBetween ==
  ASSUME NEW size \in Nat, NEW ids, AscendingIds(ids, size), NEW id \in Nat,
         NEW low \in 0..size, NEW high \in 0..size, low < high, NEW interpolate \in BOOLEAN
  PROVE  Middle(ids, id, low, high, interpolate) \in low..(high - 1)
<1>1. low \in 0..(size - 1) /\ high - 1 \in 0..(size - 1)
  OBVIOUS
<1>2. ids[low] \in Nat /\ ids[high - 1] \in Nat
  BY <1>1 DEF AscendingIds
<1>3. low + (high - low) \div 2 \in low..(high - 1)
  OBVIOUS
<1>4. ASSUME ~(id <= ids[low]), ~(id >= ids[high - 1])
      PROVE  low + ((id - ids[low]) * (high - low - 1)) \div (ids[high - 1] - ids[low]) \in low..(high - 1)
  <2> DEFINE a == id - ids[low]
             b == ids[high - 1] - ids[low]
             m == high - low - 1
  <2>1. a \in Nat /\ b \in Nat /\ m \in Nat /\ a < b
    BY <1>2, <1>4
  <2>2. (a * m) \div b \in 0..m
    <3> HIDE DEF a, b, m
    <3> QED
      BY <2>1, ShareOf
  <2>3. \A q \in 0..m : low + q \in low..(high - 1)
    OBVIOUS
  <2> QED
    BY <2>2, <2>3
<1> QED
  BY <1>3, <1>4 DEF Middle

(* The ids before the range are smaller, those after it are not. *)
Around(ids, id, size, range) ==
  /\ range \in [low : 0..size, high : 0..size, interpolate : BOOLEAN]
  /\ range.low <= range.high
  /\ \A i \in 0..(size - 1) : i < range.low => ids[i] < id
  /\ \A i \in 0..(size - 1) : i >= range.high => ids[i] >= id

(* One round of the search of gql_csr.cpp 408-427 keeps the place sought inside the range,
   makes the range smaller as long as it is not empty, and leaves an empty one alone. *)
LEMMA NarrowedAround ==
  ASSUME NEW size \in Nat, NEW ids, AscendingIds(ids, size), NEW id \in Nat,
         NEW range, Around(ids, id, size, range)
  PROVE  LET next == Narrowed(ids, id, range)
         IN  /\ Around(ids, id, size, next)
             /\ range.low < range.high => next.high - next.low < range.high - range.low
             /\ range.low >= range.high => next = range
<1> DEFINE middle == Middle(ids, id, range.low, range.high, range.interpolate)
           above == [low |-> middle + 1, high |-> range.high, interpolate |-> ~range.interpolate]
           below == [low |-> range.low, high |-> middle, interpolate |-> ~range.interpolate]
<1>1. range.low \in 0..size /\ range.high \in 0..size /\ range.interpolate \in BOOLEAN
  BY DEF Around
<1>2. CASE range.low >= range.high
  <2>1. Narrowed(ids, id, range) = range
    BY <1>2 DEF Narrowed
  <2> QED
    BY <1>1, <1>2, <2>1
<1>3. CASE range.low < range.high
  <2>1. middle \in range.low..(range.high - 1)
    BY <1>1, <1>3, MiddleBetween
  <2>2. ~(range.low >= range.high) /\ middle \in 0..(size - 1)
    BY <1>1, <1>3, <2>1
  <2>3. ids[middle] \in Nat /\ \A i \in 0..(size - 1) : ids[i] \in Nat
    BY <2>2 DEF AscendingIds
  <2>4. CASE ids[middle] < id
    <3>1. Narrowed(ids, id, range) = above
      BY <2>2, <2>4 DEF Narrowed, Above
    <3>2. \A i \in 0..(size - 1) : i < middle + 1 => ids[i] < id
      <4> HIDE DEF middle
      <4> SUFFICES ASSUME NEW i \in 0..(size - 1), i < middle + 1 PROVE ids[i] < id
        OBVIOUS
      <4>1. i < middle \/ i = middle
        BY <2>2
      <4>2. i < middle => ids[i] < ids[middle]
        BY <2>2 DEF AscendingIds
      <4> QED
        BY <4>1, <4>2, <2>3, <2>4
    <3>3. above \in [low : 0..size, high : 0..size, interpolate : BOOLEAN] /\ above.low <= above.high
      <4> HIDE DEF middle
      <4> QED
        BY <1>1, <2>1, <2>2
    <3>4. Around(ids, id, size, above)
      <4> HIDE DEF middle
      <4> QED
        BY <3>2, <3>3 DEF Around
    <3> QED
      <4> HIDE DEF middle
      <4> QED
        BY <3>1, <3>4, <1>1, <2>1, <1>3
  <2>5. CASE ~(ids[middle] < id)
    <3>1. Narrowed(ids, id, range) = below
      BY <2>2, <2>5 DEF Narrowed
    <3>2. \A i \in 0..(size - 1) : i >= middle => ids[i] >= id
      <4> HIDE DEF middle
      <4> SUFFICES ASSUME NEW i \in 0..(size - 1), i >= middle PROVE ids[i] >= id
        OBVIOUS
      <4>1. middle < i \/ i = middle
        BY <2>2
      <4>2. middle < i => ids[middle] < ids[i]
        BY <2>2 DEF AscendingIds
      <4> QED
        BY <4>1, <4>2, <2>3, <2>5
    <3>3. below \in [low : 0..size, high : 0..size, interpolate : BOOLEAN] /\ below.low <= below.high
      <4> HIDE DEF middle
      <4> QED
        BY <1>1, <2>1, <2>2
    <3>4. Around(ids, id, size, below)
      <4> HIDE DEF middle
      <4> QED
        BY <3>2, <3>3 DEF Around
    <3> QED
      <4> HIDE DEF middle
      <4> QED
        BY <3>1, <3>4, <1>1, <2>1, <1>3
  <2> QED
    BY <2>4, <2>5
<1> QED
  BY <1>1, <1>2, <1>3

(* The rounds of the search have left nothing of the range. *)
LEMMA LowerBoundExact ==
  ASSUME NEW size \in Nat, NEW ids, AscendingIds(ids, size), NEW id \in Nat
  PROVE  LET low == LowerBound(ids, id, size)
         IN  /\ low \in 0..size
             /\ \A i \in 0..(size - 1) : i < low => ids[i] < id
             /\ \A i \in 0..(size - 1) : i >= low => ids[i] >= id
<1> DEFINE T == {range \in [low : 0..size, high : 0..size, interpolate : BOOLEAN] :
                   Around(ids, id, size, range)}
           start == [low |-> 0, high |-> size, interpolate |-> TRUE]
           step == [k \in 1..size |-> [range \in T |-> Narrowed(ids, id, range)]]
           F(after) == after = [k \in 0..size |-> IF k = 0 THEN start
                                                   ELSE Narrowed(ids, id, after[k - 1])]
           after == CHOOSE after : F(after)
<1>1. LowerBound(ids, id, size) = after[size].low
  BY DEF LowerBound, Repeat
<1>2. start \in T
  <2>1. start \in [low : 0..size, high : 0..size, interpolate : BOOLEAN]
    OBVIOUS
  <2>2. start.low = 0 /\ start.high = size /\ start.low <= start.high
    OBVIOUS
  <2>3. \A i \in 0..(size - 1) : ~(i < 0) /\ ~(i >= size)
    OBVIOUS
  <2>4. Around(ids, id, size, start)
    <3> HIDE DEF start
    <3> QED
      BY <2>1, <2>2, <2>3 DEF Around
  <2> QED
    BY <2>1, <2>4
<1>3. \A range \in T : Narrowed(ids, id, range) \in T
  <2> SUFFICES ASSUME NEW range \in T PROVE Narrowed(ids, id, range) \in T
    OBVIOUS
  <2>1. Around(ids, id, size, Narrowed(ids, id, range))
    BY NarrowedAround
  <2> QED
    BY <2>1 DEF Around
<1>4. step \in [1..size -> [T -> T]]
  <2> HIDE DEF T
  <2> QED
    BY <1>3
<1>5. PICK run : IsRun(run, size, T, start, step)
  <2> HIDE DEF T, start, step
  <2> QED
    BY <1>2, <1>4, LoopRuns
<1>6. run \in [0..size -> T] /\ run[0] = start
  <2> HIDE DEF T, start, step
  <2> QED
    BY <1>5 DEF IsRun
<1>7. \A k \in 1..size : run[k] = Narrowed(ids, id, run[k - 1])
  <2> SUFFICES ASSUME NEW k \in 1..size PROVE run[k] = Narrowed(ids, id, run[k - 1])
    OBVIOUS
  <2>1. run[k] = step[k][run[k - 1]]
    <3> HIDE DEF T, start, step
    <3> QED
      BY <1>5 DEF IsRun
  <2>2. run[k - 1] \in T
    <3> HIDE DEF T, start
    <3> QED
      BY <1>6
  <2> QED
    BY <2>1, <2>2
<1>8. F(run)
  <2>1. \A k \in 0..size : run[k] = IF k = 0 THEN start ELSE Narrowed(ids, id, run[k - 1])
    <3> HIDE DEF T, start
    <3> QED
      BY <1>6, <1>7
  <2> HIDE DEF T, start
  <2> QED
    BY <1>6, <2>1
<1>9. F(after)
  <2> HIDE DEF start
  <2> QED
    BY <1>8, Zenon
<1>10. after[0] = start /\ \A k \in 1..size : after[k] = Narrowed(ids, id, after[k - 1])
  <2> HIDE DEF after, start
  <2> QED
    BY <1>9
<1> DEFINE Closer == {k \in 0..size : /\ Around(ids, id, size, after[k])
                                      /\ after[k].high - after[k].low <= size - k}
<1>11. 0 \in Closer
  <2>1. Around(ids, id, size, start)
    BY <1>2
  <2> HIDE DEF after
  <2> QED
    BY <1>10, <2>1
<1>12. ASSUME NEW k \in 0..(size - 1), k \in Closer PROVE k + 1 \in Closer
  <2> DEFINE range == after[k]
  <2>1. k + 1 \in 1..size /\ k + 1 \in 0..size /\ (k + 1) - 1 = k
    OBVIOUS
  <2>2. after[k + 1] = Narrowed(ids, id, range) /\ Around(ids, id, size, range)
    <3> HIDE DEF after
    <3> QED
      BY <1>10, <2>1, <1>12
  <2>3. /\ Around(ids, id, size, after[k + 1])
        /\ range.low < range.high => after[k + 1].high - after[k + 1].low < range.high - range.low
        /\ range.low >= range.high => after[k + 1] = range
    <3> HIDE DEF after, range
    <3> QED
      BY <2>2, NarrowedAround
  <2>4. range.high - range.low <= size - k
    <3> HIDE DEF after
    <3> QED
      BY <1>12
  <2>5. /\ range.low \in Nat /\ range.high \in Nat
        /\ after[k + 1].low \in Nat /\ after[k + 1].high \in Nat
    <3> HIDE DEF after
    <3> QED
      BY <2>2, <2>3 DEF Around
  <2>6. after[k + 1].high - after[k + 1].low <= size - (k + 1)
    <3> HIDE DEF after
    <3> QED
      BY <2>3, <2>4, <2>5
  <2> QED
    BY <2>1, <2>3, <2>6
<1>13. size \in Closer
  <2>1. 0..size \subseteq Closer
    <3> HIDE DEF Closer
    <3> QED
      BY <1>11, <1>12, NumberSteps
  <2> QED
    BY <2>1
<1>14. after[size].low = after[size].high /\ after[size].low \in 0..size
  <2> HIDE DEF after
  <2> QED
    BY <1>13 DEF Around
<1>15. Around(ids, id, size, after[size])
  BY <1>13
<1> HIDE DEF after
<1> QED
  BY <1>1, <1>14, <1>15 DEF Around

(* A dense snapshot and one with explicit ids find an id at its ordinal, and no other
   (GqlTryGetCsrOrdinal). *)
THEOREM BaseOrdinalExact ==
  ASSUME NEW snapshot, snapshot.size \in Nat, AscendingIds(snapshot.ids, snapshot.size),
         snapshot.dense = IsDense(snapshot.ids), NEW id \in Nat
  PROVE  BaseOrdinal(snapshot, id) = {o \in 0..(snapshot.size - 1) : snapshot.ids[o] = id}
<1> DEFINE size == snapshot.size
           ids == snapshot.ids
<1>1. DOMAIN ids = 0..(size - 1)
  BY DEF AscendingIds
<1>2. CASE IsDense(ids)
  <2>1. \A o \in 0..(size - 1) : ids[o] = o + 1
    BY <1>1, <1>2 DEF IsDense
  <2>2. BaseOrdinal(snapshot, id) = IF id = 0 \/ id > size THEN {} ELSE {id - 1}
    BY <1>2 DEF BaseOrdinal
  <2>3. id = 0 \/ id > size => \A o \in 0..(size - 1) : ids[o] # id
    BY <2>1
  <2>4. ~(id = 0 \/ id > size) => id - 1 \in 0..(size - 1)
    OBVIOUS
  <2> QED
    BY <2>1, <2>2, <2>3, <2>4
<1>3. CASE ~IsDense(ids)
  <2> DEFINE low == LowerBound(ids, id, size)
  <2>1. BaseOrdinal(snapshot, id) = IF low \in DOMAIN ids /\ ids[low] = id THEN {low} ELSE {}
    BY <1>3 DEF BaseOrdinal
  <2>2. /\ low \in 0..size
        /\ \A i \in 0..(size - 1) : i < low => ids[i] < id
    BY LowerBoundExact
  <2>3. \A i \in 0..(size - 1) : i >= low => ids[i] >= id
    BY LowerBoundExact
  <2>4. ASSUME NEW o \in 0..(size - 1), ids[o] = id PROVE o = low
    <3>1. ~(o < low)
      BY <2>2, <2>4
    <3>2. low < o => ids[low] < ids[o]
      BY <2>2 DEF AscendingIds
    <3>3. low < o => low \in 0..(size - 1)
      BY <2>2
    <3>4. low < o => ids[low] \in Nat /\ ids[low] >= id
      BY <3>3, <2>3 DEF AscendingIds
    <3> HIDE DEF low
    <3> QED
      BY <3>1, <3>2, <3>4, <2>4, <2>2
  <2> HIDE DEF low
  <2> QED
    BY <1>1, <2>1, <2>4
<1> QED
  BY <1>2, <1>3

-----------------------------------------------------------------------------
(* A sequence that repeats nothing has as many elements as places. *)
LEMMA CountOf ==
  ASSUME NEW S, NEW s \in Seq(S), \A i, j \in 1..Len(s) : s[i] = s[j] => i = j
  PROVE  IsFiniteSet(ToSet(s)) /\ Cardinality(ToSet(s)) = Len(s)
<1>1. Len(s) \in Nat /\ DOMAIN s = 1..Len(s) /\ s \in [1..Len(s) -> ToSet(s)]
  BY DEF ToSet
<1>2. s \in Bijection(1..Len(s), ToSet(s))
  BY <1>1 DEF Bijection, Injection, Surjection, IsInjective, ToSet
<1>3. ExistsBijection(1..Len(s), ToSet(s))
  BY <1>2 DEF ExistsBijection
<1> QED
  BY <1>1, <1>3, FS_NatBijection, FS_CountingElements

(* The rank of an element of a finite set in a strict total order. *)
RankIn(S, R) == [x \in S |-> Cardinality({y \in S : <<y, x>> \in R})]

StrictOrder(S, R) ==
  /\ \A x \in S : <<x, x>> \notin R
  /\ \A x, y \in S : x # y => <<x, y>> \in R \/ <<y, x>> \in R
  /\ \A x, y, z \in S : <<x, y>> \in R /\ <<y, z>> \in R => <<x, z>> \in R

(* The rank in a strict order numbers a finite set without gaps, along the order. *)
LEMMA RankExact ==
  ASSUME NEW S, IsFiniteSet(S), NEW R, StrictOrder(S, R)
  PROVE  /\ RankIn(S, R) \in Bijection(S, 0..(Cardinality(S) - 1))
         /\ \A x, y \in S : <<x, y>> \in R => RankIn(S, R)[x] < RankIn(S, R)[y]
<1> DEFINE n == Cardinality(S)
           Smaller(x) == {y \in S : <<y, x>> \in R}
           rank == RankIn(S, R)
<1>0. n \in Nat /\ \A x \in S : rank[x] = Cardinality(Smaller(x))
  BY FS_CardinalityType DEF RankIn
<1>1. \A x \in S : Smaller(x) \in SUBSET S /\ x \notin Smaller(x)
  BY DEF StrictOrder
<1>2. \A x \in S : IsFiniteSet(Smaller(x)) /\ rank[x] \in 0..(n - 1)
  <2> SUFFICES ASSUME NEW x \in S PROVE IsFiniteSet(Smaller(x)) /\ rank[x] \in 0..(n - 1)
    OBVIOUS
  <2> HIDE DEF Smaller
  <2>1. IsFiniteSet(Smaller(x)) /\ Cardinality(Smaller(x)) <= n /\ Cardinality(Smaller(x)) # n
    BY <1>1, FS_Subset
  <2>2. Cardinality(Smaller(x)) \in Nat
    BY <2>1, FS_CardinalityType
  <2>3. rank[x] = Cardinality(Smaller(x))
    BY <1>0
  <2> HIDE DEF n, rank
  <2> QED
    BY <1>0, <2>1, <2>2, <2>3
<1>3. \A x, y \in S : <<x, y>> \in R => rank[x] < rank[y]
  <2> SUFFICES ASSUME NEW x \in S, NEW y \in S, <<x, y>> \in R PROVE rank[x] < rank[y]
    OBVIOUS
  <2>1. Smaller(x) \in SUBSET Smaller(y)
    BY DEF StrictOrder
  <2>2. x \in Smaller(y) /\ x \notin Smaller(x)
    BY DEF StrictOrder
  <2> HIDE DEF Smaller
  <2>3. Cardinality(Smaller(x)) <= Cardinality(Smaller(y)) /\ Cardinality(Smaller(x)) # Cardinality(Smaller(y))
    BY <2>1, <2>2, <1>2, FS_Subset
  <2>4. rank[x] \in Int /\ rank[y] \in Int /\ rank[x] = Cardinality(Smaller(x)) /\ rank[y] = Cardinality(Smaller(y))
    <3> HIDE DEF rank, n
    <3> QED
      BY <1>2, <1>0
  <2> HIDE DEF rank
  <2> QED
    BY <2>3, <2>4
<1>4. \A x, y \in S : rank[x] = rank[y] => x = y
  <2> SUFFICES ASSUME NEW x \in S, NEW y \in S, rank[x] = rank[y], x # y PROVE FALSE
    OBVIOUS
  <2>1. rank[x] \in Int /\ rank[y] \in Int
    <3> HIDE DEF rank, n, Smaller
    <3> QED
      BY <1>2, <1>0
  <2>2. <<x, y>> \in R \/ <<y, x>> \in R
    BY DEF StrictOrder
  <2> HIDE DEF rank
  <2> QED
    BY <2>1, <2>2, <1>3
<1>5. rank \in Injection(S, 0..(n - 1))
  <2>1. rank = [x \in S |-> rank[x]]
    BY DEF RankIn
  <2> HIDE DEF rank, n, Smaller
  <2>2. rank \in [S -> 0..(n - 1)]
    BY <2>1, <1>2
  <2> QED
    BY <2>2, <1>4 DEF Injection, IsInjective
<1>6. IsFiniteSet(0..(n - 1)) /\ Cardinality(0..(n - 1)) = n
  BY <1>0, FS_Interval
<1>7. rank \in Surjection(S, 0..(n - 1))
  <2> HIDE DEF rank
  <2> QED
    BY <1>5, <1>6, FS_Injection
<1>8. rank \in Bijection(S, 0..(n - 1))
  <2> HIDE DEF rank, n
  <2> QED
    BY <1>5, <1>7 DEF Bijection
<1> QED
  BY <1>3, <1>8

(* ORDER BY vertex_id: a vertex is at its rank. *)
LEMMA OrderedByIdExact ==
  ASSUME NEW vs \in Seq(VertexRow), \A i, j \in 1..Len(vs) : vs[i].id = vs[j].id => i = j
  PROVE  LET sorted == OrderedById(vs)
         IN  /\ sorted \in Seq(VertexRow)
             /\ Len(sorted) = Len(vs)
             /\ \A i, j \in 1..Len(vs) : i < j => sorted[i].id < sorted[j].id
             /\ {sorted[k] : k \in 1..Len(vs)} = ToSet(vs)
<1> DEFINE V == ToSet(vs)
           n == Len(vs)
           R == {p \in V \X V : p[1].id < p[2].id}
           rank == RankIn(V, R)
           sorted == OrderedById(vs)
<1>1. n \in Nat /\ DOMAIN vs = 1..n /\ V \subseteq VertexRow /\ \A i \in 1..n : vs[i] \in V
  BY DEF ToSet
<1>2. IsFiniteSet(V) /\ Cardinality(V) = n
  <2>1. \A i, j \in 1..Len(vs) : vs[i] = vs[j] => i = j
    OBVIOUS
  <2> QED
    BY <2>1, CountOf
<1>3. \A v, w \in V : v.id \in Nat /\ (v.id = w.id => v = w)
  BY <1>1 DEF ToSet, VertexRow
<1>4. \A v, w \in V : <<v, w>> \in R <=> v.id < w.id
  <2> HIDE DEF V
  <2> QED
    OBVIOUS
<1>5. StrictOrder(V, R)
  <2> HIDE DEF V, R
  <2>1. \A x, y \in V : x # y => x.id < y.id \/ y.id < x.id
    BY <1>3
  <2>2. \A x, y, z \in V : x.id < y.id /\ y.id < z.id => x.id < z.id
    BY <1>3
  <2>3. \A x \in V : ~(x.id < x.id)
    BY <1>3
  <2> QED
    BY <2>1, <2>2, <2>3, <1>4 DEF StrictOrder
<1>6. /\ rank \in Bijection(V, 0..(n - 1))
      /\ \A v, w \in V : v.id < w.id => rank[v] < rank[w]
  <2> HIDE DEF V, R
  <2> QED
    BY <1>2, <1>4, <1>5, RankExact
<1>7. /\ rank \in [V -> 0..(n - 1)]
      /\ \A v, w \in V : rank[v] = rank[w] => v = w
      /\ \A k \in 0..(n - 1) : \E v \in V : rank[v] = k
  <2> HIDE DEF V, n, rank
  <2> QED
    BY <1>6 DEF Bijection, Injection, Surjection, IsInjective
<1>8. \A k \in 1..n : sorted[k] \in V /\ rank[sorted[k]] = k - 1
  <2> SUFFICES ASSUME NEW k \in 1..n PROVE sorted[k] \in V /\ rank[sorted[k]] = k - 1
    OBVIOUS
  <2>1. PICK v \in V : rank[v] = k - 1
    <3>1. k - 1 \in 0..(n - 1)
      BY <1>1
    <3> HIDE DEF V, n, rank
    <3> QED
      BY <3>1, <1>7
  <2>0. \A x \in V : rank[x] = Cardinality({w \in ToSet(vs) : w.id < x.id})
    <3> SUFFICES ASSUME NEW x \in V PROVE rank[x] = Cardinality({w \in ToSet(vs) : w.id < x.id})
      OBVIOUS
    <3>1. {w \in V : <<w, x>> \in R} = {w \in V : w.id < x.id}
      <4> HIDE DEF V, R
      <4> QED
        BY <1>4
    <3>2. rank[x] = Cardinality({w \in V : <<w, x>> \in R})
      <4> HIDE DEF V, R
      <4> QED
        BY DEF RankIn
    <3> QED
      BY <3>1, <3>2
  <2>2. Cardinality({w \in ToSet(vs) : w.id < v.id}) = k - 1 /\ v \in ToSet(vs)
    BY <2>0, <2>1
  <2>3. sorted[k] = CHOOSE x \in ToSet(vs) : Cardinality({w \in ToSet(vs) : w.id < x.id}) = k - 1
    BY <1>1 DEF OrderedById
  <2>4. sorted[k] \in ToSet(vs) /\ Cardinality({w \in ToSet(vs) : w.id < sorted[k].id}) = k - 1
    <3> HIDE DEF sorted
    <3> QED
      BY <2>2, <2>3
  <2>5. rank[sorted[k]] = Cardinality({w \in ToSet(vs) : w.id < sorted[k].id})
    <3> HIDE DEF sorted, rank
    <3> QED
      BY <2>0, <2>4
  <2> HIDE DEF sorted, rank
  <2> QED
    BY <2>4, <2>5
<1>9. sorted \in [1..n -> VertexRow]
  <2>1. sorted = [k \in DOMAIN vs |->
                    CHOOSE v \in ToSet(vs) : Cardinality({w \in ToSet(vs) : w.id < v.id}) = k - 1]
    BY Zenon DEF OrderedById
  <2>2. DOMAIN sorted = 1..n
    BY <2>1, <1>1, Zenon
  <2>3. sorted = [k \in DOMAIN sorted |-> sorted[k]]
    BY <2>1, Zenon
  <2> HIDE DEF sorted, V, n
  <2> QED
    BY <1>1, <1>8, <2>2, <2>3
<1>10. \A i, j \in 1..n : i < j => sorted[i].id < sorted[j].id
  <2> SUFFICES ASSUME NEW i \in 1..n, NEW j \in 1..n, i < j PROVE sorted[i].id < sorted[j].id
    OBVIOUS
  <2>1. /\ sorted[i] \in V /\ sorted[j] \in V
        /\ rank[sorted[i]] = i - 1 /\ rank[sorted[j]] = j - 1
    BY <1>8
  <2>2. sorted[i].id \in Nat /\ sorted[j].id \in Nat
    <3> HIDE DEF V, sorted
    <3> QED
      BY <2>1, <1>3
  <2>3. sorted[i].id # sorted[j].id
    <3> HIDE DEF V, sorted, rank
    <3> QED
      BY <2>1, <1>3
  <2>4. ~(sorted[j].id < sorted[i].id)
    <3>1. sorted[j].id < sorted[i].id => rank[sorted[j]] < rank[sorted[i]]
      <4> HIDE DEF V, sorted, rank
      <4> QED
        BY <2>1, <1>6
    <3> HIDE DEF sorted, rank
    <3> QED
      BY <3>1, <2>1
  <2> HIDE DEF sorted
  <2> QED
    BY <2>2, <2>3, <2>4
<1>11. {sorted[k] : k \in 1..n} = V
  <2>1. ASSUME NEW v \in V PROVE \E k \in 1..n : sorted[k] = v
    <3>1. rank[v] \in 0..(n - 1)
      <4> HIDE DEF V, rank, n
      <4> QED
        BY <1>7
    <3>2. rank[v] + 1 \in 1..n /\ rank[sorted[rank[v] + 1]] = rank[v]
      <4> HIDE DEF rank, sorted, V
      <4> QED
        BY <3>1, <1>8, <1>1
    <3>3. sorted[rank[v] + 1] \in V
      <4> HIDE DEF rank, sorted, V, n
      <4> QED
        BY <3>2, <1>8
    <3> HIDE DEF rank, sorted, V, n
    <3> QED
      BY <3>2, <3>3, <1>7
  <2>2. \A k \in 1..n : sorted[k] \in V
    BY <1>8
  <2> HIDE DEF sorted, V, n
  <2>3. {sorted[k] : k \in 1..n} \subseteq V
    BY <2>2, Zenon
  <2>4. V \subseteq {sorted[k] : k \in 1..n}
    BY <2>1, Zenon
  <2> QED
    BY <2>3, <2>4, Zenon
<1>12. sorted \in Seq(VertexRow) /\ Len(sorted) = n
  <2> HIDE DEF sorted
  <2> QED
    BY <1>1, <1>9
<1> QED
  BY <1>10, <1>11, <1>12

-----------------------------------------------------------------------------
(* Compressed rows.  An entry k has a key keys[k]; Below counts the entries of
   smaller keys, Earlier those of the same key before it. *)
Below(keys, n, i) == {k \in 1..n : keys[k] < i}
Earlier(keys, k, i) == {j \in 1..(k - 1) : keys[j] = i}

(* Two sets with nothing in common have as many elements as their union. *)
LEMMA CountOfUnion ==
  ASSUME NEW S, NEW T, IsFiniteSet(S), IsFiniteSet(T), S \cap T = {}
  PROVE  Cardinality(S \cup T) = Cardinality(S) + Cardinality(T)
<1>1. Cardinality(S) \in Nat /\ Cardinality(T) \in Nat /\ Cardinality(S \cap T) = 0
  BY FS_CardinalityType, FS_EmptySet
<1>2. Cardinality(S \cup T) = Cardinality(S) + Cardinality(T) - Cardinality(S \cap T)
  BY FS_Union
<1> QED
  BY <1>1, <1>2

(* How many positions of a sequence there are in a set of them. *)
LEMMA CountIn ==
  ASSUME NEW n \in Nat, NEW S, S \subseteq 1..n
  PROVE  IsFiniteSet(S) /\ Cardinality(S) \in 0..n
<1>1. IsFiniteSet(1..n) /\ Cardinality(1..n) = n
  BY FS_Interval
<1>2. IsFiniteSet(S) /\ Cardinality(S) <= n
  BY <1>1, FS_Subset
<1> QED
  BY <1>2, FS_CardinalityType

(* Counting and summing (gql_csr.cpp 378-383, 958-982): entry i of the offsets is the number of keys
   below i, and the last entry is the number of all keys. *)
LEMMA OffsetsExact ==
  ASSUME NEW size \in Nat, NEW n \in Nat, NEW keys \in [1..n -> 0..(size - 1)]
  PROVE  /\ Offsets(size, keys) \in [0..size -> 0..n]
         /\ \A i \in 0..size : Offsets(size, keys)[i] = Cardinality(Below(keys, n, i))
         /\ Offsets(size, keys)[size] = n
<1> DEFINE counted(i) == {k \in DOMAIN keys : CountedAt(keys[k]) = i}
           counts == [i \in 0..size |-> Cardinality(counted(i))]
           F(sum) == sum = [i \in DOMAIN counts |-> IF i = 0 THEN counts[0] ELSE sum[i - 1] + counts[i]]
           below == [i \in 0..size |-> Cardinality(Below(keys, n, i))]
           sum == CHOOSE sum : F(sum)
<1>1. Offsets(size, keys) = sum
  BY DEF Offsets, FinalizeOffsets
<1>2. DOMAIN keys = 1..n /\ \A k \in 1..n : keys[k] \in 0..(size - 1)
  OBVIOUS
<1>3. \A i \in 0..size : counted(i) = {k \in 1..n : keys[k] + 1 = i}
  BY <1>2 DEF CountedAt
<1>4. \A i \in 0..size : /\ IsFiniteSet(Below(keys, n, i)) /\ Cardinality(Below(keys, n, i)) \in 0..n
                          /\ IsFiniteSet(counted(i)) /\ Cardinality(counted(i)) \in 0..n
  <2> SUFFICES ASSUME NEW i \in 0..size
               PROVE  /\ IsFiniteSet(Below(keys, n, i)) /\ Cardinality(Below(keys, n, i)) \in 0..n
                      /\ IsFiniteSet(counted(i)) /\ Cardinality(counted(i)) \in 0..n
    OBVIOUS
  <2>1. Below(keys, n, i) \subseteq 1..n /\ counted(i) \subseteq 1..n
    BY <1>2 DEF Below
  <2> HIDE DEF counted
  <2> QED
    BY <2>1, CountIn
<1>5. below[0] = counts[0]
  <2>1. Below(keys, n, 0) = {}
    BY <1>2 DEF Below
  <2>2. counted(0) = {}
    BY <1>2, <1>3
  <2>3. 0 \in 0..size
    OBVIOUS
  <2> HIDE DEF counted
  <2> QED
    BY <2>1, <2>2, <2>3
<1>6. ASSUME NEW i \in 1..size PROVE below[i] = below[i - 1] + counts[i]
  <2>1. i \in 0..size /\ i - 1 \in 0..size
    OBVIOUS
  <2>2. counted(i) = {k \in 1..n : keys[k] + 1 = i}
    BY <1>3, <2>1
  <2>3. Below(keys, n, i) = Below(keys, n, i - 1) \cup counted(i)
    <3> HIDE DEF counted
    <3> QED
      BY <1>2, <2>2 DEF Below
  <2>4. Below(keys, n, i - 1) \cap counted(i) = {}
    <3> HIDE DEF counted
    <3> QED
      BY <1>2, <2>2 DEF Below
  <2>5. Cardinality(Below(keys, n, i)) = Cardinality(Below(keys, n, i - 1)) + Cardinality(counted(i))
    <3> HIDE DEF counted
    <3> QED
      BY <2>1, <2>3, <2>4, <1>4, CountOfUnion
  <2> HIDE DEF counted
  <2> QED
    BY <2>1, <2>5
<1>7. F(below)
  <2>1. \A i \in 0..size : below[i] = IF i = 0 THEN counts[0] ELSE below[i - 1] + counts[i]
    <3> HIDE DEF counts, below
    <3> QED
      BY <1>5, <1>6
  <2>2. DOMAIN counts = 0..size
    OBVIOUS
  <2>3. below = [i \in 0..size |-> below[i]]
    OBVIOUS
  <2> HIDE DEF counts, below
  <2> QED
    BY <2>1, <2>2, <2>3
<1>8. F(sum)
  <2> HIDE DEF counts, below
  <2> QED
    BY <1>7, Zenon
<1>9. DOMAIN sum = 0..size /\ sum[0] = counts[0] /\ \A i \in 1..size : sum[i] = sum[i - 1] + counts[i]
  <2>1. DOMAIN counts = 0..size
    OBVIOUS
  <2>2. sum = [i \in 0..size |-> IF i = 0 THEN counts[0] ELSE sum[i - 1] + counts[i]]
    <3> HIDE DEF sum, counts
    <3> QED
      BY <1>8, <2>1, Zenon
  <2>3. 0 \in 0..size /\ \A i \in 1..size : i \in 0..size /\ i # 0
    OBVIOUS
  <2> HIDE DEF sum, counts
  <2> QED
    BY <2>2, <2>3
<1> DEFINE Same == {i \in 0..size : sum[i] = below[i]}
<1>10. 0 \in Same
  <2> HIDE DEF sum, below, counts
  <2> QED
    BY <1>5, <1>9
<1>11. ASSUME NEW i \in 0..(size - 1), i \in Same PROVE i + 1 \in Same
  <2>1. i + 1 \in 1..size /\ i + 1 \in 0..size /\ (i + 1) - 1 = i
    OBVIOUS
  <2>2. sum[i + 1] = sum[i] + counts[i + 1] /\ below[i + 1] = below[i] + counts[i + 1]
    <3> HIDE DEF sum, below, counts
    <3> QED
      BY <1>6, <1>9, <2>1
  <2>3. sum[i] = below[i]
    BY <1>11
  <2> HIDE DEF sum, below, counts
  <2> QED
    BY <2>1, <2>2, <2>3
<1>12. 0..size \subseteq Same
  <2> HIDE DEF Same
  <2> QED
    BY <1>10, <1>11, NumberSteps
<1>13. \A i \in 0..size : sum[i] = Cardinality(Below(keys, n, i))
  <2> HIDE DEF sum
  <2> QED
    BY <1>12
<1>14. Cardinality(Below(keys, n, size)) = n
  <2>1. Below(keys, n, size) = 1..n
    BY <1>2 DEF Below
  <2> QED
    BY <2>1, FS_Interval
<1>15. sum \in [0..size -> 0..n]
  <2>1. sum = [i \in 0..size |-> sum[i]]
    <3> HIDE DEF sum
    <3>1. sum = [i \in DOMAIN counts |-> IF i = 0 THEN counts[0] ELSE sum[i - 1] + counts[i]]
      BY <1>8
    <3> HIDE DEF counts
    <3> QED
      BY <1>9, <3>1
  <2> HIDE DEF sum, counted
  <2> QED
    BY <2>1, <1>4, <1>13
<1> HIDE DEF sum, counted
<1> QED
  BY <1>1, <1>13, <1>14, <1>15

(* Entries in the order of their keys, those of one key in their own order. *)
KeyOrder(keys, n) ==
  {p \in (1..n) \X (1..n) : \/ keys[p[1]] < keys[p[2]]
                            \/ keys[p[1]] = keys[p[2]] /\ p[1] < p[2]}

Places(keys, n) == RankIn(1..n, KeyOrder(keys, n))

ArePlaces(places, size, n, keys) ==
  /\ places \in Bijection(1..n, 0..(n - 1))
  /\ \A k \in 1..n : places[k] = Offsets(size, keys)[keys[k]] + Cardinality(Earlier(keys, k, keys[k]))
  /\ \A i \in 0..(size - 1) : Offsets(size, keys)[i] <= Offsets(size, keys)[i + 1]
  /\ \A k \in 1..n, i \in 0..(size - 1) :
        keys[k] = i <=> Offsets(size, keys)[i] <= places[k] /\ places[k] < Offsets(size, keys)[i + 1]

(* The scatter gives each element its own place, in the range of its key. *)
LEMMA PlacesExact ==
  ASSUME NEW size \in Nat, NEW n \in Nat, NEW keys \in [1..n -> 0..(size - 1)]
  PROVE  ArePlaces(Places(keys, n), size, n, keys)
<1> DEFINE places == Places(keys, n)
           offsets == Offsets(size, keys)
           R == KeyOrder(keys, n)
           Smaller(k) == {j \in 1..n : <<j, k>> \in R}
<1>1. \A k \in 1..n : keys[k] \in 0..(size - 1)
  OBVIOUS
<1>2. \A j, k \in 1..n : <<j, k>> \in R <=> keys[j] < keys[k] \/ (keys[j] = keys[k] /\ j < k)
  BY DEF KeyOrder
<1>3. StrictOrder(1..n, R)
  <2> HIDE DEF R
  <2>1. \A x \in 1..n : <<x, x>> \notin R
    BY <1>1, <1>2
  <2>2. \A x, y \in 1..n : x # y => <<x, y>> \in R \/ <<y, x>> \in R
    BY <1>1, <1>2
  <2>3. \A x, y, z \in 1..n : <<x, y>> \in R /\ <<y, z>> \in R => <<x, z>> \in R
    BY SMTT(20), <1>1, <1>2
  <2> QED
    BY <2>1, <2>2, <2>3 DEF StrictOrder
<1>4. places \in Bijection(1..n, 0..(n - 1))
  <2>1. IsFiniteSet(1..n) /\ Cardinality(1..n) = n
    BY FS_Interval
  <2> QED
    BY <1>3, <2>1, RankExact DEF Places
<1>5. /\ offsets \in [0..size -> 0..n]
      /\ \A i \in 0..size : offsets[i] = Cardinality(Below(keys, n, i))
  BY OffsetsExact
<1>6. \A k \in 1..n : places[k] = Cardinality(Smaller(k))
  BY DEF Places, RankIn
<1>7. \A k \in 1..n : Smaller(k) = Below(keys, n, keys[k]) \cup Earlier(keys, k, keys[k])
  <2> SUFFICES ASSUME NEW k \in 1..n
               PROVE  Smaller(k) = Below(keys, n, keys[k]) \cup Earlier(keys, k, keys[k])
    OBVIOUS
  <2>1. \A j \in 1..n : j < k <=> j \in 1..(k - 1)
    OBVIOUS
  <2>2. 1..(k - 1) \subseteq 1..n
    OBVIOUS
  <2> HIDE DEF R
  <2> QED
    BY <1>2, <2>1, <2>2 DEF Below, Earlier
<1>8. \A k \in 1..n : /\ Below(keys, n, keys[k]) \subseteq 1..n
                       /\ Earlier(keys, k, keys[k]) \subseteq 1..n
                       /\ Below(keys, n, keys[k]) \cap Earlier(keys, k, keys[k]) = {}
  <2> SUFFICES ASSUME NEW k \in 1..n
               PROVE  /\ Below(keys, n, keys[k]) \subseteq 1..n
                      /\ Earlier(keys, k, keys[k]) \subseteq 1..n
                      /\ Below(keys, n, keys[k]) \cap Earlier(keys, k, keys[k]) = {}
    OBVIOUS
  <2>1. 1..(k - 1) \subseteq 1..n
    OBVIOUS
  <2>2. \A j \in 1..(k - 1) : keys[j] = keys[k] => ~(keys[j] < keys[k])
    BY <1>1, <2>1
  <2> QED
    BY <2>1, <2>2 DEF Below, Earlier
<1>9. \A k \in 1..n : places[k] = offsets[keys[k]] + Cardinality(Earlier(keys, k, keys[k]))
  <2> SUFFICES ASSUME NEW k \in 1..n
               PROVE  places[k] = offsets[keys[k]] + Cardinality(Earlier(keys, k, keys[k]))
    OBVIOUS
  <2>1. Cardinality(Smaller(k)) = Cardinality(Below(keys, n, keys[k])) + Cardinality(Earlier(keys, k, keys[k]))
    <3> HIDE DEF Smaller
    <3>1. IsFiniteSet(Below(keys, n, keys[k])) /\ IsFiniteSet(Earlier(keys, k, keys[k]))
      BY <1>8, CountIn
    <3> QED
      BY <3>1, <1>7, <1>8, CountOfUnion
  <2>2. keys[k] \in 0..size
    BY <1>1
  <2> HIDE DEF places, offsets, Smaller
  <2> QED
    BY <2>1, <2>2, <1>5, <1>6
<1>10. \A i, j \in 0..size : i <= j => offsets[i] <= offsets[j]
  <2> SUFFICES ASSUME NEW i \in 0..size, NEW j \in 0..size, i <= j PROVE offsets[i] <= offsets[j]
    OBVIOUS
  <2>1. Below(keys, n, i) \subseteq Below(keys, n, j) /\ Below(keys, n, j) \subseteq 1..n
    BY <1>1 DEF Below
  <2>2. Cardinality(Below(keys, n, i)) <= Cardinality(Below(keys, n, j))
    BY <2>1, CountIn, FS_Subset
  <2> HIDE DEF offsets
  <2> QED
    BY <2>2, <1>5
<1>11. ASSUME NEW k \in 1..n
       PROVE  /\ keys[k] \in 0..size /\ keys[k] + 1 \in 0..size
              /\ offsets[keys[k]] <= places[k] /\ places[k] < offsets[keys[k] + 1]
  <2>1. keys[k] \in 0..size /\ keys[k] + 1 \in 0..size
    BY <1>1
  <2>2. offsets[keys[k]] \in Nat /\ offsets[keys[k] + 1] \in Nat
    <3> HIDE DEF offsets
    <3> QED
      BY <1>5, <2>1
  <2>3. Cardinality(Earlier(keys, k, keys[k])) \in Nat
    BY <1>8, CountIn
  <2>4. /\ Smaller(k) \subseteq Below(keys, n, keys[k] + 1)
        /\ k \in Below(keys, n, keys[k] + 1) /\ k \notin Smaller(k)
        /\ Below(keys, n, keys[k] + 1) \subseteq 1..n
    <3>1. k \in Below(keys, n, keys[k] + 1) /\ Below(keys, n, keys[k] + 1) \subseteq 1..n
      BY <1>1 DEF Below
    <3>2. k \notin Smaller(k)
      <4> HIDE DEF R
      <4> QED
        BY <1>1, <1>2
    <3>3. \A j \in 1..n : <<j, k>> \in R => keys[j] < keys[k] + 1
      <4> HIDE DEF R
      <4> QED
        BY <1>1, <1>2
    <3> HIDE DEF R
    <3> QED
      BY <3>1, <3>2, <3>3 DEF Below
  <2>5. /\ Cardinality(Smaller(k)) <= Cardinality(Below(keys, n, keys[k] + 1))
        /\ Cardinality(Smaller(k)) # Cardinality(Below(keys, n, keys[k] + 1))
    <3> HIDE DEF Smaller
    <3> QED
      BY <2>4, CountIn, FS_Subset
  <2>6. places[k] = Cardinality(Smaller(k)) /\ offsets[keys[k] + 1] = Cardinality(Below(keys, n, keys[k] + 1))
    <3> HIDE DEF places, offsets, Smaller
    <3> QED
      BY <2>1, <1>5, <1>6
  <2>7. offsets[keys[k]] <= places[k] /\ places[k] \in Nat
    <3> HIDE DEF places, offsets
    <3> QED
      BY <2>2, <2>3, <1>9
  <2> HIDE DEF places, offsets, Smaller
  <2> QED
    BY <2>1, <2>2, <2>5, <2>6, <2>7
<1>12. ASSUME NEW k \in 1..n, NEW i \in 0..(size - 1)
       PROVE  keys[k] = i <=> offsets[i] <= places[k] /\ places[k] < offsets[i + 1]
  <2>1. i \in 0..size /\ i + 1 \in 0..size /\ keys[k] \in 0..size /\ keys[k] + 1 \in 0..size
    BY <1>11
  <2>2. /\ offsets[keys[k]] \in Nat /\ offsets[keys[k] + 1] \in Nat
        /\ offsets[i] \in Nat /\ offsets[i + 1] \in Nat
    <3> HIDE DEF offsets
    <3> QED
      BY <1>5, <2>1
  <2>3. places[k] \in Int
    <3> HIDE DEF places
    <3> QED
      BY <1>4 DEF Bijection, Injection
  <2>4. keys[k] < i => offsets[keys[k] + 1] <= offsets[i]
    <3> HIDE DEF offsets
    <3> QED
      BY <1>10, <2>1
  <2>5. i < keys[k] => offsets[i + 1] <= offsets[keys[k]]
    <3> HIDE DEF offsets
    <3> QED
      BY <1>10, <2>1
  <2>6. keys[k] < i \/ i < keys[k] \/ keys[k] = i
    BY <2>1
  <2>7. offsets[keys[k]] <= places[k] /\ places[k] < offsets[keys[k] + 1]
    BY <1>11
  <2> HIDE DEF offsets, places
  <2>8. CASE keys[k] < i
    <3>1. ~(offsets[i] <= places[k])
      BY <2>8, <2>2, <2>3, <2>4, <2>7
    <3>2. keys[k] # i
      BY <2>8, <2>1
    <3> QED
      BY <3>1, <3>2
  <2>9. CASE i < keys[k]
    <3>1. ~(places[k] < offsets[i + 1])
      BY <2>9, <2>2, <2>3, <2>5, <2>7
    <3>2. keys[k] # i
      BY <2>9, <2>1
    <3> QED
      BY <3>1, <3>2
  <2>10. CASE keys[k] = i
    BY <2>10, <2>7
  <2> QED
    BY <2>6, <2>8, <2>9, <2>10
<1>13. \A i \in 0..(size - 1) : offsets[i] <= offsets[i + 1]
  <2> HIDE DEF offsets
  <2> QED
    BY <1>10
<1> HIDE DEF places, offsets
<1> QED
  BY <1>4, <1>9, <1>12, <1>13 DEF places, offsets, ArePlaces

(* The cursor of a key is past the entries of the key placed so far. *)
LEMMA EarlierGrows ==
  ASSUME NEW n \in Nat, NEW keys \in [1..n -> Nat], NEW k \in 1..n, NEW i \in Nat
  PROVE  /\ Cardinality(Earlier(keys, k, i)) \in Nat
         /\ Cardinality(Earlier(keys, k + 1, i)) =
               IF keys[k] = i THEN Cardinality(Earlier(keys, k, i)) + 1 ELSE Cardinality(Earlier(keys, k, i))
         /\ Cardinality(Earlier(keys, 1, i)) = 0
<1>1. Earlier(keys, k, i) \subseteq 1..n /\ Earlier(keys, 1, i) = {}
  <2>1. 1..(k - 1) \subseteq 1..n /\ 1..(1 - 1) = {}
    OBVIOUS
  <2> QED
    BY <2>1 DEF Earlier
<1>2. IsFiniteSet(Earlier(keys, k, i)) /\ Cardinality(Earlier(keys, k, i)) \in Nat
  BY <1>1, CountIn
<1>3. 1..((k + 1) - 1) = (1..(k - 1)) \cup {k} /\ k \notin 1..(k - 1)
  OBVIOUS
<1>4. Earlier(keys, k + 1, i) = IF keys[k] = i THEN Earlier(keys, k, i) \cup {k} ELSE Earlier(keys, k, i)
  BY <1>3 DEF Earlier
<1>5. k \notin Earlier(keys, k, i)
  BY <1>3 DEF Earlier
<1>6. Cardinality(Earlier(keys, k, i) \cup {k}) = Cardinality(Earlier(keys, k, i)) + 1
  BY <1>2, <1>5, FS_AddElement
<1>7. Cardinality(Earlier(keys, 1, i)) = 0
  BY <1>1, FS_EmptySet
<1> QED
  BY <1>2, <1>4, <1>6, <1>7

(* Each value is at the place of its entry. *)
LEMMA ScatterExact ==
  ASSUME NEW size \in Nat, NEW n \in Nat, NEW keys \in [1..n -> 0..(size - 1)], NEW values
  PROVE  LET array == Scatter(Offsets(size, keys), keys, values)
         IN  \A k \in 1..n : array[Places(keys, n)[k]] = values[k]
<1> DEFINE offsets == Offsets(size, keys)
           places == Places(keys, n)
           X == {values[k] : k \in 1..n} \cup {0}
           T == [cursor : [0..size -> Int], array : [0..(n - 1) -> X]]
           base == [cursor |-> offsets, array |-> [i \in 0..(Len(keys) - 1) |-> 0]]
           Put(acc, k) == [cursor |-> [acc.cursor EXCEPT ![keys[k]] = @ + 1],
                           array |-> [acc.array EXCEPT ![acc.cursor[keys[k]]] = values[k]]]
           step == [k \in 1..n |-> [acc \in T |-> Put(acc, k)]]
           order == [k \in DOMAIN keys |-> k]
           F(it) == it = [S \in SUBSET (DOMAIN order) |->
                            IF S = {} THEN base ELSE Put(it[S \ {Max(S)}], order[Max(S)])]
           it == CHOOSE it : F(it)
<1>1. DOMAIN keys = 1..n /\ DOMAIN order = 1..n /\ Len(keys) = n /\ \A k \in 1..n : keys[k] \in 0..(size - 1)
  <2>1. keys \in Seq(0..(size - 1))
    OBVIOUS
  <2> QED
    BY <2>1
<1>2. Scatter(offsets, keys, values) = it[DOMAIN order].array
  BY DEF Scatter, FoldLeftDomain, FoldLeft, MapThenFoldSet
<1>3. offsets \in [0..size -> Int]
  <2>1. offsets \in [0..size -> 0..n]
    BY OffsetsExact
  <2> HIDE DEF offsets
  <2> QED
    BY <2>1
<1>4. base \in T
  <2>1. [i \in 0..(Len(keys) - 1) |-> 0] \in [0..(n - 1) -> X]
    BY <1>1
  <2> HIDE DEF offsets, X
  <2> QED
    BY <1>3, <2>1
<1>5. \A acc \in T, k \in 1..n : Put(acc, k) \in T
  <2> SUFFICES ASSUME NEW acc \in T, NEW k \in 1..n PROVE Put(acc, k) \in T
    OBVIOUS
  <2>1. values[k] \in X
    OBVIOUS
  <2>2. keys[k] \in 0..size
    BY <1>1
  <2> HIDE DEF X
  <2>3. [acc.cursor EXCEPT ![keys[k]] = @ + 1] \in [0..size -> Int]
    BY <2>2
  <2>4. [acc.array EXCEPT ![acc.cursor[keys[k]]] = values[k]] \in [0..(n - 1) -> X]
    BY <2>1
  <2> QED
    BY <2>3, <2>4
<1>6. step \in [1..n -> [T -> T]]
  <2> HIDE DEF T, Put
  <2> QED
    BY <1>4, <1>5
<1>7. PICK fold : IsFold(fold, n, T, base, step)
  <2> HIDE DEF T, base, step
  <2> QED
    BY <1>4, <1>6, FoldRuns
<1>8. \A S \in SUBSET (1..n) : S # {} => Max(S) \in 1..n /\ S \ {Max(S)} \in SUBSET (1..n)
  BY MaxOf
<1>9. /\ fold \in [SUBSET (1..n) -> T]
      /\ \A S \in SUBSET (1..n) :
            fold[S] = IF S = {} THEN base ELSE step[Max(S)][fold[S \ {Max(S)}]]
  <2> HIDE DEF T, base, step
  <2> QED
    BY <1>7 DEF IsFold
<1>10. \A S \in SUBSET (1..n) :
         fold[S] = IF S = {} THEN base ELSE Put(fold[S \ {Max(S)}], order[Max(S)])
  <2> SUFFICES ASSUME NEW S \in SUBSET (1..n), S # {}
               PROVE  step[Max(S)][fold[S \ {Max(S)}]] = Put(fold[S \ {Max(S)}], order[Max(S)])
    <3> HIDE DEF T, base, step, Put
    <3> QED
      BY <1>9
  <2>1. Max(S) \in 1..n /\ fold[S \ {Max(S)}] \in T
    <3> HIDE DEF T, base, step
    <3> QED
      BY <1>8, <1>9
  <2> HIDE DEF T, base, Put
  <2> QED
    BY <2>1, <1>1
<1>11. F(fold)
  <2> HIDE DEF T, base, step, Put
  <2> QED
    BY <1>9, <1>10, <1>1
<1>12. F(it)
  <2> HIDE DEF base, Put
  <2> QED
    BY <1>11, Zenon
<1>13. \A S \in SUBSET (1..n) : it[S] = IF S = {} THEN base ELSE Put(it[S \ {Max(S)}], order[Max(S)])
  <2> HIDE DEF base, Put, it
  <2> QED
    BY <1>12, <1>1
<1>14. PICK run : IsRun(run, n, T, base, step) /\ run[n] = it[1..n]
  <2>1. it[{}] = base
    <3> HIDE DEF base, Put, it
    <3> QED
      BY <1>13
  <2>2. ASSUME NEW S \in SUBSET (1..n), S # {}, it[S \ {Max(S)}] \in T
        PROVE  it[S] = step[Max(S)][it[S \ {Max(S)}]]
    <3>1. it[S] = Put(it[S \ {Max(S)}], order[Max(S)]) /\ Max(S) \in 1..n
      <4> HIDE DEF base, Put, it
      <4> QED
        BY <1>8, <1>13, <2>2
    <3> HIDE DEF T, Put, it
    <3> QED
      BY <3>1, <2>2, <1>1
  <2> HIDE DEF T, base, step, it
  <2>3. IsChain(it, n, T, base, step)
    BY <2>1, <2>2 DEF IsChain
  <2> QED
    BY <2>3, <1>6, <1>4, FoldFollows
<1>15. run \in [0..n -> T] /\ run[0] = base /\ \A k \in 1..n : run[k] = Put(run[k - 1], k)
  <2>1. run \in [0..n -> T] /\ run[0] = base /\ \A k \in 1..n : run[k] = step[k][run[k - 1]]
    <3> HIDE DEF T, base, step
    <3> QED
      BY <1>14 DEF IsRun
  <2>2. \A k \in 1..n : run[k - 1] \in T
    <3>1. \A k \in 1..n : k - 1 \in 0..n
      OBVIOUS
    <3> HIDE DEF T, base, step
    <3> QED
      BY <2>1, <3>1
  <2> HIDE DEF T, base, Put
  <2> QED
    BY <2>1, <2>2
<1>16. Scatter(offsets, keys, values) = run[n].array
  <2> HIDE DEF it
  <2> QED
    BY <1>1, <1>2, <1>14
<1> HIDE DEF it, F, step
<1> DEFINE Placed == {k \in 0..n : /\ \A i \in 0..(size - 1) :
                                        run[k].cursor[i] = offsets[i] + Cardinality(Earlier(keys, k + 1, i))
                                   /\ \A j \in 1..k : run[k].array[places[j]] = values[j]}
<1>17. /\ places \in [1..n -> 0..(n - 1)]
       /\ \A j, k \in 1..n : places[j] = places[k] => j = k
       /\ \A k \in 1..n : places[k] = offsets[keys[k]] + Cardinality(Earlier(keys, k, keys[k]))
  <2>1. ArePlaces(places, size, n, keys)
    BY PlacesExact
  <2> HIDE DEF places
  <2> QED
    BY <2>1 DEF ArePlaces, Bijection, Injection, IsInjective
<1>18. 0 \in Placed
  <2>1. ASSUME NEW i \in 0..(size - 1) PROVE offsets[i] + Cardinality(Earlier(keys, 1, i)) = offsets[i]
    <3>1. 1..(1 - 1) = {}
      OBVIOUS
    <3>2. Earlier(keys, 1, i) = {}
      BY <3>1 DEF Earlier
    <3>3. Cardinality(Earlier(keys, 1, i)) = 0
      BY <3>2, FS_EmptySet
    <3>4. offsets[i] \in Int
      <4> HIDE DEF offsets
      <4> QED
        BY <1>3
    <3> HIDE DEF offsets
    <3> QED
      BY <3>3, <3>4
  <2>2. run[0].cursor = offsets
    <3> HIDE DEF offsets, T, Put
    <3> QED
      BY <1>15
  <2>3. 0 + 1 = 1 /\ 1..0 = {} /\ 0 \in 0..n
    OBVIOUS
  <2> HIDE DEF offsets, base
  <2> QED
    BY <2>1, <2>2, <2>3
<1>19. ASSUME NEW k \in 0..(n - 1), k \in Placed PROVE k + 1 \in Placed
  <2> DEFINE m == k + 1
             at == places[m]
  <2>1. m \in 1..n /\ m \in 0..n /\ m - 1 = k
    OBVIOUS
  <2>2. /\ \A i \in 0..(size - 1) : run[k].cursor[i] = offsets[i] + Cardinality(Earlier(keys, m, i))
        /\ \A j \in 1..k : run[k].array[places[j]] = values[j]
    BY <1>19
  <2>3. /\ run[m].cursor = [run[k].cursor EXCEPT ![keys[m]] = @ + 1]
        /\ run[m].array = [run[k].array EXCEPT ![run[k].cursor[keys[m]]] = values[m]]
        /\ run[k].cursor \in [0..size -> Int] /\ run[k].array \in [0..(n - 1) -> X]
    <3>1. run[m] = Put(run[k], m) /\ run[k] \in T
      <4> HIDE DEF T, Put, base
      <4> QED
        BY <1>15, <2>1
    <3> QED
      BY SMTT(20), <3>1
  <2>4. run[k].cursor[keys[m]] = at
    <3> HIDE DEF offsets, places
    <3> QED
      BY <1>1, <1>17, <2>1, <2>2
  <2>5. ASSUME NEW i \in 0..(size - 1)
        PROVE  run[m].cursor[i] = offsets[i] + Cardinality(Earlier(keys, m + 1, i))
    <3>1. /\ Cardinality(Earlier(keys, m, i)) \in Nat
          /\ Cardinality(Earlier(keys, m + 1, i)) =
                IF keys[m] = i THEN Cardinality(Earlier(keys, m, i)) + 1 ELSE Cardinality(Earlier(keys, m, i))
      <4>1. keys \in [1..n -> Nat] /\ i \in Nat
        OBVIOUS
      <4> HIDE DEF m
      <4> QED
        BY <4>1, <2>1, EarlierGrows
    <3>2. i \in 0..size /\ offsets[i] \in Int
      <4> HIDE DEF offsets
      <4> QED
        BY <1>3
    <3>3. run[m].cursor[i] = IF keys[m] = i THEN run[k].cursor[i] + 1 ELSE run[k].cursor[i]
      <4> HIDE DEF m, X
      <4> QED
        BY <2>3, <3>2
    <3>4. run[k].cursor[i] = offsets[i] + Cardinality(Earlier(keys, m, i))
      BY <2>2
    <3> HIDE DEF m, offsets
    <3> QED
      BY SMTT(20), <3>1, <3>2, <3>3, <3>4
  <2>6. ASSUME NEW j \in 1..m PROVE run[m].array[places[j]] = values[j]
    <3>1. j \in 1..n /\ (j = m \/ j \in 1..k)
      BY <2>1
    <3>2. places[j] \in 0..(n - 1) /\ at \in 0..(n - 1) /\ (places[j] = at => j = m)
      <4> HIDE DEF places, m
      <4> QED
        BY <1>17, <2>1, <3>1
    <3>3. run[m].array[places[j]] = IF places[j] = at THEN values[m] ELSE run[k].array[places[j]]
      <4> HIDE DEF places, m, X
      <4> QED
        BY <2>3, <2>4, <3>2
    <3> HIDE DEF places, m
    <3> QED
      BY <3>1, <3>2, <3>3, <2>2
  <2> HIDE DEF places, offsets, T, Put, X
  <2> QED
    BY <2>1, <2>5, <2>6
<1>20. n \in Placed
  <2>1. 0..n \subseteq Placed
    <3> HIDE DEF Placed
    <3> QED
      BY <1>18, <1>19, NumberSteps
  <2> QED
    BY <2>1
<1> HIDE DEF places, offsets
<1> QED
  BY <1>16, <1>20 DEF places, offsets

(* So is each label, also where it is that of all and was never written. *)
LEMMA ScatterLabelsExact ==
  ASSUME NEW size \in Nat, NEW n \in Nat, NEW keys \in [1..n -> 0..(size - 1)], NEW labels
  PROVE  LET array == ScatterLabels(Offsets(size, keys), keys, labels)
         IN  \A k \in 1..n : array[Places(keys, n)[k]] = labels[k]
<1> DEFINE offsets == Offsets(size, keys)
           places == Places(keys, n)
           X == {labels[k] : k \in 1..n} \cup {labels[1]}
           Uniform(k) == \A j \in 1..k : labels[j] = labels[1]
           T == [cursor : [0..size -> Int], array : [0..(n - 1) -> X]]
           base == [cursor |-> offsets, array |-> [i \in 0..(Len(keys) - 1) |-> labels[1]]]
           Put(acc, k) == [cursor |-> [acc.cursor EXCEPT ![keys[k]] = @ + 1],
                           array |-> IF Uniform(k) THEN acc.array
                                     ELSE [acc.array EXCEPT ![acc.cursor[keys[k]]] = labels[k]]]
           step == [k \in 1..n |-> [acc \in T |-> Put(acc, k)]]
           order == [k \in DOMAIN keys |-> k]
           F(it) == it = [S \in SUBSET (DOMAIN order) |->
                            IF S = {} THEN base ELSE Put(it[S \ {Max(S)}], order[Max(S)])]
           it == CHOOSE it : F(it)
<1>1. DOMAIN keys = 1..n /\ DOMAIN order = 1..n /\ Len(keys) = n /\ \A k \in 1..n : keys[k] \in 0..(size - 1)
  <2>1. keys \in Seq(0..(size - 1))
    OBVIOUS
  <2> QED
    BY <2>1
<1>2. ScatterLabels(offsets, keys, labels) = it[DOMAIN order].array
  BY DEF ScatterLabels, FoldLeftDomain, FoldLeft, MapThenFoldSet
<1>3. offsets \in [0..size -> Int]
  <2>1. offsets \in [0..size -> 0..n]
    BY OffsetsExact
  <2> HIDE DEF offsets
  <2> QED
    BY <2>1
<1>4. base \in T
  <2>1. [i \in 0..(Len(keys) - 1) |-> labels[1]] \in [0..(n - 1) -> X]
    BY <1>1
  <2> HIDE DEF offsets, X
  <2> QED
    BY <1>3, <2>1
<1>5. \A acc \in T, k \in 1..n : Put(acc, k) \in T
  <2> SUFFICES ASSUME NEW acc \in T, NEW k \in 1..n PROVE Put(acc, k) \in T
    OBVIOUS
  <2>1. labels[k] \in X
    OBVIOUS
  <2>2. keys[k] \in 0..size
    BY <1>1
  <2> HIDE DEF X, Uniform
  <2>3. [acc.cursor EXCEPT ![keys[k]] = @ + 1] \in [0..size -> Int]
    BY <2>2
  <2>4. [acc.array EXCEPT ![acc.cursor[keys[k]]] = labels[k]] \in [0..(n - 1) -> X]
    BY <2>1
  <2> QED
    BY <2>3, <2>4
<1>6. step \in [1..n -> [T -> T]]
  <2> HIDE DEF T, Put
  <2> QED
    BY <1>4, <1>5
<1>7. PICK fold : IsFold(fold, n, T, base, step)
  <2> HIDE DEF T, base, step
  <2> QED
    BY <1>4, <1>6, FoldRuns
<1>8. \A S \in SUBSET (1..n) : S # {} => Max(S) \in 1..n /\ S \ {Max(S)} \in SUBSET (1..n)
  BY MaxOf
<1>9. /\ fold \in [SUBSET (1..n) -> T]
      /\ \A S \in SUBSET (1..n) :
            fold[S] = IF S = {} THEN base ELSE step[Max(S)][fold[S \ {Max(S)}]]
  <2> HIDE DEF T, base, step
  <2> QED
    BY <1>7 DEF IsFold
<1>10. \A S \in SUBSET (1..n) :
         fold[S] = IF S = {} THEN base ELSE Put(fold[S \ {Max(S)}], order[Max(S)])
  <2> SUFFICES ASSUME NEW S \in SUBSET (1..n), S # {}
               PROVE  step[Max(S)][fold[S \ {Max(S)}]] = Put(fold[S \ {Max(S)}], order[Max(S)])
    <3> HIDE DEF T, base, step, Put
    <3> QED
      BY <1>9
  <2>1. Max(S) \in 1..n /\ fold[S \ {Max(S)}] \in T
    <3> HIDE DEF T, base, step
    <3> QED
      BY <1>8, <1>9
  <2> HIDE DEF T, base, Put
  <2> QED
    BY <2>1, <1>1
<1>11. F(fold)
  <2> HIDE DEF T, base, step, Put
  <2> QED
    BY <1>9, <1>10, <1>1
<1>12. F(it)
  <2> HIDE DEF base, Put
  <2> QED
    BY <1>11, Zenon
<1>13. \A S \in SUBSET (1..n) : it[S] = IF S = {} THEN base ELSE Put(it[S \ {Max(S)}], order[Max(S)])
  <2> HIDE DEF base, Put, it
  <2> QED
    BY <1>12, <1>1
<1>14. PICK run : IsRun(run, n, T, base, step) /\ run[n] = it[1..n]
  <2>1. it[{}] = base
    <3> HIDE DEF base, Put, it
    <3> QED
      BY <1>13
  <2>2. ASSUME NEW S \in SUBSET (1..n), S # {}, it[S \ {Max(S)}] \in T
        PROVE  it[S] = step[Max(S)][it[S \ {Max(S)}]]
    <3>1. it[S] = Put(it[S \ {Max(S)}], order[Max(S)]) /\ Max(S) \in 1..n
      <4> HIDE DEF base, Put, it
      <4> QED
        BY <1>8, <1>13, <2>2
    <3> HIDE DEF T, Put, it
    <3> QED
      BY <3>1, <2>2, <1>1
  <2> HIDE DEF T, base, step, it
  <2>3. IsChain(it, n, T, base, step)
    BY <2>1, <2>2 DEF IsChain
  <2> QED
    BY <2>3, <1>6, <1>4, FoldFollows
<1>15. run \in [0..n -> T] /\ run[0] = base /\ \A k \in 1..n : run[k] = Put(run[k - 1], k)
  <2>1. run \in [0..n -> T] /\ run[0] = base /\ \A k \in 1..n : run[k] = step[k][run[k - 1]]
    <3> HIDE DEF T, base, step
    <3> QED
      BY <1>14 DEF IsRun
  <2>2. \A k \in 1..n : run[k - 1] \in T
    <3>1. \A k \in 1..n : k - 1 \in 0..n
      OBVIOUS
    <3> HIDE DEF T, base, step
    <3> QED
      BY <2>1, <3>1
  <2> HIDE DEF T, base, Put
  <2> QED
    BY <2>1, <2>2
<1>16. ScatterLabels(offsets, keys, labels) = run[n].array
  <2> HIDE DEF it
  <2> QED
    BY <1>1, <1>2, <1>14
<1> HIDE DEF it, F, step
<1> DEFINE Placed == {k \in 0..n : /\ \A i \in 0..(size - 1) :
                                        run[k].cursor[i] = offsets[i] + Cardinality(Earlier(keys, k + 1, i))
                                   /\ \A j \in 1..k : run[k].array[places[j]] = labels[j]
                                   /\ \A j \in (k + 1)..n : run[k].array[places[j]] = labels[1]}
<1>17. /\ places \in [1..n -> 0..(n - 1)]
       /\ \A j, k \in 1..n : places[j] = places[k] => j = k
       /\ \A k \in 1..n : places[k] = offsets[keys[k]] + Cardinality(Earlier(keys, k, keys[k]))
  <2>1. ArePlaces(places, size, n, keys)
    BY PlacesExact
  <2> HIDE DEF places
  <2> QED
    BY <2>1 DEF ArePlaces, Bijection, Injection, IsInjective
<1>18. 0 \in Placed
  <2>1. ASSUME NEW i \in 0..(size - 1) PROVE offsets[i] + Cardinality(Earlier(keys, 1, i)) = offsets[i]
    <3>1. 1..(1 - 1) = {}
      OBVIOUS
    <3>2. Earlier(keys, 1, i) = {}
      BY <3>1 DEF Earlier
    <3>3. Cardinality(Earlier(keys, 1, i)) = 0
      BY <3>2, FS_EmptySet
    <3>4. offsets[i] \in Int
      <4> HIDE DEF offsets
      <4> QED
        BY <1>3
    <3> HIDE DEF offsets
    <3> QED
      BY <3>3, <3>4
  <2>2. run[0].cursor = offsets
    <3> HIDE DEF offsets, T, Put
    <3> QED
      BY <1>15
  <2>3. 0 + 1 = 1 /\ 1..0 = {} /\ 0 \in 0..n
    OBVIOUS
  <2>4. \A j \in 1..n : run[0].array[places[j]] = labels[1]
    <3>1. run[0].array = [i \in 0..(n - 1) |-> labels[1]]
      <4>1. run[0].array = base.array
        <5> HIDE DEF base, T, Put
        <5> QED
          BY <1>15
      <4> QED
        BY <4>1, <1>1
    <3> HIDE DEF places
    <3> QED
      BY <3>1, <1>17
  <2> HIDE DEF offsets, base, places
  <2> QED
    BY <2>1, <2>2, <2>3, <2>4
<1>19. ASSUME NEW k \in 0..(n - 1), k \in Placed PROVE k + 1 \in Placed
  <2> DEFINE m == k + 1
             at == places[m]
  <2>1. m \in 1..n /\ m \in 0..n /\ m - 1 = k
    OBVIOUS
  <2>2. /\ \A i \in 0..(size - 1) : run[k].cursor[i] = offsets[i] + Cardinality(Earlier(keys, m, i))
        /\ \A j \in 1..k : run[k].array[places[j]] = labels[j]
        /\ \A j \in (k + 1)..n : run[k].array[places[j]] = labels[1]
    BY <1>19
  <2>3. /\ run[m].cursor = [run[k].cursor EXCEPT ![keys[m]] = @ + 1]
        /\ run[m].array = IF Uniform(m) THEN run[k].array
                           ELSE [run[k].array EXCEPT ![run[k].cursor[keys[m]]] = labels[m]]
        /\ run[k].cursor \in [0..size -> Int] /\ run[k].array \in [0..(n - 1) -> X]
    <3>1. run[m] = Put(run[k], m) /\ run[k] \in T
      <4> HIDE DEF T, Put, base
      <4> QED
        BY <1>15, <2>1
    <3> HIDE DEF X, Uniform, m
    <3>2. run[k].cursor \in [0..size -> Int] /\ run[k].array \in [0..(n - 1) -> X]
      BY <3>1
    <3>3. /\ Put(run[k], m).cursor = [run[k].cursor EXCEPT ![keys[m]] = @ + 1]
          /\ Put(run[k], m).array = IF Uniform(m) THEN run[k].array
                                    ELSE [run[k].array EXCEPT ![run[k].cursor[keys[m]]] = labels[m]]
      BY Zenon
    <3> HIDE DEF Put
    <3> QED
      BY <3>1, <3>2, <3>3
  <2>4. run[k].cursor[keys[m]] = at
    <3> HIDE DEF offsets, places
    <3> QED
      BY <1>1, <1>17, <2>1, <2>2
  <2>5. ASSUME NEW i \in 0..(size - 1)
        PROVE  run[m].cursor[i] = offsets[i] + Cardinality(Earlier(keys, m + 1, i))
    <3>1. /\ Cardinality(Earlier(keys, m, i)) \in Nat
          /\ Cardinality(Earlier(keys, m + 1, i)) =
                IF keys[m] = i THEN Cardinality(Earlier(keys, m, i)) + 1 ELSE Cardinality(Earlier(keys, m, i))
      <4>1. keys \in [1..n -> Nat] /\ i \in Nat
        OBVIOUS
      <4> HIDE DEF m
      <4> QED
        BY <4>1, <2>1, EarlierGrows
    <3>2. i \in 0..size /\ offsets[i] \in Int
      <4> HIDE DEF offsets
      <4> QED
        BY <1>3
    <3>3. run[m].cursor[i] = IF keys[m] = i THEN run[k].cursor[i] + 1 ELSE run[k].cursor[i]
      <4> HIDE DEF m, X, Uniform
      <4> QED
        BY <2>3, <3>2
    <3>4. run[k].cursor[i] = offsets[i] + Cardinality(Earlier(keys, m, i))
      BY <2>2
    <3> HIDE DEF m, offsets
    <3> QED
      BY SMTT(20), <3>1, <3>2, <3>3, <3>4
  <2>6. ASSUME NEW j \in 1..n
        PROVE  run[m].array[places[j]] = IF ~Uniform(m) /\ j = m THEN labels[m] ELSE run[k].array[places[j]]
    <3>1. places[j] \in 0..(n - 1) /\ at \in 0..(n - 1) /\ (places[j] = at <=> j = m)
      <4> HIDE DEF places, m
      <4> QED
        BY <1>17, <2>1
    <3> HIDE DEF places, m, X, Uniform
    <3> QED
      BY <2>3, <2>4, <3>1
  <2>7. ASSUME NEW j \in 1..m PROVE run[m].array[places[j]] = labels[j]
    <3>1. j \in 1..n /\ (j = m \/ j \in 1..k) /\ m \in (k + 1)..n
      BY <2>1
    <3>2. Uniform(m) => labels[m] = labels[1]
      BY <2>1
    <3> HIDE DEF places, m, Uniform
    <3>3. CASE j = m
      BY <3>1, <3>2, <3>3, <2>2, <2>6
    <3>4. CASE j \in 1..k /\ j # m
      BY <3>1, <3>4, <2>2, <2>6
    <3> QED
      BY <3>1, <3>3, <3>4
  <2>8. ASSUME NEW j \in (m + 1)..n PROVE run[m].array[places[j]] = labels[1]
    <3>1. j \in 1..n /\ j # m /\ j \in (k + 1)..n
      BY <2>1
    <3> HIDE DEF places, m, Uniform
    <3> QED
      BY <3>1, <2>2, <2>6
  <2> HIDE DEF places, offsets, T, Put, X
  <2> QED
    BY <2>1, <2>5, <2>7, <2>8
<1>20. n \in Placed
  <2>1. 0..n \subseteq Placed
    <3> HIDE DEF Placed
    <3> QED
      BY <1>18, <1>19, NumberSteps
  <2> QED
    BY <2>1
<1> HIDE DEF places, offsets
<1> QED
  BY <1>16, <1>20 DEF places, offsets

-----------------------------------------------------------------------------
(* The dictionary gives each label one id, and keeps those it has given. *)
IsDict(dict) ==
  /\ dict \in Seq(STRING)
  /\ \A i, j \in 1..Len(dict) : dict[i] = dict[j] => i = j

Grown(dict, old) ==
  /\ IsDict(dict)
  /\ Len(old) <= Len(dict)
  /\ \A i \in 1..Len(old) : dict[i] = old[i]

Known(dict, label) == \E i \in 1..Len(dict) : dict[i] = label

(* A dictionary that grew twice grew. *)
LEMMA GrownMore ==
  ASSUME NEW a, NEW b, NEW c, IsDict(a), Grown(b, a), Grown(c, b)
  PROVE  Grown(c, a) /\ \A label : Known(a, label) => Known(c, label)
<1>1. Len(a) \in Nat /\ Len(b) \in Nat /\ Len(c) \in Nat
  BY DEF Grown, IsDict
<1>2. \A i \in 1..Len(a) : i \in 1..Len(b) /\ i \in 1..Len(c) /\ c[i] = a[i]
  BY <1>1 DEF Grown
<1> QED
  BY <1>1, <1>2 DEF Grown, Known

(* CsrLabelId adds the label at the end if it is missing and changes nothing else. *)
LEMMA CsrLabelIdExact ==
  ASSUME NEW dict, IsDict(dict), NEW label \in STRING
  PROVE  Grown(CsrLabelId(dict, label), dict) /\ Known(CsrLabelId(dict, label), label)
<1>1. CASE Contains(dict, label)
  <2>1. CsrLabelId(dict, label) = dict
    BY <1>1 DEF CsrLabelId
  <2>2. Len(dict) \in Nat
    BY DEF IsDict
  <2>3. Known(dict, label)
    BY <1>1 DEF Contains, Known
  <2>4. Grown(dict, dict)
    BY <2>2 DEF Grown
  <2> QED
    BY <2>1, <2>3, <2>4
<1>2. CASE ~Contains(dict, label)
  <2> DEFINE new == Append(dict, label)
  <2>1. CsrLabelId(dict, label) = new
    BY <1>2 DEF CsrLabelId
  <2>2. dict \in Seq(STRING) /\ Len(dict) \in Nat
    BY DEF IsDict
  <2>3. /\ new \in Seq(STRING) /\ Len(new) = Len(dict) + 1 /\ new[Len(dict) + 1] = label
        /\ \A i \in 1..Len(dict) : new[i] = dict[i]
    <3> DEFINE strings == STRING
    <3>1. dict \in Seq(strings) /\ label \in strings
      BY <2>2
    <3> HIDE DEF strings
    <3>2. /\ new \in Seq(strings) /\ Len(new) = Len(dict) + 1 /\ new[Len(dict) + 1] = label
          /\ \A i \in 1..Len(dict) : new[i] = dict[i]
      BY <3>1, AppendedTo
    <3> QED
      BY <3>2 DEF strings
  <2>4. \A i \in 1..Len(new) : i = Len(dict) + 1 \/ (i \in 1..Len(dict) /\ new[i] = dict[i] /\ dict[i] # label)
    <3>1. \A i \in 1..Len(dict) : dict[i] # label
      BY <1>2 DEF Contains
    <3>2. \A i \in 1..(Len(dict) + 1) : i = Len(dict) + 1 \/ i \in 1..Len(dict)
      BY <2>2
    <3> HIDE DEF new
    <3> QED
      BY <2>3, <3>1, <3>2
  <2>5. \A i, j \in 1..Len(dict) : dict[i] = dict[j] => i = j
    BY DEF IsDict
  <2> HIDE DEF new
  <2>6. ASSUME NEW i \in 1..Len(new), NEW j \in 1..Len(new), new[i] = new[j] PROVE i = j
    BY <2>3, <2>4, <2>5, <2>6
  <2>7. Grown(new, dict)
    BY <2>2, <2>3, <2>6 DEF Grown, IsDict
  <2>8. Known(new, label)
    <3>1. Len(dict) + 1 \in 1..Len(new)
      BY <2>2, <2>3
    <3> QED
      BY <2>3, <3>1 DEF Known
  <2> QED
    BY <2>1, <2>7, <2>8
<1> QED
  BY <1>1, <1>2

(* Each label is in the dictionary after it was added. *)
LEMMA AddLabelsExact ==
  ASSUME NEW dict, IsDict(dict), NEW labels \in Seq(STRING)
  PROVE  /\ Grown(AddLabels(dict, labels), dict)
         /\ \A k \in 1..Len(labels) : Known(AddLabels(dict, labels), labels[k])
<1> DEFINE n == Len(labels)
           T == {d \in Seq(STRING) : IsDict(d)}
           base == dict
           Put(d, k) == CsrLabelId(d, labels[k])
           step == [k \in 1..n |-> [d \in T |-> Put(d, k)]]
           F(it) == it = [S \in SUBSET (DOMAIN labels) |->
                            IF S = {} THEN base ELSE Put(it[S \ {Max(S)}], Max(S))]
           it == CHOOSE it : F(it)
<1>0. n \in Nat
  OBVIOUS
<1>1. n \in Nat /\ DOMAIN labels = 1..n /\ \A k \in 1..n : labels[k] \in STRING
  OBVIOUS
<1>2. AddLabels(dict, labels) = it[DOMAIN labels]
  BY DEF AddLabels, FoldLeft, MapThenFoldSet
<1>3. ASSUME NEW d \in T, NEW k \in 1..n
      PROVE  Grown(Put(d, k), d) /\ Known(Put(d, k), labels[k])
  <2>1. IsDict(d) /\ labels[k] \in STRING
    BY <1>1
  <2> QED
    BY <2>1, CsrLabelIdExact
<1>4. base \in T
  BY DEF IsDict
<1>5. \A d \in T, k \in 1..n : Put(d, k) \in T
  <2> SUFFICES ASSUME NEW d \in T, NEW k \in 1..n PROVE Put(d, k) \in T
    OBVIOUS
  <2>1. Grown(Put(d, k), d)
    BY <1>3
  <2> HIDE DEF Put
  <2> QED
    BY <2>1 DEF Grown, IsDict
<1> HIDE DEF n
<1>6. step \in [1..n -> [T -> T]]
  <2> HIDE DEF T, Put
  <2> QED
    BY <1>1, <1>5
<1>7. PICK fold : IsFold(fold, n, T, base, step)
  <2> HIDE DEF T, base, step
  <2> QED
    BY <1>0, <1>4, <1>6, FoldRuns
<1>8. \A S \in SUBSET (1..n) : S # {} => Max(S) \in 1..n /\ S \ {Max(S)} \in SUBSET (1..n)
  BY <1>0, MaxOf
<1>9. /\ fold \in [SUBSET (1..n) -> T]
      /\ \A S \in SUBSET (1..n) :
            fold[S] = IF S = {} THEN base ELSE step[Max(S)][fold[S \ {Max(S)}]]
  <2> HIDE DEF T, base, step
  <2> QED
    BY <1>7 DEF IsFold
<1>10. \A S \in SUBSET (1..n) :
         fold[S] = IF S = {} THEN base ELSE Put(fold[S \ {Max(S)}], Max(S))
  <2> SUFFICES ASSUME NEW S \in SUBSET (1..n), S # {}
               PROVE  step[Max(S)][fold[S \ {Max(S)}]] = Put(fold[S \ {Max(S)}], Max(S))
    <3> HIDE DEF T, base, step, Put
    <3> QED
      BY <1>9
  <2>1. Max(S) \in 1..n /\ fold[S \ {Max(S)}] \in T
    <3> HIDE DEF T, base, step
    <3> QED
      BY <1>8, <1>9
  <2> HIDE DEF T, base, Put
  <2> QED
    BY <2>1, <1>1
<1>11. F(fold)
  <2> HIDE DEF T, base, step, Put
  <2> QED
    BY <1>9, <1>10, <1>1
<1>12. F(it)
  <2> HIDE DEF base, Put
  <2> QED
    BY <1>11, Zenon
<1>13. \A S \in SUBSET (1..n) : it[S] = IF S = {} THEN base ELSE Put(it[S \ {Max(S)}], Max(S))
  <2> HIDE DEF base, Put, it
  <2> QED
    BY <1>12, <1>1
<1>14. PICK run : IsRun(run, n, T, base, step) /\ run[n] = it[1..n]
  <2>1. it[{}] = base
    <3> HIDE DEF base, Put, it
    <3> QED
      BY <1>13
  <2>2. ASSUME NEW S \in SUBSET (1..n), S # {}, it[S \ {Max(S)}] \in T
        PROVE  it[S] = step[Max(S)][it[S \ {Max(S)}]]
    <3>1. it[S] = Put(it[S \ {Max(S)}], Max(S)) /\ Max(S) \in 1..n
      <4> HIDE DEF base, Put, it
      <4> QED
        BY <1>8, <1>13, <2>2
    <3> HIDE DEF T, Put, it
    <3> QED
      BY <3>1, <2>2, <1>1
  <2> HIDE DEF T, base, step, it
  <2>3. IsChain(it, n, T, base, step)
    BY <2>1, <2>2 DEF IsChain
  <2> QED
    BY <2>3, <1>6, <1>0, <1>4, FoldFollows
<1>15. run \in [0..n -> T] /\ run[0] = base /\ \A k \in 1..n : run[k] = Put(run[k - 1], k)
  <2>1. run \in [0..n -> T] /\ run[0] = base /\ \A k \in 1..n : run[k] = step[k][run[k - 1]]
    <3> HIDE DEF T, base, step
    <3> QED
      BY <1>14 DEF IsRun
  <2>2. \A k \in 1..n : run[k - 1] \in T
    <3>1. \A k \in 1..n : k - 1 \in 0..n
      BY <1>0
    <3> HIDE DEF T, base, step
    <3> QED
      BY <2>1, <3>1
  <2> HIDE DEF T, base, Put
  <2> QED
    BY <2>1, <2>2
<1>16. AddLabels(dict, labels) = run[n]
  <2> HIDE DEF it
  <2> QED
    BY <1>1, <1>2, <1>14
<1> HIDE DEF it, F, step
<1> DEFINE Holds == {k \in 0..n : /\ Grown(run[k], dict)
                                  /\ \A j \in 1..k : Known(run[k], labels[j])}
<1>17. 0 \in Holds
  <2>1. Len(dict) \in Nat
    BY DEF IsDict
  <2> HIDE DEF T, Put
  <2> QED
    BY <1>1, <1>15, <2>1 DEF Grown
<1>18. ASSUME NEW k \in 0..(n - 1), k \in Holds PROVE k + 1 \in Holds
  <2> DEFINE m == k + 1
  <2>1. m \in 1..n /\ m \in 0..n /\ m - 1 = k /\ k \in 0..n
    BY <1>1
  <2>2. run[m] = Put(run[k], m) /\ run[k] \in T
    <3> HIDE DEF T, Put, base, m
    <3> QED
      BY <1>15, <2>1
  <2>3. Grown(run[m], run[k]) /\ Known(run[m], labels[m])
    <3> HIDE DEF T, Put, m
    <3> QED
      BY <1>3, <2>1, <2>2
  <2>4. Grown(run[k], dict) /\ \A j \in 1..k : Known(run[k], labels[j])
    BY <1>18
  <2>5. IsDict(run[k])
    BY <2>2
  <2>6. \A label : Known(run[k], label) => Known(run[m], label)
    <3>1. Grown(run[k], run[k])
      <4>1. Len(run[k]) \in Nat
        BY <2>5 DEF IsDict
      <4> QED
        BY <2>5, <4>1 DEF Grown
    <3> HIDE DEF m
    <3> QED
      BY <2>3, <2>5, <3>1, GrownMore
  <2>7. Grown(run[m], dict)
    <3> HIDE DEF m
    <3> QED
      BY <2>3, <2>4, GrownMore
  <2>8. \A j \in 1..m : j = m \/ j \in 1..k
    BY <2>1
  <2> HIDE DEF T, Put
  <2> QED
    BY <2>1, <2>3, <2>4, <2>6, <2>7, <2>8
<1>19. 0..n \subseteq Holds
  <2> HIDE DEF Holds
  <2> QED
    BY <1>1, <1>17, <1>18, NumberSteps
<1>20. n \in Holds
  BY <1>1, <1>19
<1> QED
  BY <1>16, <1>20 DEF n

(* So is each label of a vertex. *)
LEMMA VertexDictExact ==
  ASSUME NEW vertices \in Seq(VertexRow)
  PROVE  /\ Grown(VertexDict(vertices), <<>>)
         /\ \A k \in 1..Len(vertices) : \A i \in 1..Len(vertices[k].labels) : Known(VertexDict(vertices), vertices[k].labels[i])
<1> DEFINE n == Len(vertices)
           T == {d \in Seq(STRING) : IsDict(d)}
           base == <<>>
           Put(d, k) == AddLabels(d, vertices[k].labels)
           step == [k \in 1..n |-> [d \in T |-> Put(d, k)]]
           F(it) == it = [S \in SUBSET (DOMAIN vertices) |->
                            IF S = {} THEN base ELSE Put(it[S \ {Max(S)}], Max(S))]
           it == CHOOSE it : F(it)
<1>0. n \in Nat
  OBVIOUS
<1>1. n \in Nat /\ DOMAIN vertices = 1..n /\ \A k \in 1..n : vertices[k] \in VertexRow
  OBVIOUS
<1>2. VertexDict(vertices) = it[DOMAIN vertices]
  BY DEF VertexDict, FoldLeft, MapThenFoldSet
<1>3. ASSUME NEW d \in T, NEW k \in 1..n
      PROVE  Grown(Put(d, k), d) /\ \A i \in 1..Len(vertices[k].labels) : Known(Put(d, k), vertices[k].labels[i])
  <2>1. IsDict(d) /\ vertices[k].labels \in Seq(STRING)
    BY <1>1 DEF VertexRow
  <2> QED
    BY <2>1, AddLabelsExact
<1>4. base \in T
  BY DEF IsDict
<1>5. \A d \in T, k \in 1..n : Put(d, k) \in T
  <2> SUFFICES ASSUME NEW d \in T, NEW k \in 1..n PROVE Put(d, k) \in T
    OBVIOUS
  <2>1. Grown(Put(d, k), d)
    BY <1>3
  <2> HIDE DEF Put
  <2> QED
    BY <2>1 DEF Grown, IsDict
<1> HIDE DEF n
<1>6. step \in [1..n -> [T -> T]]
  <2> HIDE DEF T, Put
  <2> QED
    BY <1>1, <1>5
<1>7. PICK fold : IsFold(fold, n, T, base, step)
  <2> HIDE DEF T, base, step
  <2> QED
    BY <1>0, <1>4, <1>6, FoldRuns
<1>8. \A S \in SUBSET (1..n) : S # {} => Max(S) \in 1..n /\ S \ {Max(S)} \in SUBSET (1..n)
  BY <1>0, MaxOf
<1>9. /\ fold \in [SUBSET (1..n) -> T]
      /\ \A S \in SUBSET (1..n) :
            fold[S] = IF S = {} THEN base ELSE step[Max(S)][fold[S \ {Max(S)}]]
  <2> HIDE DEF T, base, step
  <2> QED
    BY <1>7 DEF IsFold
<1>10. \A S \in SUBSET (1..n) :
         fold[S] = IF S = {} THEN base ELSE Put(fold[S \ {Max(S)}], Max(S))
  <2> SUFFICES ASSUME NEW S \in SUBSET (1..n), S # {}
               PROVE  step[Max(S)][fold[S \ {Max(S)}]] = Put(fold[S \ {Max(S)}], Max(S))
    <3> HIDE DEF T, base, step, Put
    <3> QED
      BY <1>9
  <2>1. Max(S) \in 1..n /\ fold[S \ {Max(S)}] \in T
    <3> HIDE DEF T, base, step
    <3> QED
      BY <1>8, <1>9
  <2> HIDE DEF T, base, Put
  <2> QED
    BY <2>1, <1>1
<1>11. F(fold)
  <2> HIDE DEF T, base, step, Put
  <2> QED
    BY <1>9, <1>10, <1>1
<1>12. F(it)
  <2> HIDE DEF base, Put
  <2> QED
    BY <1>11, Zenon
<1>13. \A S \in SUBSET (1..n) : it[S] = IF S = {} THEN base ELSE Put(it[S \ {Max(S)}], Max(S))
  <2> HIDE DEF base, Put, it
  <2> QED
    BY <1>12, <1>1
<1>14. PICK run : IsRun(run, n, T, base, step) /\ run[n] = it[1..n]
  <2>1. it[{}] = base
    <3> HIDE DEF base, Put, it
    <3> QED
      BY <1>13
  <2>2. ASSUME NEW S \in SUBSET (1..n), S # {}, it[S \ {Max(S)}] \in T
        PROVE  it[S] = step[Max(S)][it[S \ {Max(S)}]]
    <3>1. it[S] = Put(it[S \ {Max(S)}], Max(S)) /\ Max(S) \in 1..n
      <4> HIDE DEF base, Put, it
      <4> QED
        BY <1>8, <1>13, <2>2
    <3> HIDE DEF T, Put, it
    <3> QED
      BY <3>1, <2>2, <1>1
  <2> HIDE DEF T, base, step, it
  <2>3. IsChain(it, n, T, base, step)
    BY <2>1, <2>2 DEF IsChain
  <2> QED
    BY <2>3, <1>6, <1>0, <1>4, FoldFollows
<1>15. run \in [0..n -> T] /\ run[0] = base /\ \A k \in 1..n : run[k] = Put(run[k - 1], k)
  <2>1. run \in [0..n -> T] /\ run[0] = base /\ \A k \in 1..n : run[k] = step[k][run[k - 1]]
    <3> HIDE DEF T, base, step
    <3> QED
      BY <1>14 DEF IsRun
  <2>2. \A k \in 1..n : run[k - 1] \in T
    <3>1. \A k \in 1..n : k - 1 \in 0..n
      BY <1>0
    <3> HIDE DEF T, base, step
    <3> QED
      BY <2>1, <3>1
  <2> HIDE DEF T, base, Put
  <2> QED
    BY <2>1, <2>2
<1>16. VertexDict(vertices) = run[n]
  <2> HIDE DEF it
  <2> QED
    BY <1>1, <1>2, <1>14
<1> HIDE DEF it, F, step
<1> DEFINE Holds == {k \in 0..n : /\ Grown(run[k], <<>>)
                                  /\ \A j \in 1..k : \A i \in 1..Len(vertices[j].labels) : Known(run[k], vertices[j].labels[i])}
<1>17. 0 \in Holds
  <2>1. Len(<<>>) \in Nat /\ IsDict(<<>>)
    BY DEF IsDict
  <2> HIDE DEF T, Put
  <2> QED
    BY <1>1, <1>15, <2>1 DEF Grown
<1>18. ASSUME NEW k \in 0..(n - 1), k \in Holds PROVE k + 1 \in Holds
  <2> DEFINE m == k + 1
  <2>1. m \in 1..n /\ m \in 0..n /\ m - 1 = k /\ k \in 0..n
    BY <1>1
  <2>2. run[m] = Put(run[k], m) /\ run[k] \in T
    <3> HIDE DEF T, Put, base, m
    <3> QED
      BY <1>15, <2>1
  <2>3. Grown(run[m], run[k]) /\ \A i \in 1..Len(vertices[m].labels) : Known(run[m], vertices[m].labels[i])
    <3> HIDE DEF T, Put, m
    <3> QED
      BY <1>3, <2>1, <2>2
  <2>4. Grown(run[k], <<>>) /\ \A j \in 1..k : \A i \in 1..Len(vertices[j].labels) : Known(run[k], vertices[j].labels[i])
    BY <1>18
  <2>5. IsDict(run[k])
    BY <2>2
  <2>6. \A label : Known(run[k], label) => Known(run[m], label)
    <3>1. Grown(run[k], run[k])
      <4>1. Len(run[k]) \in Nat
        BY <2>5 DEF IsDict
      <4> QED
        BY <2>5, <4>1 DEF Grown
    <3> HIDE DEF m
    <3> QED
      BY <2>3, <2>5, <3>1, GrownMore
  <2>7. Grown(run[m], <<>>)
    <3> HIDE DEF m
    <3> QED
      <4>1. IsDict(<<>>)
        BY DEF IsDict
      <4> QED
        BY <2>3, <2>4, <4>1, GrownMore
  <2>8. \A j \in 1..m : j = m \/ j \in 1..k
    BY <2>1
  <2> HIDE DEF T, Put
  <2> QED
    BY <2>1, <2>3, <2>4, <2>6, <2>7, <2>8
<1>19. 0..n \subseteq Holds
  <2> HIDE DEF Holds
  <2> QED
    BY <1>1, <1>17, <1>18, NumberSteps
<1>20. n \in Holds
  BY <1>1, <1>19
<1> QED
  BY <1>16, <1>20 DEF n

(* And each label of an edge. *)
LEMMA EdgeDictExact ==
  ASSUME NEW dict, IsDict(dict), NEW edges \in Seq(EdgeRow)
  PROVE  /\ Grown(EdgeDict(dict, edges), dict)
         /\ \A k \in 1..Len(edges) : Known(EdgeDict(dict, edges), edges[k].label)
<1> DEFINE n == Len(edges)
           T == {d \in Seq(STRING) : IsDict(d)}
           base == dict
           Put(d, k) == CsrLabelId(d, edges[k].label)
           step == [k \in 1..n |-> [d \in T |-> Put(d, k)]]
           F(it) == it = [S \in SUBSET (DOMAIN edges) |->
                            IF S = {} THEN base ELSE Put(it[S \ {Max(S)}], Max(S))]
           it == CHOOSE it : F(it)
<1>0. n \in Nat
  OBVIOUS
<1>1. n \in Nat /\ DOMAIN edges = 1..n /\ \A k \in 1..n : edges[k] \in EdgeRow
  OBVIOUS
<1>2. EdgeDict(dict, edges) = it[DOMAIN edges]
  BY DEF EdgeDict, FoldLeft, MapThenFoldSet
<1>3. ASSUME NEW d \in T, NEW k \in 1..n
      PROVE  Grown(Put(d, k), d) /\ Known(Put(d, k), edges[k].label)
  <2>1. IsDict(d) /\ edges[k].label \in STRING
    BY <1>1 DEF EdgeRow
  <2> QED
    BY <2>1, CsrLabelIdExact
<1>4. base \in T
  BY DEF IsDict
<1>5. \A d \in T, k \in 1..n : Put(d, k) \in T
  <2> SUFFICES ASSUME NEW d \in T, NEW k \in 1..n PROVE Put(d, k) \in T
    OBVIOUS
  <2>1. Grown(Put(d, k), d)
    BY <1>3
  <2> HIDE DEF Put
  <2> QED
    BY <2>1 DEF Grown, IsDict
<1> HIDE DEF n
<1>6. step \in [1..n -> [T -> T]]
  <2> HIDE DEF T, Put
  <2> QED
    BY <1>1, <1>5
<1>7. PICK fold : IsFold(fold, n, T, base, step)
  <2> HIDE DEF T, base, step
  <2> QED
    BY <1>0, <1>4, <1>6, FoldRuns
<1>8. \A S \in SUBSET (1..n) : S # {} => Max(S) \in 1..n /\ S \ {Max(S)} \in SUBSET (1..n)
  BY <1>0, MaxOf
<1>9. /\ fold \in [SUBSET (1..n) -> T]
      /\ \A S \in SUBSET (1..n) :
            fold[S] = IF S = {} THEN base ELSE step[Max(S)][fold[S \ {Max(S)}]]
  <2> HIDE DEF T, base, step
  <2> QED
    BY <1>7 DEF IsFold
<1>10. \A S \in SUBSET (1..n) :
         fold[S] = IF S = {} THEN base ELSE Put(fold[S \ {Max(S)}], Max(S))
  <2> SUFFICES ASSUME NEW S \in SUBSET (1..n), S # {}
               PROVE  step[Max(S)][fold[S \ {Max(S)}]] = Put(fold[S \ {Max(S)}], Max(S))
    <3> HIDE DEF T, base, step, Put
    <3> QED
      BY <1>9
  <2>1. Max(S) \in 1..n /\ fold[S \ {Max(S)}] \in T
    <3> HIDE DEF T, base, step
    <3> QED
      BY <1>8, <1>9
  <2> HIDE DEF T, base, Put
  <2> QED
    BY <2>1, <1>1
<1>11. F(fold)
  <2> HIDE DEF T, base, step, Put
  <2> QED
    BY <1>9, <1>10, <1>1
<1>12. F(it)
  <2> HIDE DEF base, Put
  <2> QED
    BY <1>11, Zenon
<1>13. \A S \in SUBSET (1..n) : it[S] = IF S = {} THEN base ELSE Put(it[S \ {Max(S)}], Max(S))
  <2> HIDE DEF base, Put, it
  <2> QED
    BY <1>12, <1>1
<1>14. PICK run : IsRun(run, n, T, base, step) /\ run[n] = it[1..n]
  <2>1. it[{}] = base
    <3> HIDE DEF base, Put, it
    <3> QED
      BY <1>13
  <2>2. ASSUME NEW S \in SUBSET (1..n), S # {}, it[S \ {Max(S)}] \in T
        PROVE  it[S] = step[Max(S)][it[S \ {Max(S)}]]
    <3>1. it[S] = Put(it[S \ {Max(S)}], Max(S)) /\ Max(S) \in 1..n
      <4> HIDE DEF base, Put, it
      <4> QED
        BY <1>8, <1>13, <2>2
    <3> HIDE DEF T, Put, it
    <3> QED
      BY <3>1, <2>2, <1>1
  <2> HIDE DEF T, base, step, it
  <2>3. IsChain(it, n, T, base, step)
    BY <2>1, <2>2 DEF IsChain
  <2> QED
    BY <2>3, <1>6, <1>0, <1>4, FoldFollows
<1>15. run \in [0..n -> T] /\ run[0] = base /\ \A k \in 1..n : run[k] = Put(run[k - 1], k)
  <2>1. run \in [0..n -> T] /\ run[0] = base /\ \A k \in 1..n : run[k] = step[k][run[k - 1]]
    <3> HIDE DEF T, base, step
    <3> QED
      BY <1>14 DEF IsRun
  <2>2. \A k \in 1..n : run[k - 1] \in T
    <3>1. \A k \in 1..n : k - 1 \in 0..n
      BY <1>0
    <3> HIDE DEF T, base, step
    <3> QED
      BY <2>1, <3>1
  <2> HIDE DEF T, base, Put
  <2> QED
    BY <2>1, <2>2
<1>16. EdgeDict(dict, edges) = run[n]
  <2> HIDE DEF it
  <2> QED
    BY <1>1, <1>2, <1>14
<1> HIDE DEF it, F, step
<1> DEFINE Holds == {k \in 0..n : /\ Grown(run[k], dict)
                                  /\ \A j \in 1..k : Known(run[k], edges[j].label)}
<1>17. 0 \in Holds
  <2>1. Len(dict) \in Nat
    BY DEF IsDict
  <2> HIDE DEF T, Put
  <2> QED
    BY <1>1, <1>15, <2>1 DEF Grown
<1>18. ASSUME NEW k \in 0..(n - 1), k \in Holds PROVE k + 1 \in Holds
  <2> DEFINE m == k + 1
  <2>1. m \in 1..n /\ m \in 0..n /\ m - 1 = k /\ k \in 0..n
    BY <1>1
  <2>2. run[m] = Put(run[k], m) /\ run[k] \in T
    <3> HIDE DEF T, Put, base, m
    <3> QED
      BY <1>15, <2>1
  <2>3. Grown(run[m], run[k]) /\ Known(run[m], edges[m].label)
    <3> HIDE DEF T, Put, m
    <3> QED
      BY <1>3, <2>1, <2>2
  <2>4. Grown(run[k], dict) /\ \A j \in 1..k : Known(run[k], edges[j].label)
    BY <1>18
  <2>5. IsDict(run[k])
    BY <2>2
  <2>6. \A label : Known(run[k], label) => Known(run[m], label)
    <3>1. Grown(run[k], run[k])
      <4>1. Len(run[k]) \in Nat
        BY <2>5 DEF IsDict
      <4> QED
        BY <2>5, <4>1 DEF Grown
    <3> HIDE DEF m
    <3> QED
      BY <2>3, <2>5, <3>1, GrownMore
  <2>7. Grown(run[m], dict)
    <3> HIDE DEF m
    <3> QED
      BY <2>3, <2>4, GrownMore
  <2>8. \A j \in 1..m : j = m \/ j \in 1..k
    BY <2>1
  <2> HIDE DEF T, Put
  <2> QED
    BY <2>1, <2>3, <2>4, <2>6, <2>7, <2>8
<1>19. 0..n \subseteq Holds
  <2> HIDE DEF Holds
  <2> QED
    BY <1>1, <1>17, <1>18, NumberSteps
<1>20. n \in Holds
  BY <1>1, <1>19
<1> QED
  BY <1>16, <1>20 DEF n

(* A sequence of ids of the dictionary, each once. *)
IsIds(ids, dict) ==
  /\ ids \in Seq(1..Len(dict))
  /\ \A i, j \in 1..Len(ids) : ids[i] = ids[j] => i = j

(* Looking a label up and appending its id, if it is found, adds that label and no other. *)
LEMMA AppendFoundExact ==
  ASSUME NEW dict, IsDict(dict), NEW ids, IsIds(ids, dict), NEW label \in STRING
  PROVE  /\ IsIds(AppendFound(dict, ids, label), dict)
         /\ \A id \in 1..Len(dict) :
               Known(AppendFound(dict, ids, label), id) <=> Known(ids, id) \/ dict[id] = label
<1>1. Len(dict) \in Nat /\ DOMAIN dict = 1..Len(dict) /\ \A i, j \in 1..Len(dict) : dict[i] = dict[j] => i = j
  BY DEF IsDict
<1>2. CASE FindLabel(dict, label) = {}
  <2>1. \A id \in 1..Len(dict) : dict[id] # label
    BY <1>1, <1>2 DEF FindLabel
  <2>2. AppendFound(dict, ids, label) = ids
    BY <1>2 DEF AppendFound
  <2> QED
    BY <2>1, <2>2
<1>3. CASE FindLabel(dict, label) # {}
  <2> DEFINE found == CHOOSE id \in FindLabel(dict, label) : TRUE
             new == Append(ids, found)
  <2>1. found \in FindLabel(dict, label)
    BY <1>3
  <2>2. AppendFound(dict, ids, label) = IF Contains(ids, found) THEN ids ELSE new
    BY <1>3 DEF AppendFound, AppendNew
  <2> HIDE DEF found
  <2>3. found \in 1..Len(dict) /\ dict[found] = label
    BY <2>1, <1>1 DEF FindLabel
  <2>4. \A id \in 1..Len(dict) : dict[id] = label <=> id = found
    BY <2>3, <1>1
  <2>5. Contains(ids, found) <=> Known(ids, found)
    BY DEF Contains, Known
  <2>6. ids \in Seq(1..Len(dict)) /\ Len(ids) \in Nat /\ \A i, j \in 1..Len(ids) : ids[i] = ids[j] => i = j
    BY DEF IsIds
  <2>7. CASE Known(ids, found)
    BY <2>2, <2>4, <2>5, <2>7
  <2>8. CASE ~Known(ids, found)
    <3>1. /\ new \in Seq(1..Len(dict)) /\ Len(new) = Len(ids) + 1 /\ new[Len(ids) + 1] = found
          /\ \A i \in 1..Len(ids) : new[i] = ids[i]
      BY <2>3, <2>6
    <3>2. \A i \in 1..(Len(ids) + 1) : i = Len(ids) + 1 \/ i \in 1..Len(ids)
      BY <2>6
    <3>3. \A i \in 1..Len(ids) : ids[i] # found
      BY <2>8 DEF Known
    <3>4. Len(ids) + 1 \in 1..(Len(ids) + 1) /\ 1..Len(ids) \subseteq 1..(Len(ids) + 1)
      BY <2>6
    <3> HIDE DEF new
    <3>5. ASSUME NEW i \in 1..Len(new), NEW j \in 1..Len(new), new[i] = new[j] PROVE i = j
      <4>1. (i = Len(ids) + 1 \/ i \in 1..Len(ids)) /\ (j = Len(ids) + 1 \/ j \in 1..Len(ids))
        BY <3>1, <3>2
      <4> QED
        BY <4>1, <3>1, <3>3, <3>5, <2>6
    <3>6. \A id \in 1..Len(dict) : Known(new, id) <=> Known(ids, id) \/ id = found
      BY <3>1, <3>2, <3>4 DEF Known
    <3>7. IsIds(new, dict)
      BY <3>1, <3>5 DEF IsIds
    <3> QED
      BY <2>2, <2>4, <2>5, <2>8, <3>6, <3>7
  <2> QED
    BY <2>7, <2>8
<1> QED
  BY <1>2, <1>3

(* The ids of a row's labels are those of the dictionary, each once. *)
LEMMA LabelIdsOfExact ==
  ASSUME NEW dict, IsDict(dict), NEW labels \in Seq(STRING)
  PROVE  /\ IsIds(LabelIdsOf(dict, labels), dict)
         /\ \A id \in 1..Len(dict) :
               Known(LabelIdsOf(dict, labels), id) <=> Known(labels, dict[id])
<1> DEFINE n == Len(labels)
           T == {ids \in Seq(1..Len(dict)) : IsIds(ids, dict)}
           base == <<>>
           Put(ids, k) == AppendFound(dict, ids, labels[k])
           step == [k \in 1..n |-> [ids \in T |-> Put(ids, k)]]
           F(it) == it = [S \in SUBSET (DOMAIN labels) |->
                            IF S = {} THEN base ELSE Put(it[S \ {Max(S)}], Max(S))]
           it == CHOOSE it : F(it)
<1>0. n \in Nat
  OBVIOUS
<1>1. DOMAIN labels = 1..n /\ \A k \in 1..n : labels[k] \in STRING
  OBVIOUS
<1>2. LabelIdsOf(dict, labels) = it[DOMAIN labels]
  BY DEF LabelIdsOf, FoldLeft, MapThenFoldSet
<1>3. ASSUME NEW ids \in T, NEW k \in 1..n
      PROVE  /\ IsIds(Put(ids, k), dict)
             /\ \A id \in 1..Len(dict) : Known(Put(ids, k), id) <=> Known(ids, id) \/ dict[id] = labels[k]
  <2>1. IsIds(ids, dict) /\ labels[k] \in STRING
    BY <1>1
  <2> QED
    BY <2>1, AppendFoundExact
<1>4. base \in T
  BY DEF IsIds
<1>5. \A ids \in T, k \in 1..n : Put(ids, k) \in T
  <2> SUFFICES ASSUME NEW ids \in T, NEW k \in 1..n PROVE Put(ids, k) \in T
    OBVIOUS
  <2>1. IsIds(Put(ids, k), dict)
    BY <1>3
  <2> HIDE DEF Put
  <2> QED
    BY <2>1 DEF IsIds
<1> HIDE DEF n
<1>6. step \in [1..n -> [T -> T]]
  <2> HIDE DEF T, Put
  <2> QED
    BY <1>0, <1>5
<1>7. PICK fold : IsFold(fold, n, T, base, step)
  <2> HIDE DEF T, base, step
  <2> QED
    BY <1>0, <1>4, <1>6, FoldRuns
<1>8. \A S \in SUBSET (1..n) : S # {} => Max(S) \in 1..n /\ S \ {Max(S)} \in SUBSET (1..n)
  BY <1>0, MaxOf
<1>9. /\ fold \in [SUBSET (1..n) -> T]
      /\ \A S \in SUBSET (1..n) :
            fold[S] = IF S = {} THEN base ELSE step[Max(S)][fold[S \ {Max(S)}]]
  <2> HIDE DEF T, base, step
  <2> QED
    BY <1>7 DEF IsFold
<1>10. \A S \in SUBSET (1..n) :
         fold[S] = IF S = {} THEN base ELSE Put(fold[S \ {Max(S)}], Max(S))
  <2> SUFFICES ASSUME NEW S \in SUBSET (1..n), S # {}
               PROVE  step[Max(S)][fold[S \ {Max(S)}]] = Put(fold[S \ {Max(S)}], Max(S))
    <3> HIDE DEF T, base, step, Put
    <3> QED
      BY <1>9
  <2>1. Max(S) \in 1..n /\ fold[S \ {Max(S)}] \in T
    <3> HIDE DEF T, base, step
    <3> QED
      BY <1>8, <1>9
  <2> HIDE DEF T, base, Put
  <2> QED
    BY <2>1, <1>1
<1>11. F(fold)
  <2> HIDE DEF T, base, step, Put
  <2> QED
    BY <1>9, <1>10, <1>1
<1>12. F(it)
  <2> HIDE DEF base, Put
  <2> QED
    BY <1>11, Zenon
<1>13. \A S \in SUBSET (1..n) : it[S] = IF S = {} THEN base ELSE Put(it[S \ {Max(S)}], Max(S))
  <2> HIDE DEF base, Put, it
  <2> QED
    BY <1>12, <1>1
<1>14. PICK run : IsRun(run, n, T, base, step) /\ run[n] = it[1..n]
  <2>1. it[{}] = base
    <3> HIDE DEF base, Put, it
    <3> QED
      BY <1>13
  <2>2. ASSUME NEW S \in SUBSET (1..n), S # {}, it[S \ {Max(S)}] \in T
        PROVE  it[S] = step[Max(S)][it[S \ {Max(S)}]]
    <3>1. it[S] = Put(it[S \ {Max(S)}], Max(S)) /\ Max(S) \in 1..n
      <4> HIDE DEF base, Put, it
      <4> QED
        BY <1>8, <1>13, <2>2
    <3> HIDE DEF T, Put, it
    <3> QED
      BY <3>1, <2>2, <1>1
  <2> HIDE DEF T, base, step, it
  <2>3. IsChain(it, n, T, base, step)
    BY <2>1, <2>2 DEF IsChain
  <2> QED
    BY <2>3, <1>6, <1>0, <1>4, FoldFollows
<1>15. run \in [0..n -> T] /\ run[0] = base /\ \A k \in 1..n : run[k] = Put(run[k - 1], k)
  <2>1. run \in [0..n -> T] /\ run[0] = base /\ \A k \in 1..n : run[k] = step[k][run[k - 1]]
    <3> HIDE DEF T, base, step
    <3> QED
      BY <1>14 DEF IsRun
  <2>2. \A k \in 1..n : run[k - 1] \in T
    <3>1. \A k \in 1..n : k - 1 \in 0..n
      BY <1>0
    <3> HIDE DEF T, base, step
    <3> QED
      BY <2>1, <3>1
  <2> HIDE DEF T, base, Put
  <2> QED
    BY <2>1, <2>2
<1>16. LabelIdsOf(dict, labels) = run[n]
  <2> HIDE DEF it
  <2> QED
    BY <1>1, <1>2, <1>14
<1> HIDE DEF it, F, step
<1> DEFINE Holds == {k \in 0..n : \A id \in 1..Len(dict) :
                                    Known(run[k], id) <=> \E j \in 1..k : labels[j] = dict[id]}
<1>17. 0 \in Holds
  <2>1. run[0] = <<>>
    <3> HIDE DEF T, Put
    <3> QED
      BY <1>15
  <2>2. \A id : ~Known(<<>>, id)
    BY DEF Known
  <2> QED
    BY <1>0, <2>1, <2>2
<1>18. ASSUME NEW k \in 0..(n - 1), k \in Holds PROVE k + 1 \in Holds
  <2> DEFINE m == k + 1
  <2>1. m \in 1..n /\ m \in 0..n /\ m - 1 = k /\ k \in 0..n
    BY <1>0
  <2>2. run[m] = Put(run[k], m) /\ run[k] \in T
    <3> HIDE DEF T, Put, base, m
    <3> QED
      BY <1>15, <2>1
  <2>3. \A id \in 1..Len(dict) : Known(run[m], id) <=> Known(run[k], id) \/ dict[id] = labels[m]
    <3> HIDE DEF T, Put, m
    <3> QED
      BY <1>3, <2>1, <2>2
  <2>4. \A id \in 1..Len(dict) : Known(run[k], id) <=> \E j \in 1..k : labels[j] = dict[id]
    BY <1>18
  <2>5. \A j : j \in 1..m <=> j = m \/ j \in 1..k
    BY <2>1
  <2> HIDE DEF T, Put, m
  <2>6. \A id \in 1..Len(dict) : Known(run[m], id) <=> \E j \in 1..m : labels[j] = dict[id]
    BY <2>3, <2>4, <2>5
  <2> QED
    BY <2>1, <2>6 DEF m
<1>19. 0..n \subseteq Holds
  <2> HIDE DEF Holds
  <2> QED
    BY <1>0, <1>17, <1>18, NumberSteps
<1>20. n \in Holds /\ run[n] \in T
  <2>1. n \in 0..n
    BY <1>0
  <2> HIDE DEF T, Put, Holds
  <2> QED
    BY <1>15, <1>19, <2>1
<1>21. \A id \in 1..Len(dict) : Known(run[n], id) <=> Known(labels, dict[id])
  BY <1>20 DEF Known, n
<1> QED
  BY <1>16, <1>20, <1>21

-----------------------------------------------------------------------------
(* An edge as the CSR keeps it is a row of the edge table: ids holds the vertex of
   each ordinal. *)
IsEntry(e, row, dict, ids, outgoing) ==
  /\ e.id = row.id
  /\ e.label \in 1..Len(dict) /\ dict[e.label] = row.label
  /\ e.neighbor \in DOMAIN ids /\ ids[e.neighbor] = Far(row, outgoing)

(* A list of edges is that of the rows at a vertex, once each. *)
ListsAt(list, rows, id, dict, ids, outgoing) ==
  /\ Len(list) \in Nat /\ DOMAIN list = 1..Len(list)
  /\ \A i \in 1..Len(list) :
        \E row \in rows : Near(row, outgoing) = id /\ IsEntry(list[i], row, dict, ids, outgoing)
  /\ \A row \in rows :
        Near(row, outgoing) = id => \E i \in 1..Len(list) : IsEntry(list[i], row, dict, ids, outgoing)
  /\ \A i, j \in 1..Len(list) : list[i].id = list[j].id => i = j

(* The range of a vertex in one direction. *)
RangeOf(side, o) ==
  [i \in 1..(side.offsets[o + 1] - side.offsets[o]) |->
      [neighbor |-> side.edges[side.offsets[o] + i - 1].neighbor, id |-> side.edges[side.offsets[o] + i - 1].id,
       label |-> side.labels[side.offsets[o] + i - 1], weight |-> side.edges[side.offsets[o] + i - 1].weight]]

(* What BuildTableSnapshot gives one direction of a topology to. *)
Located(edges, froms, tos, labels, size, ids, dict, outgoing) ==
  /\ froms \in [1..Len(edges) -> 0..(size - 1)]
  /\ tos \in [1..Len(edges) -> 0..(size - 1)]
  /\ labels \in [1..Len(edges) -> 1..Len(dict)]
  /\ \A k \in 1..Len(edges) : /\ ids[froms[k]] = Near(edges[k], outgoing)
                              /\ ids[tos[k]] = Far(edges[k], outgoing)
                              /\ dict[labels[k]] = edges[k].label

(* The heart of the build: after offsets and scatter, the range of an ordinal lists
   exactly the edges at the vertex of that ordinal, each once and with its labels. *)
LEMMA AdjacencyExact ==
  ASSUME NEW size \in Nat, NEW ids, AscendingIds(ids, size), NEW dict,
         NEW edges \in Seq(EdgeRow), \A i, j \in 1..Len(edges) : edges[i].id = edges[j].id => i = j,
         NEW froms, NEW tos, NEW labels, NEW outgoing \in BOOLEAN,
         Located(edges, froms, tos, labels, size, ids, dict, outgoing), NEW o \in 0..(size - 1)
  PROVE  ListsAt(RangeOf(Adjacency(size, froms, tos, edges, labels), o), ToSet(edges), ids[o], dict, ids, outgoing)
<1> DEFINE n == Len(edges)
           side == Adjacency(size, froms, tos, edges, labels)
           offsets == Offsets(size, froms)
           places == Places(froms, n)
           values == [k \in DOMAIN edges |-> [neighbor |-> tos[k], id |-> edges[k].id, weight |-> edges[k].weight]]
           list == RangeOf(side, o)
           first == offsets[o]
           count == offsets[o + 1] - offsets[o]
<1>1. /\ n \in Nat /\ DOMAIN edges = 1..n /\ froms \in [1..n -> 0..(size - 1)]
      /\ \A k \in 1..n : /\ froms[k] \in 0..(size - 1) /\ tos[k] \in 0..(size - 1) /\ labels[k] \in 1..Len(dict)
                          /\ ids[froms[k]] = Near(edges[k], outgoing)
                          /\ ids[tos[k]] = Far(edges[k], outgoing)
                          /\ dict[labels[k]] = edges[k].label
  <2>1. n \in Nat /\ DOMAIN edges = 1..n
    OBVIOUS
  <2>2. froms \in [1..n -> 0..(size - 1)] /\ tos \in [1..n -> 0..(size - 1)] /\ labels \in [1..n -> 1..Len(dict)]
    BY DEF Located
  <2>3. \A k \in 1..n : /\ ids[froms[k]] = Near(edges[k], outgoing)
                        /\ ids[tos[k]] = Far(edges[k], outgoing)
                        /\ dict[labels[k]] = edges[k].label
    BY DEF Located
  <2> HIDE DEF n
  <2> QED
    BY <2>1, <2>2, <2>3
<1>2. side.offsets = offsets /\ side.edges = Scatter(offsets, froms, values)
      /\ side.labels = ScatterLabels(offsets, froms, labels)
  BY DEF Adjacency
<1>3. /\ places \in [1..n -> 0..(n - 1)]
      /\ \A j, k \in 1..n : places[j] = places[k] => j = k
      /\ \A p \in 0..(n - 1) : \E k \in 1..n : places[k] = p
      /\ first <= offsets[o + 1]
      /\ \A k \in 1..n : froms[k] = o <=> first <= places[k] /\ places[k] < offsets[o + 1]
  <2>1. ArePlaces(places, size, n, froms)
    <3> HIDE DEF n
    <3> QED
      BY <1>1, PlacesExact
  <2> HIDE DEF places, n
  <2> QED
    BY <2>1 DEF ArePlaces, Bijection, Injection, Surjection, IsInjective
<1>4. offsets \in [0..size -> 0..n]
  <2> HIDE DEF n
  <2> QED
    BY <1>1, OffsetsExact
<1>5. first \in Nat /\ offsets[o + 1] \in 0..n /\ count \in Nat
  <2>1. o \in 0..size /\ o + 1 \in 0..size
    OBVIOUS
  <2> HIDE DEF offsets, n
  <2> QED
    BY <1>1, <1>3, <1>4, <2>1
<1>6. \A k \in 1..n : side.edges[places[k]] = values[k]
  <2> HIDE DEF n, side, values
  <2>1. \A k \in 1..n : Scatter(offsets, froms, values)[places[k]] = values[k]
    BY <1>1, ScatterExact
  <2> HIDE DEF offsets, places
  <2> QED
    BY <1>2, <2>1
<1>7. \A k \in 1..n : side.labels[places[k]] = labels[k]
  <2> HIDE DEF n, side, values
  <2>1. \A k \in 1..n : ScatterLabels(offsets, froms, labels)[places[k]] = labels[k]
    <3>1. n \in Nat /\ froms \in [1..n -> 0..(size - 1)]
      BY <1>1
    <3> QED
      BY <3>1, ScatterLabelsExact
  <2> HIDE DEF offsets, places
  <2> QED
    BY <1>2, <2>1
<1>8. Len(list) = count /\ DOMAIN list = 1..count
  <2>1. DOMAIN list = 1..count
    <3> HIDE DEF side, offsets
    <3> QED
      BY <1>2 DEF RangeOf
  <2> HIDE DEF list, count
  <2> QED
    BY <1>5, <2>1
<1>9. ASSUME NEW i \in 1..count
      PROVE  /\ list[i].id = side.edges[first + i - 1].id
             /\ list[i].neighbor = side.edges[first + i - 1].neighbor
             /\ list[i].label = side.labels[first + i - 1]
  <2> HIDE DEF side, offsets
  <2> QED
    BY <1>2 DEF RangeOf
<1>10. ASSUME NEW k \in 1..n
       PROVE  /\ values[k].id = edges[k].id /\ values[k].neighbor = tos[k]
  BY <1>1
<1> HIDE DEF values, side, list, n, places, offsets, first, count
<1>11. DOMAIN ids = 0..(size - 1)
  BY DEF AscendingIds
<1>12. ASSUME NEW i \in 1..count, NEW k \in 1..n, places[k] = first + i - 1
       PROVE  list[i].id = edges[k].id /\ IsEntry(list[i], edges[k], dict, ids, outgoing)
  <2>1. list[i].id = edges[k].id /\ list[i].neighbor = tos[k] /\ list[i].label = labels[k]
    <3>1. side.edges[first + i - 1] = values[k] /\ side.labels[first + i - 1] = labels[k]
      BY <1>6, <1>7, <1>12
    <3> QED
      BY <1>9, <1>10, <3>1
  <2> QED
    BY <2>1, <1>1, <1>11 DEF IsEntry
<1>13. ASSUME NEW i \in 1..count
       PROVE  \E k \in 1..n : places[k] = first + i - 1 /\ froms[k] = o
  <2>1. first + i - 1 \in 0..(n - 1) /\ first <= first + i - 1 /\ first + i - 1 < offsets[o + 1]
    <3>1. n \in Nat /\ count = offsets[o + 1] - first
      BY <1>1 DEF count, first
    <3> QED
      BY <1>5, <3>1
  <2> QED
    BY <2>1, <1>3
<1>14. ASSUME NEW i \in 1..count
       PROVE  \E row \in ToSet(edges) : Near(row, outgoing) = ids[o] /\ IsEntry(list[i], row, dict, ids, outgoing)
  <2>1. PICK k \in 1..n : places[k] = first + i - 1 /\ froms[k] = o
    BY <1>13
  <2>2. edges[k] \in ToSet(edges)
    BY <1>1 DEF ToSet
  <2> QED
    BY <1>1, <1>12, <2>1, <2>2
<1>15. ASSUME NEW row \in ToSet(edges), Near(row, outgoing) = ids[o]
       PROVE  \E i \in 1..count : IsEntry(list[i], row, dict, ids, outgoing)
  <2>1. PICK k \in 1..n : edges[k] = row
    BY <1>1 DEF ToSet
  <2>2. froms[k] = o
    <3>1. ids[froms[k]] = ids[o] /\ froms[k] \in 0..(size - 1)
      BY <1>1, <1>15, <2>1
    <3>2. ids[o] \in Nat /\ (froms[k] < o => ids[froms[k]] < ids[o]) /\ (o < froms[k] => ids[o] < ids[froms[k]])
      BY <3>1 DEF AscendingIds
    <3> QED
      BY <3>1, <3>2
  <2>3. first <= places[k] /\ places[k] < offsets[o + 1] /\ places[k] \in 0..(n - 1)
    BY <1>3, <2>2
  <2>4. places[k] - first + 1 \in 1..count /\ places[k] = first + (places[k] - first + 1) - 1
    <3>1. n \in Nat /\ count = offsets[o + 1] - first
      BY <1>1 DEF count, first
    <3> QED
      <4>1. \A p, f, c \in Int : f <= p /\ p < c => p - f + 1 \in 1..(c - f) /\ p = f + (p - f + 1) - 1
        OBVIOUS
      <4>2. places[k] \in Int /\ first \in Int /\ offsets[o + 1] \in Int
        BY <1>5, <2>3, <3>1
      <4> QED
        BY <4>1, <4>2, <2>3, <3>1
  <2> QED
    BY <1>12, <2>1, <2>4
<1>16. ASSUME NEW i \in 1..count, NEW j \in 1..count, list[i].id = list[j].id
       PROVE  i = j
  <2>1. PICK k \in 1..n : places[k] = first + i - 1
    BY <1>13
  <2>2. PICK m \in 1..n : places[m] = first + j - 1
    BY <1>13
  <2>3. k = m
    BY <1>12, <1>16, <2>1, <2>2 DEF n
  <2> QED
    BY <1>5, <2>1, <2>2, <2>3
<1>17. ListsAt(list, ToSet(edges), ids[o], dict, ids, outgoing)
  BY <1>5, <1>8, <1>14, <1>15, <1>16 DEF ListsAt
<1> QED
  BY <1>17 DEF list, side

-----------------------------------------------------------------------------
(* The ids kept at a vertex are those of its labels. *)
LabelledAs(ids, labels, dict) ==
  /\ IsIds(ids, dict)
  /\ \A label : Known(labels, label) <=> \E id \in 1..Len(dict) : dict[id] = label /\ Known(ids, id)

(* Ids found in a dictionary stay right when the dictionary grows. *)
LEMMA LabelledInGrown ==
  ASSUME NEW old, IsDict(old), NEW dict, Grown(dict, old), NEW labels \in Seq(STRING),
         \A i \in 1..Len(labels) : Known(old, labels[i])
  PROVE  LabelledAs(LabelIdsOf(old, labels), labels, dict)
<1> DEFINE ids == LabelIdsOf(old, labels)
<1>1. IsIds(ids, old) /\ \A id \in 1..Len(old) : Known(ids, id) <=> Known(labels, old[id])
  BY LabelIdsOfExact
<1> HIDE DEF ids
<1>2. Len(old) \in Nat /\ Len(dict) \in Nat /\ Len(old) <= Len(dict) /\ \A i \in 1..Len(old) : dict[i] = old[i]
  BY DEF Grown, IsDict
<1>3. 1..Len(old) \subseteq 1..Len(dict)
  BY <1>2
<1>4. ids \in Seq(1..Len(old)) /\ \A i, j \in 1..Len(ids) : ids[i] = ids[j] => i = j
  BY <1>1 DEF IsIds
<1>5. ids \in Seq(1..Len(dict)) /\ Len(ids) \in Nat /\ \A i \in 1..Len(ids) : ids[i] \in 1..Len(old)
  <2> DEFINE small == 1..Len(old)
             large == 1..Len(dict)
  <2>1. ids \in Seq(small) /\ small \subseteq large
    BY <1>3, <1>4
  <2> HIDE DEF small, large
  <2>2. Len(ids) \in Nat /\ \A i \in 1..Len(ids) : ids[i] \in small
    BY <2>1
  <2>3. ids \in Seq(large)
    BY <2>1
  <2> QED
    BY <2>2, <2>3 DEF small, large
<1>6. IsIds(ids, dict)
  BY <1>4, <1>5 DEF IsIds
<1>7. ASSUME NEW label, Known(labels, label)
      PROVE  \E id \in 1..Len(dict) : dict[id] = label /\ Known(ids, id)
  <2>1. PICK id \in 1..Len(old) : old[id] = label
    BY <1>7 DEF Known
  <2> QED
    BY <1>1, <1>2, <1>3, <1>7, <2>1
<1>8. ASSUME NEW id \in 1..Len(dict), Known(ids, id)
      PROVE  Known(labels, dict[id])
  <2>1. id \in 1..Len(old)
    BY <1>5, <1>8 DEF Known
  <2> QED
    BY <1>1, <1>2, <1>8, <2>1
<1>9. LabelledAs(ids, labels, dict)
  BY <1>6, <1>7, <1>8 DEF LabelledAs
<1> QED
  BY <1>9 DEF ids

(* A snapshot describes the tables it was built from. *)
SideOf(snapshot, outgoing) == IF outgoing THEN snapshot.out ELSE snapshot.in

SnapshotOf(snapshot, vertices, edges) ==
  /\ snapshot.size \in Nat
  /\ AscendingIds(snapshot.ids, snapshot.size)
  /\ snapshot.dense = IsDense(snapshot.ids)
  /\ IsDict(snapshot.dict)
  /\ \A v \in ToSet(vertices) : \E o \in 0..(snapshot.size - 1) : snapshot.ids[o] = v.id
  /\ \A o \in 0..(snapshot.size - 1) :
        \E v \in ToSet(vertices) : /\ v.id = snapshot.ids[o]
                                  /\ LabelledAs(snapshot.vertexLabels[o], v.labels, snapshot.dict)
  /\ \A o \in 0..(snapshot.size - 1), outgoing \in BOOLEAN :
        ListsAt(RangeOf(SideOf(snapshot, outgoing), o), ToSet(edges), snapshot.ids[o], snapshot.dict,
              snapshot.ids, outgoing)

(* BuildTableSnapshot on any tables makes a snapshot of them: its vertices in ascending
   order of their ids and, at each of them and in both directions, exactly its edges. *)
THEOREM SnapshotExact ==
  ASSUME NEW vertices, NEW edges, IsTables(vertices, edges)
  PROVE  SnapshotOf(BuildTableSnapshot(vertices, edges), vertices, edges)
<1> DEFINE snapshot == BuildTableSnapshot(vertices, edges)
           sorted == OrderedById(vertices)
           size == Len(sorted)
           ids == [o \in 0..(size - 1) |-> sorted[o + 1].id]
           rows == [o \in 0..(size - 1) |-> sorted[o + 1].row]
           vertexDict == VertexDict(sorted)
           dict == EdgeDict(vertexDict, edges)
           vertexLabels == [o \in 0..(size - 1) |-> LabelIdsOf(vertexDict, sorted[o + 1].labels)]
           ordinal(id) == CHOOSE o \in DOMAIN ids : ids[o] = id
           sources == [k \in DOMAIN edges |-> ordinal(edges[k].source)]
           targets == [k \in DOMAIN edges |-> ordinal(edges[k].target)]
           labels == [k \in DOMAIN edges |-> CHOOSE id \in FindLabel(dict, edges[k].label) : TRUE]
           out == Adjacency(size, sources, targets, edges, labels)
           in == Adjacency(size, targets, sources, edges, labels)
<1>1. /\ snapshot.size = size /\ snapshot.ids = ids /\ snapshot.dense = IsDense(ids)
      /\ snapshot.dict = dict /\ snapshot.vertexLabels = vertexLabels
      /\ snapshot.out = out /\ snapshot.in = in
  BY DEF BuildTableSnapshot
<1> HIDE DEF snapshot
<1>2. /\ vertices \in Seq(VertexRow) /\ edges \in Seq(EdgeRow)
      /\ DOMAIN vertices = 1..Len(vertices) /\ DOMAIN edges = 1..Len(edges)
      /\ \A i, j \in 1..Len(vertices) : vertices[i].id = vertices[j].id => i = j
      /\ \A i, j \in 1..Len(edges) : edges[i].id = edges[j].id => i = j
      /\ \A k \in 1..Len(edges) :
            {edges[k].source, edges[k].target} \subseteq {vertices[i].id : i \in 1..Len(vertices)}
  <2>1. vertices \in Seq(VertexRow) /\ edges \in Seq(EdgeRow)
    BY DEF IsTables
  <2>2. DOMAIN vertices = 1..Len(vertices) /\ DOMAIN edges = 1..Len(edges)
    BY <2>1
  <2>3. /\ \A i, j \in DOMAIN vertices : vertices[i].id = vertices[j].id => i = j
        /\ \A i, j \in DOMAIN edges : edges[i].id = edges[j].id => i = j
        /\ \A k \in DOMAIN edges :
              {edges[k].source, edges[k].target} \subseteq {vertices[i].id : i \in DOMAIN vertices}
    BY DEF IsTables
  <2>4. {vertices[i].id : i \in DOMAIN vertices} = {vertices[i].id : i \in 1..Len(vertices)}
    BY <2>2
  <2>5. \A k \in 1..Len(edges) :
           {edges[k].source, edges[k].target} \subseteq {vertices[i].id : i \in 1..Len(vertices)}
    BY <2>2, <2>3, <2>4
  <2>6. /\ \A i, j \in 1..Len(vertices) : vertices[i].id = vertices[j].id => i = j
        /\ \A i, j \in 1..Len(edges) : edges[i].id = edges[j].id => i = j
    BY <2>2, <2>3
  <2> QED
    BY <2>1, <2>2, <2>5, <2>6
<1>3. /\ sorted \in Seq(VertexRow)
      /\ size = Len(vertices)
      /\ \A i, j \in 1..Len(vertices) : i < j => sorted[i].id < sorted[j].id
      /\ {sorted[k] : k \in 1..Len(vertices)} = ToSet(vertices)
  BY <1>2, OrderedByIdExact
<1> HIDE DEF sorted
<1>4. size \in Nat /\ \A o \in 0..(size - 1) : o + 1 \in 1..size /\ sorted[o + 1] \in VertexRow
  BY <1>3
<1>5. /\ \A v \in ToSet(vertices) : \E o \in 0..(size - 1) : sorted[o + 1] = v
      /\ \A o \in 0..(size - 1) : sorted[o + 1] \in ToSet(vertices)
  <2>1. \A k \in 1..size : k - 1 \in 0..(size - 1) /\ (k - 1) + 1 = k
    BY <1>4
  <2>2. ASSUME NEW v \in ToSet(vertices) PROVE \E o \in 0..(size - 1) : sorted[o + 1] = v
    <3>1. PICK k \in 1..size : sorted[k] = v
      BY <1>3
    <3> QED
      BY <2>1, <3>1
  <2> HIDE DEF size
  <2> QED
    BY <1>3, <1>4, <2>2
<1> HIDE DEF size
<1>6. AscendingIds(ids, size)
  <2>1. ids \in [0..(size - 1) -> Nat]
    BY <1>4 DEF VertexRow
  <2>2. \A i, j \in 0..(size - 1) : i < j => ids[i] < ids[j]
    BY <1>3, <1>4
  <2> HIDE DEF ids
  <2> QED
    BY <2>1, <2>2 DEF AscendingIds
<1>7. \A o \in 0..(size - 1) : ids[o] = sorted[o + 1].id
  OBVIOUS
<1>8. \A v \in ToSet(vertices) : \E o \in 0..(size - 1) : ids[o] = v.id
  <2> HIDE DEF ids
  <2> QED
    BY <1>5, <1>7
<1>9. IsDict(vertexDict) /\ \A k \in 1..Len(sorted) : \A i \in 1..Len(sorted[k].labels) : Known(vertexDict, sorted[k].labels[i])
  BY <1>3, VertexDictExact DEF Grown
<1> HIDE DEF vertexDict
<1>10. Grown(dict, vertexDict) /\ \A k \in 1..Len(edges) : Known(dict, edges[k].label)
  BY <1>2, <1>9, EdgeDictExact
<1> HIDE DEF dict
<1>11. IsDict(dict)
  BY <1>10 DEF Grown
<1>12. ASSUME NEW o \in 0..(size - 1)
       PROVE  LabelledAs(vertexLabels[o], sorted[o + 1].labels, dict)
  <2>1. /\ sorted[o + 1].labels \in Seq(STRING)
        /\ \A i \in 1..Len(sorted[o + 1].labels) : Known(vertexDict, sorted[o + 1].labels[i])
    BY <1>4, <1>9 DEF VertexRow, size
  <2>2. vertexLabels[o] = LabelIdsOf(vertexDict, sorted[o + 1].labels)
    OBVIOUS
  <2> QED
    BY <1>9, <1>10, <2>1, <2>2, LabelledInGrown
<1>13. DOMAIN ids = 0..(size - 1)
  OBVIOUS
<1>14. ASSUME NEW id \in {vertices[i].id : i \in 1..Len(vertices)}
       PROVE  ordinal(id) \in 0..(size - 1) /\ ids[ordinal(id)] = id
  <2>1. \E v \in ToSet(vertices) : v.id = id
    BY <1>2 DEF ToSet
  <2>2. \E o \in DOMAIN ids : ids[o] = id
    <3> HIDE DEF ids
    <3> QED
      BY <1>8, <1>13, <2>1
  <2> HIDE DEF ids
  <2> QED
    BY <1>13, <2>2
<1>15. ASSUME NEW k \in 1..Len(edges)
       PROVE  labels[k] \in 1..Len(dict) /\ dict[labels[k]] = edges[k].label
  <2>1. DOMAIN dict = 1..Len(dict)
    BY <1>11 DEF IsDict
  <2>2. FindLabel(dict, edges[k].label) # {}
    BY <1>10, <2>1 DEF Known, FindLabel
  <2>3. labels[k] \in FindLabel(dict, edges[k].label)
    BY <1>2, <2>2
  <2> HIDE DEF labels
  <2> QED
    BY <2>1, <2>3 DEF FindLabel
<1>16. ASSUME NEW k \in 1..Len(edges)
       PROVE  /\ sources[k] \in 0..(size - 1) /\ ids[sources[k]] = edges[k].source
              /\ targets[k] \in 0..(size - 1) /\ ids[targets[k]] = edges[k].target
  <2>1. sources[k] = ordinal(edges[k].source) /\ targets[k] = ordinal(edges[k].target)
    <3> HIDE DEF ordinal
    <3> QED
      BY <1>2
  <2>2. /\ edges[k].source \in {vertices[i].id : i \in 1..Len(vertices)}
        /\ edges[k].target \in {vertices[i].id : i \in 1..Len(vertices)}
    BY <1>2
  <2> HIDE DEF ordinal, sources, targets, ids
  <2> QED
    BY <1>14, <2>1, <2>2
<1>17. /\ sources = [k \in 1..Len(edges) |-> sources[k]]
       /\ targets = [k \in 1..Len(edges) |-> targets[k]]
       /\ labels = [k \in 1..Len(edges) |-> labels[k]]
  <2> HIDE DEF ordinal
  <2> QED
    BY <1>2
<1> HIDE DEF sources, targets, labels, ids, vertexLabels, ordinal
<1>18. Located(edges, sources, targets, labels, size, ids, dict, TRUE)
  BY <1>15, <1>16, <1>17 DEF Located, Near, Far
<1>19. Located(edges, targets, sources, labels, size, ids, dict, FALSE)
  BY <1>15, <1>16, <1>17 DEF Located, Near, Far
<1>20. ASSUME NEW o \in 0..(size - 1)
       PROVE  /\ ListsAt(RangeOf(out, o), ToSet(edges), ids[o], dict, ids, TRUE)
              /\ ListsAt(RangeOf(in, o), ToSet(edges), ids[o], dict, ids, FALSE)
  BY <1>2, <1>4, <1>6, <1>18, <1>19, AdjacencyExact
<1> HIDE DEF out, in
<1>21. \A o \in 0..(size - 1), outgoing \in BOOLEAN :
         ListsAt(RangeOf(SideOf(snapshot, outgoing), o), ToSet(edges), ids[o], dict, ids, outgoing)
  BY <1>1, <1>20 DEF SideOf
<1>22. \A o \in 0..(size - 1) :
         \E v \in ToSet(vertices) : v.id = ids[o] /\ LabelledAs(vertexLabels[o], v.labels, dict)
  BY <1>5, <1>7, <1>12
<1>23. SnapshotOf(snapshot, vertices, edges)
  BY <1>1, <1>4, <1>6, <1>8, <1>11, <1>21, <1>22 DEF SnapshotOf
<1> QED
  BY <1>23 DEF snapshot

-----------------------------------------------------------------------------
(* The delta: maps from numbers to sequences, and the rows it adds. *)
Entry == [neighbor : Nat, id : Nat, label : Nat]

Maps(X) == UNION {[S -> Seq(X)] : S \in SUBSET Nat}

Deltas ==
  [ids : Seq(Nat), rows : Seq(Nat), labels : Seq(Seq(Nat)), byLabel : Maps(Nat),
   out : Maps(Entry), in : Maps(Entry)]

(* A push_back lengthens one sequence of a map, and no other. *)
LEMMA PushBackExact ==
  ASSUME NEW X, NEW map \in Maps(X), NEW key \in Nat, NEW element \in X
  PROVE  /\ PushBack(map, key, element) \in Maps(X)
         /\ At(PushBack(map, key, element), key) = Append(At(map, key), element)
         /\ \A k : k # key => At(PushBack(map, key, element), k) = At(map, k)
         /\ \A k : At(map, k) \in Seq(X)
<1>1. PICK S \in SUBSET Nat : map \in [S -> Seq(X)]
  BY DEF Maps
<1>2. DOMAIN map = S /\ \A k \in S : map[k] \in Seq(X)
  BY <1>1
<1>3. \A k : At(map, k) \in Seq(X)
  <2>1. <<>> \in Seq(X)
    OBVIOUS
  <2> QED
    BY <1>2, <2>1 DEF At
<1> DEFINE new == PushBack(map, key, element)
           D == S \cup {key}
<1>4. new = [k \in D |-> IF k # key THEN map[k] ELSE Append(At(map, key), element)]
  BY <1>2 DEF PushBack, At
<1>5. Append(At(map, key), element) \in Seq(X)
  BY <1>3
<1>6. new \in [D -> Seq(X)] /\ D \in SUBSET Nat
  <2> HIDE DEF new
  <2> QED
    BY <1>2, <1>4, <1>5
<1>7. DOMAIN new = D /\ new[key] = Append(At(map, key), element) /\ \A k \in S : k # key => new[k] = map[k]
  <2> HIDE DEF new
  <2> QED
    BY <1>4
<1> HIDE DEF new
<1>8. new \in Maps(X)
  BY <1>6 DEF Maps
<1>9. At(new, key) = Append(At(map, key), element)
  BY <1>7 DEF At
<1>10. \A k : k # key => At(new, k) = At(map, k)
  BY <1>2, <1>7 DEF At
<1> QED
  BY <1>3, <1>8, <1>9, <1>10 DEF new

(* The vertex ends the list of each of its labels, and no other list. *)
LEMMA PostUnderExact ==
  ASSUME NEW byLabel \in Maps(Nat), NEW ids \in Seq(Nat), NEW vertex \in Nat,
         \A i, j \in 1..Len(ids) : ids[i] = ids[j] => i = j
  PROVE  /\ PostUnder(byLabel, ids, vertex) \in Maps(Nat)
         /\ \A l : At(PostUnder(byLabel, ids, vertex), l) =
                      IF Known(ids, l) THEN Append(At(byLabel, l), vertex) ELSE At(byLabel, l)
<1> DEFINE n == Len(ids)
           T == Maps(Nat)
           base == byLabel
           Put(map, k) == PushBack(map, ids[k], vertex)
           step == [k \in 1..n |-> [map \in T |-> Put(map, k)]]
           F(it) == it = [S \in SUBSET (DOMAIN ids) |->
                            IF S = {} THEN base ELSE Put(it[S \ {Max(S)}], Max(S))]
           it == CHOOSE it : F(it)
<1>0. n \in Nat
  OBVIOUS
<1>1. DOMAIN ids = 1..n /\ \A k \in 1..n : ids[k] \in Nat
  OBVIOUS
<1>2. PostUnder(byLabel, ids, vertex) = it[DOMAIN ids]
  BY DEF PostUnder, FoldLeft, MapThenFoldSet
<1>4. base \in T
  OBVIOUS
<1>5. \A map \in T, k \in 1..n : Put(map, k) \in T
  BY <1>1, PushBackExact
<1> HIDE DEF n
<1>6. step \in [1..n -> [T -> T]]
  <2> HIDE DEF T, Put
  <2> QED
    BY <1>0, <1>5
<1>7. PICK fold : IsFold(fold, n, T, base, step)
  <2> HIDE DEF T, base, step
  <2> QED
    BY <1>0, <1>4, <1>6, FoldRuns
<1>8. \A S \in SUBSET (1..n) : S # {} => Max(S) \in 1..n /\ S \ {Max(S)} \in SUBSET (1..n)
  BY <1>0, MaxOf
<1>9. /\ fold \in [SUBSET (1..n) -> T]
      /\ \A S \in SUBSET (1..n) :
            fold[S] = IF S = {} THEN base ELSE step[Max(S)][fold[S \ {Max(S)}]]
  <2> HIDE DEF T, base, step
  <2> QED
    BY <1>7 DEF IsFold
<1>10. \A S \in SUBSET (1..n) :
         fold[S] = IF S = {} THEN base ELSE Put(fold[S \ {Max(S)}], Max(S))
  <2> SUFFICES ASSUME NEW S \in SUBSET (1..n), S # {}
               PROVE  step[Max(S)][fold[S \ {Max(S)}]] = Put(fold[S \ {Max(S)}], Max(S))
    <3> HIDE DEF T, base, step, Put
    <3> QED
      BY <1>9
  <2>1. Max(S) \in 1..n /\ fold[S \ {Max(S)}] \in T
    <3> HIDE DEF T, base, step
    <3> QED
      BY <1>8, <1>9
  <2> HIDE DEF T, base, Put
  <2> QED
    BY <2>1, <1>1
<1>11. F(fold)
  <2> HIDE DEF T, base, step, Put
  <2> QED
    BY <1>9, <1>10, <1>1
<1>12. F(it)
  <2> HIDE DEF base, Put
  <2> QED
    BY <1>11, Zenon
<1>13. \A S \in SUBSET (1..n) : it[S] = IF S = {} THEN base ELSE Put(it[S \ {Max(S)}], Max(S))
  <2> HIDE DEF base, Put, it
  <2> QED
    BY <1>12, <1>1
<1>14. PICK run : IsRun(run, n, T, base, step) /\ run[n] = it[1..n]
  <2>1. it[{}] = base
    <3> HIDE DEF base, Put, it
    <3> QED
      BY <1>13
  <2>2. ASSUME NEW S \in SUBSET (1..n), S # {}, it[S \ {Max(S)}] \in T
        PROVE  it[S] = step[Max(S)][it[S \ {Max(S)}]]
    <3>1. it[S] = Put(it[S \ {Max(S)}], Max(S)) /\ Max(S) \in 1..n
      <4> HIDE DEF base, Put, it
      <4> QED
        BY <1>8, <1>13, <2>2
    <3> HIDE DEF T, Put, it
    <3> QED
      BY <3>1, <2>2, <1>1
  <2> HIDE DEF T, base, step, it
  <2>3. IsChain(it, n, T, base, step)
    BY <2>1, <2>2 DEF IsChain
  <2>4. IsFolding(it, n, T, base, step)
    BY <2>3, <1>6, <1>0, <1>4 DEF IsFolding
  <2>5. HasRun(it, n, T, base, step)
    BY <2>4, FoldingRuns
  <2> QED
    BY <2>5 DEF HasRun
<1>15. run \in [0..n -> T] /\ run[0] = base /\ \A k \in 1..n : run[k] = Put(run[k - 1], k)
  <2>1. run \in [0..n -> T] /\ run[0] = base /\ \A k \in 1..n : run[k] = step[k][run[k - 1]]
    <3> HIDE DEF T, base, step
    <3> QED
      BY <1>14 DEF IsRun
  <2>2. \A k \in 1..n : run[k - 1] \in T
    <3>1. \A k \in 1..n : k - 1 \in 0..n
      BY <1>0
    <3> HIDE DEF T, base, step
    <3> QED
      BY <2>1, <3>1
  <2> HIDE DEF T, base, Put
  <2> QED
    BY <2>1, <2>2
<1>16. PostUnder(byLabel, ids, vertex) = run[n]
  <2> HIDE DEF it
  <2> QED
    BY <1>1, <1>2, <1>14
<1>17. n \in 0..n
  BY <1>0
<1> HIDE DEF it, F, step, T
<1> DEFINE Met(k, l) == \E i \in 1..k : ids[i] = l
           Holds == {k \in 0..n : \A l : At(run[k], l) = IF Met(k, l) THEN Append(At(byLabel, l), vertex) ELSE At(byLabel, l)}
<1>18. 0 \in Holds
  <2>1. run[0] = byLabel /\ 0 \in 0..n
    <3> HIDE DEF Put
    <3> QED
      BY <1>0, <1>15
  <2>2. \A l : ~Met(0, l)
    OBVIOUS
  <2> HIDE DEF Met
  <2> QED
    BY <2>1, <2>2
<1>19. ASSUME NEW k \in 0..(n - 1), k \in Holds PROVE k + 1 \in Holds
  <2> DEFINE m == k + 1
  <2>1. m \in 1..n /\ m \in 0..n /\ m - 1 = k /\ k \in 0..n /\ \A i : i \in 1..m <=> i = m \/ i \in 1..k
    BY <1>0
  <2>2. ~Met(k, ids[m])
    <3>1. \A i \in 1..k : i \in 1..n /\ i # m
      BY <1>0, <2>1
    <3> QED
      BY <2>1, <3>1 DEF n
  <2>3. \A l : Met(m, l) <=> l = ids[m] \/ Met(k, l)
    BY <2>1
  <2> HIDE DEF m, Met
  <2>4. run[m] = PushBack(run[k], ids[m], vertex)
    BY <1>15, <2>1
  <2> HIDE DEF Put
  <2>5. run[k] \in Maps(Nat) /\ ids[m] \in Nat
    BY <1>1, <1>15, <2>1 DEF T
  <2> DEFINE map == run[k]
             key == ids[m]
  <2>10. map \in Maps(Nat) /\ key \in Nat /\ vertex \in Nat
    BY <2>5
  <2> HIDE DEF map, key
  <2>11. At(PushBack(map, key, vertex), key) = Append(At(map, key), vertex)
    BY ONLY <2>10, PushBackExact
  <2>12. /\ PushBack(map, key, vertex) \in Maps(Nat)
         /\ At(PushBack(map, key, vertex), key) = Append(At(map, key), vertex)
         /\ \A l : l # key => At(PushBack(map, key, vertex), l) = At(map, l)
         /\ \A l : At(map, l) \in Seq(Nat)
    BY ONLY <2>10, PushBackExact, Zenon
  <2>6. /\ At(run[m], ids[m]) = Append(At(run[k], ids[m]), vertex)
        /\ \A l : l # ids[m] => At(run[m], l) = At(run[k], l)
    BY <2>4, <2>11, <2>12 DEF map, key
  <2>7. \A l : At(run[k], l) = IF Met(k, l) THEN Append(At(byLabel, l), vertex) ELSE At(byLabel, l)
    BY <1>19
  <2>8. \A l : At(run[m], l) = IF Met(m, l) THEN Append(At(byLabel, l), vertex) ELSE At(byLabel, l)
    BY <2>2, <2>3, <2>6, <2>7
  <2>9. m \in Holds
    BY <2>1, <2>8
  <2> QED
    BY <2>9 DEF m
<1> HIDE DEF Put
<1>20. 0..n \subseteq Holds
  <2> HIDE DEF Holds
  <2> QED
    BY <1>0, <1>18, <1>19, NumberSteps
<1>21. \A l : At(run[n], l) = IF Met(n, l) THEN Append(At(byLabel, l), vertex) ELSE At(byLabel, l)
  <2>1. n \in Holds
    <3> HIDE DEF Holds, n
    <3> QED
      BY <1>17, <1>20
  <2> HIDE DEF Met, n
  <2> QED
    BY <2>1
<1>22. \A l : Met(n, l) <=> Known(ids, l)
  BY DEF Known, n
<1> HIDE DEF Met, Holds, n
<1>23. run[n] \in T
  BY <1>15, <1>17
<1> QED
  BY <1>16, <1>21, <1>22, <1>23 DEF T

(* A delta grown by a vertex: its id, its row and its labels at the end, and no edges. *)
AddsVertex(new, d, v, ids, dict) ==
  /\ new \in Deltas
  /\ new.ids = Append(d.ids, v.id) /\ new.rows = Append(d.rows, v.row) /\ new.labels = Append(d.labels, ids)
  /\ LabelledAs(ids, v.labels, dict)
  /\ new.out = d.out /\ new.in = d.in
  /\ \A l : At(new.byLabel, l) = IF Known(ids, l) THEN Append(At(d.byLabel, l), v.id) ELSE At(d.byLabel, l)
  /\ \A j \in 1..Len(d.ids) : d.ids[j] # v.id

(* AddDeltaVertex adds a vertex whose id is new, with its labels. *)
LEMMA AddDeltaVertexExact ==
  ASSUME NEW snapshot, IsDict(snapshot.dict), NEW d \in Deltas, NEW v \in VertexRow,
         NEW new \in AddDeltaVertex(snapshot, d, v)
  PROVE  AddsVertex(new, d, v, LabelIdsOf(snapshot.dict, v.labels), snapshot.dict)
<1> DEFINE dict == snapshot.dict
           ids == LabelIdsOf(dict, v.labels)
           byLabel == PostUnder(d.byLabel, ids, v.id)
<1>1. \A label \in ToSet(v.labels) : FindLabel(dict, label) # {}
  BY DEF AddDeltaVertex
<1>2. new = [d EXCEPT !.ids = Append(@, v.id), !.rows = Append(@, v.row), !.labels = Append(@, ids), !.byLabel = byLabel]
  <2> HIDE DEF ids
  <2> QED
    BY DEF AddDeltaVertex, ids
<1>3. v.id \in Nat /\ v.row \in Nat /\ v.labels \in Seq(STRING)
  BY DEF VertexRow
<1>4. IsIds(ids, dict) /\ \A id \in 1..Len(dict) : Known(ids, id) <=> Known(v.labels, dict[id])
  BY <1>3, LabelIdsOfExact
<1>5. Len(dict) \in Nat /\ DOMAIN dict = 1..Len(dict)
  BY DEF IsDict
<1>12. \A j \in 1..Len(d.ids) : d.ids[j] # v.id
  <2>1. Ordinal(snapshot, d, v.id) = {}
    BY DEF AddDeltaVertex
  <2>2. {snapshot.size + k - 1 : k \in {k \in DOMAIN d.ids : d.ids[k] = v.id}} = {}
    BY <2>1 DEF Ordinal
  <2>3. {k \in DOMAIN d.ids : d.ids[k] = v.id} = {}
    BY <2>2
  <2>4. DOMAIN d.ids = 1..Len(d.ids)
    BY DEF Deltas
  <2> QED
    BY <2>3, <2>4
<1> HIDE DEF ids
<1>6. ids \in Seq(Nat)
  <2>1. ids \in Seq(1..Len(dict))
    BY <1>4 DEF IsIds
  <2>2. 1..Len(dict) \subseteq Nat
    BY <1>5
  <2> DEFINE small == 1..Len(dict)
  <2> HIDE DEF small
  <2> QED
    BY <2>1, <2>2 DEF small
<1>7. /\ byLabel \in Maps(Nat)
      /\ \A l : At(byLabel, l) = IF Known(ids, l) THEN Append(At(d.byLabel, l), v.id) ELSE At(d.byLabel, l)
  <2>1. d.byLabel \in Maps(Nat) /\ \A i, j \in 1..Len(ids) : ids[i] = ids[j] => i = j
    BY <1>4 DEF Deltas, IsIds
  <2> QED
    BY <1>3, <1>6, <2>1, PostUnderExact
<1> HIDE DEF byLabel
<1>8. /\ d.ids \in Seq(Nat) /\ d.rows \in Seq(Nat) /\ d.labels \in Seq(Seq(Nat))
      /\ d.out \in Maps(Entry) /\ d.in \in Maps(Entry)
  BY DEF Deltas
<1>9. Append(d.ids, v.id) \in Seq(Nat) /\ Append(d.rows, v.row) \in Seq(Nat) /\ Append(d.labels, ids) \in Seq(Seq(Nat))
  <2>1. Append(d.labels, ids) \in Seq(Seq(Nat))
    BY <1>6, <1>8, AppendedTo
  <2> QED
    BY <1>3, <1>8, <2>1, AppendedTo
<1>10. /\ new \in Deltas /\ new.ids = Append(d.ids, v.id) /\ new.rows = Append(d.rows, v.row) /\ new.labels = Append(d.labels, ids)
       /\ new.out = d.out /\ new.in = d.in /\ new.byLabel = byLabel
  <2> DEFINE ends == Append(d.ids, v.id)
             rows == Append(d.rows, v.row)
             labels == Append(d.labels, ids)
  <2>1. ends \in Seq(Nat) /\ rows \in Seq(Nat) /\ labels \in Seq(Seq(Nat))
    BY <1>9
  <2>2. new = [d EXCEPT !.ids = ends, !.rows = rows, !.labels = labels, !.byLabel = byLabel]
    BY <1>2
  <2> HIDE DEF ends, rows, labels
  <2>3. /\ new \in Deltas /\ new.ids = ends /\ new.rows = rows /\ new.labels = labels /\ new.out = d.out /\ new.in = d.in
        /\ new.byLabel = byLabel
    BY <1>7, <2>1, <2>2 DEF Deltas
  <2> QED
    BY <2>3 DEF ends, rows, labels
<1>11. LabelledAs(ids, v.labels, dict)
  <2>1. \A label : Known(v.labels, label) => \E id \in 1..Len(dict) : dict[id] = label
    BY <1>1, <1>5 DEF FindLabel, Known, ToSet
  <2> QED
    BY <1>4, <2>1 DEF LabelledAs
<1> QED
  <2>1. AddsVertex(new, d, v, ids, dict)
    BY <1>7, <1>10, <1>11, <1>12 DEF AddsVertex
  <2> QED
    BY <2>1 DEF ids

(* A delta lists under each label id the vertices that have it, once each. *)
Posts(d) ==
  \A l : /\ ToSet(At(d.byLabel, l)) = {d.ids[j] : j \in {j \in 1..Len(d.ids) : Known(d.labels[j], l)}}
         /\ At(d.byLabel, l) \in Seq(Nat) /\ IsInjective(At(d.byLabel, l))

(* One more vertex, behind those that have its labels. *)
LEMMA PostsMore ==
  ASSUME NEW d \in Deltas, Posts(d), Len(d.labels) = Len(d.ids), NEW id \in Nat, NEW ids \in Seq(Nat),
         \A j \in 1..Len(d.ids) : d.ids[j] # id,
         NEW new \in Deltas, new.ids = Append(d.ids, id), new.labels = Append(d.labels, ids),
         \A l : At(new.byLabel, l) = IF Known(ids, l) THEN Append(At(d.byLabel, l), id) ELSE At(d.byLabel, l)
  PROVE  Posts(new)
<1> DEFINE m == Len(d.ids)
           Of(labels, n, l) == {j \in 1..n : Known(labels[j], l)}
<1>1. d.ids \in Seq(Nat) /\ d.labels \in Seq(Seq(Nat)) /\ m \in Nat
  BY DEF Deltas
<1>2. /\ Len(new.ids) = m + 1 /\ new.ids[m + 1] = id /\ new.labels[m + 1] = ids
      /\ \A j \in 1..m : new.ids[j] = d.ids[j] /\ new.labels[j] = d.labels[j]
  BY <1>1
<1>3. \A j : j \in 1..(m + 1) <=> j = m + 1 \/ j \in 1..m
  BY <1>1
<1> SUFFICES ASSUME NEW l
             PROVE  /\ ToSet(At(new.byLabel, l)) = {new.ids[j] : j \in Of(new.labels, m + 1, l)}
                    /\ At(new.byLabel, l) \in Seq(Nat) /\ IsInjective(At(new.byLabel, l))
  BY <1>2 DEF Posts
<1> DEFINE list == At(d.byLabel, l)
           longer == At(new.byLabel, l)
<1>4. ToSet(list) = {d.ids[j] : j \in Of(d.labels, m, l)} /\ list \in Seq(Nat) /\ IsInjective(list)
  BY DEF Posts
<1>5. longer = IF Known(ids, l) THEN Append(list, id) ELSE list
  OBVIOUS
<1> HIDE DEF list, longer, m
<1>6. CASE ~Known(ids, l)
  <2>1. Of(new.labels, m + 1, l) = Of(d.labels, m, l)
    BY <1>2, <1>3, <1>6
  <2>2. \A j \in Of(d.labels, m, l) : new.ids[j] = d.ids[j]
    BY <1>2
  <2> HIDE DEF Of
  <2> QED
    BY <1>4, <1>5, <1>6, <2>1, <2>2 DEF longer
<1>7. CASE Known(ids, l)
  <2>1. Of(new.labels, m + 1, l) = Of(d.labels, m, l) \cup {m + 1}
    BY <1>2, <1>3, <1>7
  <2>2. \A j \in Of(d.labels, m, l) : new.ids[j] = d.ids[j] /\ d.ids[j] # id
    BY <1>2 DEF m
  <2>10. \A j \in Of(d.labels, m, l) : new.ids[j] = d.ids[j]
    BY <2>2
  <2>3. longer = Append(list, id)
    BY <1>5, <1>7
  <2>4. /\ longer \in Seq(Nat) /\ Len(list) \in Nat /\ DOMAIN longer = 1..(Len(list) + 1) /\ DOMAIN list = 1..Len(list)
        /\ longer[Len(list) + 1] = id /\ \A i \in 1..Len(list) : longer[i] = list[i]
    BY <1>4, <2>3
  <2>5. \A i : i \in 1..(Len(list) + 1) <=> i = Len(list) + 1 \/ i \in 1..Len(list)
    BY <2>4
  <2> HIDE DEF Of
  <2>6. ToSet(longer) = ToSet(list) \cup {id}
    BY <2>4, <2>5 DEF ToSet
  <2>7. ToSet(longer) = {new.ids[j] : j \in Of(new.labels, m + 1, l)}
    <3> DEFINE A == Of(d.labels, m, l)
    <3>2. \A j \in A : new.ids[j] = d.ids[j]
      BY <2>10
    <3>1. {new.ids[j] : j \in A \cup {m + 1}} = {d.ids[j] : j \in A} \cup {id}
      <4>1. new.ids[m + 1] = id
        BY <1>2
      <4> DEFINE seen == new.ids
                 had == d.ids
                 end == m + 1
      <4>2. seen[end] = id /\ \A j \in A : seen[j] = had[j]
        BY <3>2, <4>1
      <4> HIDE DEF A, seen, had, end
      <4>3. {seen[j] : j \in A \cup {end}} = {had[j] : j \in A} \cup {id}
        BY <4>2
      <4> QED
        BY <4>3 DEF seen, had, end
    <3> HIDE DEF A
    <3> QED
      BY <1>4, <2>1, <2>6, <3>1 DEF A
  <2>8. \A i \in 1..Len(list) : list[i] # id
    BY <1>4, <2>2, <2>4 DEF ToSet
  <2>9. IsInjective(longer)
    BY <1>4, <2>4, <2>5, <2>8 DEF IsInjective
  <2> QED
    BY <2>4, <2>7, <2>9 DEF longer
<1> QED
  BY <1>6, <1>7

(* A delta holds the first n of these vertices, with their labels, and no edge. *)
AddsVertices(d, vertices, n, dict) ==
  /\ d \in Deltas
  /\ Len(d.ids) = n /\ Len(d.rows) = n /\ Len(d.labels) = n
  /\ \A j \in 1..n : /\ d.ids[j] = vertices[j].id /\ d.rows[j] = vertices[j].row
                     /\ d.labels[j] = LabelIdsOf(dict, vertices[j].labels)
                     /\ LabelledAs(d.labels[j], vertices[j].labels, dict)
  /\ \A o : At(d.out, o) = <<>> /\ At(d.in, o) = <<>>
  /\ Posts(d)

(* AddDeltaVertex adds the next vertex of the scan, with its labels. *)
LEMMA AddsNextVertex ==
  ASSUME NEW snapshot, IsDict(snapshot.dict), NEW vertices, NEW k \in Nat, vertices[k + 1] \in VertexRow,
         NEW d, AddsVertices(d, vertices, k, snapshot.dict), NEW new \in AddDeltaVertex(snapshot, d, vertices[k + 1])
  PROVE  AddsVertices(new, vertices, k + 1, snapshot.dict)
<1> DEFINE dict == snapshot.dict
           m == k + 1
           v == vertices[m]
           ids == LabelIdsOf(dict, v.labels)
<1>1. d \in Deltas
  BY DEF AddsVertices
<1>2. /\ new \in Deltas
      /\ new.ids = Append(d.ids, v.id) /\ new.rows = Append(d.rows, v.row)
      /\ new.labels = Append(d.labels, ids)
      /\ LabelledAs(ids, v.labels, dict)
      /\ new.out = d.out /\ new.in = d.in
      /\ \A l : At(new.byLabel, l) = IF Known(ids, l) THEN Append(At(d.byLabel, l), v.id) ELSE At(d.byLabel, l)
      /\ \A j \in 1..Len(d.ids) : d.ids[j] # v.id
  <2>1. AddsVertex(new, d, v, ids, dict)
    BY <1>1, AddDeltaVertexExact
  <2> QED
    BY <2>1 DEF AddsVertex
<1>8. v.id \in Nat /\ ids \in Seq(Nat)
  <2>1. v.id \in Nat
    BY DEF VertexRow
  <2>2. ids \in Seq(1..Len(dict)) /\ Len(dict) \in Nat
    BY <1>2 DEF LabelledAs, IsIds, IsDict
  <2>3. ids \in Seq(Nat)
    <3>1. 1..Len(dict) \subseteq Nat
      BY <2>2
    <3> HIDE DEF ids, dict
    <3> QED
      BY <2>2, <3>1
  <2> QED
    BY <2>1, <2>3
<1> HIDE DEF ids
<1>3. /\ d.ids \in Seq(Nat) /\ d.rows \in Seq(Nat) /\ d.labels \in Seq(Seq(Nat))
      /\ Len(d.ids) = k /\ Len(d.rows) = k /\ Len(d.labels) = k
  BY <1>1 DEF AddsVertices, Deltas
<1> HIDE DEF v, dict
<1>4. /\ Len(new.ids) = m /\ Len(new.rows) = m /\ Len(new.labels) = m
      /\ new.ids[m] = v.id /\ new.rows[m] = v.row /\ new.labels[m] = ids
      /\ \A j \in 1..k : new.ids[j] = d.ids[j] /\ new.rows[j] = d.rows[j] /\ new.labels[j] = d.labels[j]
  BY SMTT(20), <1>2, <1>3
<1>5. \A j \in 1..m : j = m \/ j \in 1..k
  OBVIOUS
<1>6. /\ \A j \in 1..k : /\ d.ids[j] = vertices[j].id /\ d.rows[j] = vertices[j].row
                         /\ d.labels[j] = LabelIdsOf(dict, vertices[j].labels)
                         /\ LabelledAs(d.labels[j], vertices[j].labels, dict)
      /\ \A o : At(d.out, o) = <<>> /\ At(d.in, o) = <<>>
  BY DEF AddsVertices, dict
<1> HIDE DEF m
<1>9. Posts(new)
  <2>1. Posts(d)
    BY DEF AddsVertices
  <2> QED
    BY <1>1, <1>2, <1>3, <1>8, <2>1, PostsMore
<1>7. AddsVertices(new, vertices, m, dict)
  <2>1. new.labels[m] = LabelIdsOf(dict, vertices[m].labels) /\ LabelledAs(new.labels[m], vertices[m].labels, dict)
    BY <1>2, <1>4 DEF ids, v
  <2> QED
    BY <1>2, <1>4, <1>5, <1>6, <1>9, <2>1 DEF AddsVertices, v
<1> QED
  BY <1>7 DEF dict, m

(* The empty delta has added no vertex. *)
LEMMA NoDeltaAdds ==
  ASSUME NEW vertices, NEW dict
  PROVE  NoDelta \in Deltas /\ AddsVertices(NoDelta, vertices, 0, dict)
<1>1. \A X : [l \in {} |-> <<>>] \in Maps(X)
  <2> SUFFICES ASSUME NEW X PROVE [l \in {} |-> <<>>] \in Maps(X)
    OBVIOUS
  <2>1. [l \in {} |-> <<>>] \in [{} -> Seq(X)] /\ {} \in SUBSET Nat
    OBVIOUS
  <2> QED
    BY <2>1 DEF Maps
<1>2. NoDelta \in Deltas
  BY <1>1 DEF NoDelta, Deltas
<1>3. \A o : At(NoDelta.out, o) = <<>> /\ At(NoDelta.in, o) = <<>>
  BY DEF NoDelta, At
<1>4. Len(NoDelta.ids) = 0 /\ Len(NoDelta.rows) = 0 /\ Len(NoDelta.labels) = 0
  BY DEF NoDelta
<1>5. Posts(NoDelta)
  <2>1. \A l : At(NoDelta.byLabel, l) = <<>>
    BY DEF NoDelta, At
  <2>2. ToSet(<<>>) = {} /\ IsInjective(<<>>) /\ <<>> \in Seq(Nat)
    BY DEF ToSet, IsInjective
  <2>3. 1..Len(NoDelta.ids) = {}
    BY <1>4
  <2> QED
    BY <2>1, <2>2, <2>3 DEF Posts
<1> QED
  BY <1>2, <1>3, <1>4, <1>5 DEF AddsVertices

(* The loop over the scanned vertices adds them all, in the order of the scan. *)
LEMMA DeltaOfVerticesExact ==
  ASSUME NEW snapshot, IsDict(snapshot.dict), NEW vertices \in Seq(VertexRow),
         NEW d \in DeltaOfVertices(snapshot, vertices)
  PROVE  AddsVertices(d, vertices, Len(vertices), snapshot.dict)
<1> DEFINE n == Len(vertices)
           T == SUBSET Deltas
           base == {NoDelta}
           Put(acc, k) == UNION {AddDeltaVertex(snapshot, e, vertices[k]) : e \in acc}
           step == [k \in 1..n |-> [acc \in T |-> Put(acc, k)]]
           F(it) == it = [S \in SUBSET (DOMAIN vertices) |->
                            IF S = {} THEN base ELSE Put(it[S \ {Max(S)}], Max(S))]
           it == CHOOSE it : F(it)
<1>0. n \in Nat
  OBVIOUS
<1>1. DOMAIN vertices = 1..n /\ \A k \in 1..n : vertices[k] \in VertexRow
  OBVIOUS
<1>2. DeltaOfVertices(snapshot, vertices) = it[DOMAIN vertices]
  BY DEF DeltaOfVertices, FoldLeft, MapThenFoldSet
<1>3. NoDelta \in Deltas /\ AddsVertices(NoDelta, vertices, 0, snapshot.dict)
  BY NoDeltaAdds
<1>4. base \in T
  BY <1>3
<1>5. \A acc \in T, k \in 1..n : Put(acc, k) \in T
  <2> SUFFICES ASSUME NEW acc \in T, NEW k \in 1..n, NEW e \in acc, NEW new \in AddDeltaVertex(snapshot, e, vertices[k])
               PROVE  new \in Deltas
    OBVIOUS
  <2>1. e \in Deltas /\ vertices[k] \in VertexRow
    BY <1>1
  <2> QED
    BY <2>1, AddDeltaVertexExact DEF AddsVertex
<1> HIDE DEF n
<1>6. step \in [1..n -> [T -> T]]
  <2> HIDE DEF T, Put
  <2> QED
    BY <1>0, <1>5
<1>7. PICK fold : IsFold(fold, n, T, base, step)
  <2> HIDE DEF T, base, step
  <2> QED
    BY <1>0, <1>4, <1>6, FoldRuns
<1>8. \A S \in SUBSET (1..n) : S # {} => Max(S) \in 1..n /\ S \ {Max(S)} \in SUBSET (1..n)
  BY <1>0, MaxOf
<1>9. /\ fold \in [SUBSET (1..n) -> T]
      /\ \A S \in SUBSET (1..n) :
            fold[S] = IF S = {} THEN base ELSE step[Max(S)][fold[S \ {Max(S)}]]
  <2> HIDE DEF T, base, step
  <2> QED
    BY <1>7 DEF IsFold
<1>10. \A S \in SUBSET (1..n) :
         fold[S] = IF S = {} THEN base ELSE Put(fold[S \ {Max(S)}], Max(S))
  <2> SUFFICES ASSUME NEW S \in SUBSET (1..n), S # {}
               PROVE  step[Max(S)][fold[S \ {Max(S)}]] = Put(fold[S \ {Max(S)}], Max(S))
    <3> HIDE DEF T, base, step, Put
    <3> QED
      BY <1>9
  <2>1. Max(S) \in 1..n /\ fold[S \ {Max(S)}] \in T
    <3> HIDE DEF T, base, step
    <3> QED
      BY <1>8, <1>9
  <2> HIDE DEF T, base, Put
  <2> QED
    BY <2>1, <1>1
<1>11. F(fold)
  <2> HIDE DEF T, base, step, Put
  <2> QED
    BY <1>9, <1>10, <1>1
<1>12. F(it)
  <2> HIDE DEF base, Put
  <2> QED
    BY <1>11, Zenon
<1>13. \A S \in SUBSET (1..n) : it[S] = IF S = {} THEN base ELSE Put(it[S \ {Max(S)}], Max(S))
  <2> HIDE DEF base, Put, it
  <2> QED
    BY <1>12, <1>1
<1>14. PICK run : IsRun(run, n, T, base, step) /\ run[n] = it[1..n]
  <2>1. it[{}] = base
    <3> HIDE DEF base, Put, it
    <3> QED
      BY <1>13
  <2>2. ASSUME NEW S \in SUBSET (1..n), S # {}, it[S \ {Max(S)}] \in T
        PROVE  it[S] = step[Max(S)][it[S \ {Max(S)}]]
    <3>1. it[S] = Put(it[S \ {Max(S)}], Max(S)) /\ Max(S) \in 1..n
      <4> HIDE DEF base, Put, it
      <4> QED
        BY <1>8, <1>13, <2>2
    <3> HIDE DEF T, Put, it
    <3> QED
      BY <3>1, <2>2, <1>1
  <2> HIDE DEF T, base, step, it
  <2>3. IsChain(it, n, T, base, step)
    BY <2>1, <2>2 DEF IsChain
  <2>4. IsFolding(it, n, T, base, step)
    BY <2>3, <1>6, <1>0, <1>4 DEF IsFolding
  <2>5. HasRun(it, n, T, base, step)
    BY <2>4, FoldingRuns
  <2> QED
    BY <2>5 DEF HasRun
<1>15. run \in [0..n -> T] /\ run[0] = base /\ \A k \in 1..n : run[k] = Put(run[k - 1], k)
  <2>1. run \in [0..n -> T] /\ run[0] = base /\ \A k \in 1..n : run[k] = step[k][run[k - 1]]
    <3> HIDE DEF T, base, step
    <3> QED
      BY <1>14 DEF IsRun
  <2>2. \A k \in 1..n : run[k - 1] \in T
    <3>1. \A k \in 1..n : k - 1 \in 0..n
      BY <1>0
    <3> HIDE DEF T, base, step
    <3> QED
      BY <2>1, <3>1
  <2> HIDE DEF T, base, Put
  <2> QED
    BY <2>1, <2>2
<1>16. DeltaOfVertices(snapshot, vertices) = run[n]
  <2> HIDE DEF it
  <2> QED
    BY <1>1, <1>2, <1>14
<1> HIDE DEF it, F, step
<1> DEFINE Holds == {k \in 0..n : \A e \in run[k] : AddsVertices(e, vertices, k, snapshot.dict)}
<1>17. 0 \in Holds
  <2>1. run[0] = {NoDelta}
    <3> HIDE DEF T, Put
    <3> QED
      BY <1>15
  <2> QED
    BY <1>0, <1>3, <2>1
<1>18. ASSUME NEW k \in 0..(n - 1), k \in Holds PROVE k + 1 \in Holds
  <2> DEFINE m == k + 1
  <2>1. m \in 1..n /\ m \in 0..n /\ m - 1 = k /\ k \in 0..n /\ k \in Nat
    BY <1>0
  <2>2. run[m] = Put(run[k], m)
    <3> HIDE DEF T, Put, base, m
    <3> QED
      BY <1>15, <2>1
  <2>3. ASSUME NEW new \in run[m] PROVE AddsVertices(new, vertices, m, snapshot.dict)
    <3>1. PICK e \in run[k] : new \in AddDeltaVertex(snapshot, e, vertices[m])
      <4> HIDE DEF m
      <4> QED
        BY <2>2, <2>3
    <3>2. AddsVertices(e, vertices, k, snapshot.dict) /\ vertices[m] \in VertexRow
      BY <1>1, <1>18, <2>1
    <3> QED
      BY <2>1, <3>1, <3>2, AddsNextVertex
  <2> HIDE DEF T, Put, m
  <2> QED
    BY <2>1, <2>3 DEF m
<1>19. 0..n \subseteq Holds
  <2> HIDE DEF Holds
  <2> QED
    BY <1>0, <1>17, <1>18, NumberSteps
<1>20. n \in Holds
  <2>1. n \in 0..n
    BY <1>0
  <2> QED
    BY <1>19, <2>1
<1> QED
  BY <1>16, <1>20 DEF n

-----------------------------------------------------------------------------
(* Lists of edges: one more, two joined, and the ordinals of more vertices. *)
LEMMA ListsAppend ==
  ASSUME NEW X, NEW list \in Seq(X), NEW e \in X, NEW rows, NEW id, NEW dict, NEW ids, NEW outgoing,
         ListsAt(list, rows, id, dict, ids, outgoing), NEW row, Near(row, outgoing) = id,
         IsEntry(e, row, dict, ids, outgoing), \A r \in rows : r.id # row.id
  PROVE  ListsAt(Append(list, e), rows \cup {row}, id, dict, ids, outgoing)
<1> DEFINE new == Append(list, e)
           n == Len(list)
           m == n + 1
<1>1. n \in Nat /\ Len(new) = m /\ DOMAIN new = 1..m /\ new[m] = e /\ \A i \in 1..n : new[i] = list[i]
  OBVIOUS
<1>2. m \in Nat /\ m \in 1..m /\ (\A i \in 1..m : i = m \/ i \in 1..n) /\ 1..n \subseteq 1..m
  BY <1>1
<1> HIDE DEF new, m
<1>3. /\ \A i \in 1..n : \E r \in rows : Near(r, outgoing) = id /\ IsEntry(list[i], r, dict, ids, outgoing)
      /\ \A r \in rows : Near(r, outgoing) = id => \E i \in 1..n : IsEntry(list[i], r, dict, ids, outgoing)
      /\ \A i, j \in 1..n : list[i].id = list[j].id => i = j
  BY DEF ListsAt
<1> HIDE DEF n
<1>4. e.id = row.id /\ \A i \in 1..n : list[i].id # row.id
  BY <1>3 DEF IsEntry
<1>5. ASSUME NEW i \in 1..m, NEW j \in 1..m, new[i].id = new[j].id PROVE i = j
  <2>1. CASE i \in 1..n /\ j \in 1..n
    BY <1>1, <1>3, <1>5, <2>1
  <2>2. CASE i = m /\ j \in 1..n
    BY <1>1, <1>4, <1>5, <2>2
  <2>3. CASE i \in 1..n /\ j = m
    BY <1>1, <1>4, <1>5, <2>3
  <2> QED
    BY <1>2, <2>1, <2>2, <2>3
<1>6. ASSUME NEW i \in 1..m
      PROVE  \E r \in rows \cup {row} : Near(r, outgoing) = id /\ IsEntry(new[i], r, dict, ids, outgoing)
  <2>1. CASE i = m
    BY <1>1, <2>1
  <2>2. CASE i \in 1..n
    <3>1. PICK r \in rows : Near(r, outgoing) = id /\ IsEntry(list[i], r, dict, ids, outgoing)
      BY <1>3, <2>2
    <3> QED
      BY <1>1, <2>2, <3>1
  <2> QED
    BY <1>2, <2>1, <2>2
<1>7. ASSUME NEW r \in rows \cup {row}, Near(r, outgoing) = id
      PROVE  \E i \in 1..m : IsEntry(new[i], r, dict, ids, outgoing)
  <2>1. CASE r \in rows
    <3>1. PICK i \in 1..n : IsEntry(list[i], r, dict, ids, outgoing)
      BY <1>3, <1>7, <2>1
    <3> QED
      BY <1>1, <1>2, <3>1
  <2>2. CASE r = row
    BY <1>1, <1>2, <2>2
  <2> QED
    BY <2>1, <2>2
<1>8. Len(new) \in Nat /\ Len(new) = m /\ DOMAIN new = 1..Len(new)
  BY <1>1, <1>2
<1> QED
  BY <1>5, <1>6, <1>7, <1>8 DEF ListsAt, new

(* A list of the edges at a vertex is still one after a row elsewhere. *)
LEMMA ListsSkip ==
  ASSUME NEW list, NEW rows, NEW id, NEW dict, NEW ids, NEW outgoing,
         ListsAt(list, rows, id, dict, ids, outgoing), NEW row, Near(row, outgoing) # id
  PROVE  ListsAt(list, rows \cup {row}, id, dict, ids, outgoing)
<1>1. /\ Len(list) \in Nat /\ DOMAIN list = 1..Len(list)
      /\ \A i \in 1..Len(list) : \E r \in rows : Near(r, outgoing) = id /\ IsEntry(list[i], r, dict, ids, outgoing)
      /\ \A r \in rows : Near(r, outgoing) = id => \E i \in 1..Len(list) : IsEntry(list[i], r, dict, ids, outgoing)
      /\ \A i, j \in 1..Len(list) : list[i].id = list[j].id => i = j
  BY DEF ListsAt
<1>2. \A r \in rows \cup {row} : Near(r, outgoing) = id => r \in rows
  OBVIOUS
<1> QED
  BY <1>1, <1>2 DEF ListsAt

(* What the arrays list and what the delta lists are together the edges of both. *)
LEMMA ListsJoined ==
  ASSUME NEW X, NEW first \in Seq(X), NEW second \in Seq(X), NEW old, NEW new, NEW id, NEW dict, NEW ids,
         NEW outgoing, ListsAt(first, old, id, dict, ids, outgoing), ListsAt(second, new, id, dict, ids, outgoing),
         \A r \in old, q \in new : r.id # q.id
  PROVE  ListsAt(first \o second, old \cup new, id, dict, ids, outgoing)
<1> DEFINE list == first \o second
           n == Len(first)
           m == Len(second)
           all == n + m
<1>1. /\ n \in Nat /\ m \in Nat /\ Len(list) = all /\ DOMAIN list = 1..all
      /\ \A i \in 1..n : list[i] = first[i]
      /\ \A i \in 1..m : list[n + i] = second[i]
  OBVIOUS
<1>2. /\ all \in Nat
      /\ \A i \in 1..all : i \in 1..n \/ \E j \in 1..m : i = n + j
      /\ \A i \in 1..n : i \in 1..all
      /\ \A j \in 1..m : n + j \in 1..all
  <2>1. \A a, b \in Nat : \A i \in 1..(a + b) : i \in 1..a \/ (i - a \in 1..b /\ i = a + (i - a))
    OBVIOUS
  <2>2. n \in Nat /\ m \in Nat
    OBVIOUS
  <2> HIDE DEF n, m
  <2>3. \A i \in 1..all : i \in 1..n \/ (i - n \in 1..m /\ i = n + (i - n))
    BY <2>1, <2>2
  <2>4. all \in Nat /\ (\A i \in 1..n : i \in 1..all) /\ \A j \in 1..m : n + j \in 1..all
    BY <2>2
  <2> HIDE DEF all
  <2> QED
    BY <2>3, <2>4
<1> HIDE DEF list, all
<1>3. /\ \A i \in 1..n : \E r \in old : Near(r, outgoing) = id /\ IsEntry(first[i], r, dict, ids, outgoing)
      /\ \A r \in old : Near(r, outgoing) = id => \E i \in 1..n : IsEntry(first[i], r, dict, ids, outgoing)
      /\ \A i, j \in 1..n : first[i].id = first[j].id => i = j
  BY DEF ListsAt
<1>4. /\ \A i \in 1..m : \E r \in new : Near(r, outgoing) = id /\ IsEntry(second[i], r, dict, ids, outgoing)
      /\ \A r \in new : Near(r, outgoing) = id => \E i \in 1..m : IsEntry(second[i], r, dict, ids, outgoing)
      /\ \A i, j \in 1..m : second[i].id = second[j].id => i = j
  BY DEF ListsAt
<1> HIDE DEF n, m
<1>5. /\ \A i \in 1..n : \E r \in old : first[i].id = r.id
      /\ \A i \in 1..m : \E r \in new : second[i].id = r.id
  BY <1>3, <1>4 DEF IsEntry
<1>6. \A i \in 1..n, j \in 1..m : first[i].id # second[j].id
  BY <1>5
<1>7. ASSUME NEW i \in 1..all, NEW j \in 1..all, list[i].id = list[j].id
      PROVE  i = j
  <2>1. CASE i \in 1..n /\ j \in 1..n
    BY <1>1, <1>3, <1>7, <2>1
  <2>2. ASSUME NEW k \in 1..m, i = n + k, j \in 1..n PROVE FALSE
    BY <1>1, <1>6, <1>7, <2>2
  <2>3. ASSUME NEW k \in 1..m, j = n + k, i \in 1..n PROVE FALSE
    BY <1>1, <1>6, <1>7, <2>3
  <2>4. ASSUME NEW k \in 1..m, i = n + k, NEW l \in 1..m, j = n + l PROVE i = j
    BY <1>1, <1>4, <1>7, <2>4
  <2> QED
    BY <1>2, <2>1, <2>2, <2>3, <2>4
<1>8. ASSUME NEW i \in 1..all
      PROVE  \E r \in old \cup new : Near(r, outgoing) = id /\ IsEntry(list[i], r, dict, ids, outgoing)
  <2>1. ASSUME i \in 1..n PROVE \E r \in old : Near(r, outgoing) = id /\ IsEntry(list[i], r, dict, ids, outgoing)
    BY <1>1, <1>3, <2>1
  <2>2. ASSUME NEW j \in 1..m, i = n + j
        PROVE  \E r \in new : Near(r, outgoing) = id /\ IsEntry(list[i], r, dict, ids, outgoing)
    BY <1>1, <1>4, <2>2
  <2> QED
    BY <1>2, <2>1, <2>2
<1>9. ASSUME NEW r \in old \cup new, Near(r, outgoing) = id
      PROVE  \E i \in 1..all : IsEntry(list[i], r, dict, ids, outgoing)
  <2>1. CASE r \in old
    <3>1. PICK i \in 1..n : IsEntry(first[i], r, dict, ids, outgoing)
      BY <1>3, <1>9, <2>1
    <3> QED
      BY <1>1, <1>2, <3>1
  <2>2. CASE r \in new
    <3>1. PICK i \in 1..m : IsEntry(second[i], r, dict, ids, outgoing)
      BY <1>4, <1>9, <2>2
    <3> QED
      BY <1>1, <1>2, <3>1
  <2> QED
    BY <2>1, <2>2
<1>10. Len(list) = all /\ Len(list) \in Nat /\ DOMAIN list = 1..Len(list)
  BY <1>1, <1>2
<1> QED
  BY <1>7, <1>8, <1>9, <1>10 DEF ListsAt, list

(* More ordinals behind those in use change no list. *)
LEMMA ListsWider ==
  ASSUME NEW list, NEW rows, NEW id, NEW dict, NEW ids, NEW outgoing,
         ListsAt(list, rows, id, dict, ids, outgoing), NEW wide, DOMAIN ids \subseteq DOMAIN wide,
         \A o \in DOMAIN ids : wide[o] = ids[o]
  PROVE  ListsAt(list, rows, id, dict, wide, outgoing)
<1>1. \A e, row : IsEntry(e, row, dict, ids, outgoing) => IsEntry(e, row, dict, wide, outgoing)
  BY DEF IsEntry
<1>2. /\ Len(list) \in Nat /\ DOMAIN list = 1..Len(list)
      /\ \A i \in 1..Len(list) : \E r \in rows : Near(r, outgoing) = id /\ IsEntry(list[i], r, dict, ids, outgoing)
      /\ \A r \in rows : Near(r, outgoing) = id => \E i \in 1..Len(list) : IsEntry(list[i], r, dict, ids, outgoing)
      /\ \A i, j \in 1..Len(list) : list[i].id = list[j].id => i = j
  BY DEF ListsAt
<1> QED
  BY <1>1, <1>2 DEF ListsAt

-----------------------------------------------------------------------------
(* The vertex ids of a snapshot and its delta by ordinal, found by Ordinal. *)
FindsAll(snapshot, d, ids) ==
  /\ DOMAIN ids \in SUBSET Nat
  /\ \A o, p \in DOMAIN ids : ids[o] = ids[p] => o = p
  /\ \A id \in Nat : Ordinal(snapshot, d, id) = {o \in DOMAIN ids : ids[o] = id}

DeltaList(d, o, outgoing) == At(IF outgoing THEN d.out ELSE d.in, o)

(* A delta grown by an edge at its two ends. *)
AddsEdge(new, snapshot, d, ids, edge) ==
  /\ new \in Deltas /\ new.ids = d.ids /\ new.rows = d.rows /\ new.labels = d.labels /\ new.byLabel = d.byLabel
  /\ \E s, t \in DOMAIN ids, l \in 1..Len(snapshot.dict) :
        /\ ids[s] = edge.source /\ ids[t] = edge.target /\ snapshot.dict[l] = edge.label
        /\ new.out = PushBack(d.out, s, [neighbor |-> t, id |-> edge.id, label |-> l])
        /\ new.in = PushBack(d.in, t, [neighbor |-> s, id |-> edge.id, label |-> l])

(* An edge of the delta ends the list of its source and that of its target. *)
LEMMA AddDeltaEdgeExact ==
  ASSUME NEW snapshot, IsDict(snapshot.dict), NEW d \in Deltas, NEW ids, FindsAll(snapshot, d, ids),
         NEW edge \in EdgeRow, NEW row, NEW new \in AddDeltaEdge(snapshot, d, edge, row)
  PROVE  AddsEdge(new, snapshot, d, ids, edge)
<1> DEFINE dict == snapshot.dict
<1>1. PICK s \in Ordinal(snapshot, d, edge.source), t \in Ordinal(snapshot, d, edge.target),
           l \in FindLabel(dict, edge.label) :
             new = [d EXCEPT !.out = PushBack(@, s, [neighbor |-> t, id |-> edge.id, label |-> l]),
                             !.in = PushBack(@, t, [neighbor |-> s, id |-> edge.id, label |-> l])]
  <2>1. PICK s \in Ordinal(snapshot, d, edge.source), t \in Ordinal(snapshot, d, edge.target),
             l \in FindLabel(dict, edge.label) : new = WithDeltaEdge(d, edge.id, s, t, l)
    BY DEF AddDeltaEdge
  <2> QED
    BY <2>1 DEF WithDeltaEdge
<1>2. edge.source \in Nat /\ edge.target \in Nat /\ edge.id \in Nat
  BY DEF EdgeRow
<1>3. /\ s \in DOMAIN ids /\ ids[s] = edge.source /\ s \in Nat
      /\ t \in DOMAIN ids /\ ids[t] = edge.target /\ t \in Nat
  BY <1>2 DEF FindsAll
<1>4. l \in 1..Len(dict) /\ dict[l] = edge.label /\ l \in Nat
  BY DEF FindLabel, IsDict
<1> DEFINE to == [neighbor |-> t, id |-> edge.id, label |-> l]
           back == [neighbor |-> s, id |-> edge.id, label |-> l]
<1>5. to \in Entry /\ back \in Entry
  BY <1>2, <1>3, <1>4 DEF Entry
<1>6. d.out \in Maps(Entry) /\ d.in \in Maps(Entry)
  BY DEF Deltas
<1> HIDE DEF to, back
<1>7. PushBack(d.out, s, to) \in Maps(Entry) /\ PushBack(d.in, t, back) \in Maps(Entry)
  BY <1>3, <1>5, <1>6, PushBackExact
<1>8. new = [d EXCEPT !.out = PushBack(d.out, s, to), !.in = PushBack(d.in, t, back)]
  BY <1>1 DEF to, back
<1>9. /\ new \in Deltas /\ new.ids = d.ids /\ new.rows = d.rows /\ new.labels = d.labels /\ new.byLabel = d.byLabel
      /\ new.out = PushBack(d.out, s, to) /\ new.in = PushBack(d.in, t, back)
  BY <1>7, <1>8 DEF Deltas
<1>10. /\ ids[s] = edge.source /\ ids[t] = edge.target /\ snapshot.dict[l] = edge.label
       /\ s \in DOMAIN ids /\ t \in DOMAIN ids /\ l \in 1..Len(snapshot.dict)
  BY <1>3, <1>4
<1> QED
  BY <1>9, <1>10 DEF AddsEdge, to, back

(* A delta that adds these rows to the lists of its snapshot's ordinals. *)
AddsEdges(d, newIds, newRows, newLabels, rows, dict, ids) ==
  /\ d \in Deltas /\ d.ids = newIds /\ d.rows = newRows /\ d.labels = newLabels /\ Posts(d)
  /\ \A o \in DOMAIN ids, outgoing \in BOOLEAN :
        ListsAt(DeltaList(d, o, outgoing), rows, ids[o], dict, ids, outgoing)

(* AddDeltaEdge, whenever it finds both ends, adds the edge to the lists of these two and
   to no other list. *)
LEMMA AddsNextEdge ==
  ASSUME NEW snapshot, IsDict(snapshot.dict), NEW d, NEW ids, FindsAll(snapshot, d, ids),
         NEW newIds, NEW newRows, NEW newLabels, NEW rows, AddsEdges(d, newIds, newRows, newLabels, rows, snapshot.dict, ids),
         NEW edge \in EdgeRow, \A r \in rows : r.id # edge.id,
         NEW row, NEW new \in AddDeltaEdge(snapshot, d, edge, row)
  PROVE  AddsEdges(new, newIds, newRows, newLabels, rows \cup {edge}, snapshot.dict, ids)
<1> DEFINE dict == snapshot.dict
<1>1. d \in Deltas /\ d.ids = newIds /\ d.rows = newRows /\ d.labels = newLabels /\ Posts(d)
  BY DEF AddsEdges
<1>2. /\ new \in Deltas /\ new.ids = newIds /\ new.rows = newRows /\ new.labels = newLabels /\ new.byLabel = d.byLabel
      /\ \E s, t \in DOMAIN ids, l \in 1..Len(dict) :
            /\ ids[s] = edge.source /\ ids[t] = edge.target /\ dict[l] = edge.label
            /\ new.out = PushBack(d.out, s, [neighbor |-> t, id |-> edge.id, label |-> l])
            /\ new.in = PushBack(d.in, t, [neighbor |-> s, id |-> edge.id, label |-> l])
  <2>1. AddsEdge(new, snapshot, d, ids, edge)
    BY <1>1, AddDeltaEdgeExact
  <2> QED
    BY <1>1, <2>1 DEF AddsEdge
<1>3. PICK s \in DOMAIN ids, t \in DOMAIN ids, l \in 1..Len(dict) :
        /\ ids[s] = edge.source /\ ids[t] = edge.target /\ dict[l] = edge.label
        /\ new.out = PushBack(d.out, s, [neighbor |-> t, id |-> edge.id, label |-> l])
        /\ new.in = PushBack(d.in, t, [neighbor |-> s, id |-> edge.id, label |-> l])
  BY <1>2
<1>4. /\ s \in Nat /\ t \in Nat /\ l \in Nat /\ edge.id \in Nat
      /\ \A o, p \in DOMAIN ids : ids[o] = ids[p] => o = p
  BY DEF FindsAll, EdgeRow
<1> DEFINE to == [neighbor |-> t, id |-> edge.id, label |-> l]
           back == [neighbor |-> s, id |-> edge.id, label |-> l]
<1>5. to \in Entry /\ back \in Entry
  BY <1>4 DEF Entry
<1>6. d.out \in Maps(Entry) /\ d.in \in Maps(Entry)
  BY <1>1 DEF Deltas
<1>7. /\ to.neighbor = t /\ to.id = edge.id /\ to.label = l
      /\ back.neighbor = s /\ back.id = edge.id /\ back.label = l
  OBVIOUS
<1> HIDE DEF to, back
<1>8. /\ At(new.out, s) = Append(At(d.out, s), to) /\ \A o : o # s => At(new.out, o) = At(d.out, o)
      /\ \A o : At(d.out, o) \in Seq(Entry)
  <2>1. new.out = PushBack(d.out, s, to)
    BY <1>3 DEF to
  <2> QED
    BY SMTT(20), <1>4, <1>5, <1>6, <2>1, PushBackExact
<1>9. /\ At(new.in, t) = Append(At(d.in, t), back) /\ \A o : o # t => At(new.in, o) = At(d.in, o)
      /\ \A o : At(d.in, o) \in Seq(Entry)
  <2>1. new.in = PushBack(d.in, t, back)
    BY <1>3 DEF back
  <2>2. t \in Nat /\ back \in Entry /\ d.in \in Maps(Entry)
    BY <1>4, <1>5, <1>6
  <2>3. /\ At(PushBack(d.in, t, back), t) = Append(At(d.in, t), back)
        /\ \A o : o # t => At(PushBack(d.in, t, back), o) = At(d.in, o)
        /\ \A o : At(d.in, o) \in Seq(Entry)
    BY SMTT(20), <2>2, PushBackExact
  <2> QED
    BY <2>1, <2>3
<1>10. /\ IsEntry(to, edge, dict, ids, TRUE) /\ Near(edge, TRUE) = ids[s]
       /\ IsEntry(back, edge, dict, ids, FALSE) /\ Near(edge, FALSE) = ids[t]
  BY <1>3, <1>7 DEF IsEntry, Near, Far
<1>11. ASSUME NEW o \in DOMAIN ids
       PROVE  /\ ListsAt(At(d.out, o), rows, ids[o], dict, ids, TRUE)
              /\ ListsAt(At(d.in, o), rows, ids[o], dict, ids, FALSE)
  <2>1. \A outgoing \in BOOLEAN : ListsAt(DeltaList(d, o, outgoing), rows, ids[o], dict, ids, outgoing)
    BY DEF AddsEdges
  <2>2. DeltaList(d, o, TRUE) = At(d.out, o) /\ DeltaList(d, o, FALSE) = At(d.in, o)
    BY DEF DeltaList
  <2> HIDE DEF dict
  <2> QED
    BY <2>1, <2>2
<1> HIDE DEF dict
<1>12. ASSUME NEW o \in DOMAIN ids
       PROVE  ListsAt(At(new.out, o), rows \cup {edge}, ids[o], dict, ids, TRUE)
  <2>1. CASE o = s
    <3>1. ListsAt(Append(At(d.out, s), to), rows \cup {edge}, ids[s], dict, ids, TRUE)
      <4>1. ListsAt(At(d.out, s), rows, ids[s], dict, ids, TRUE)
        BY <1>11
      <4> QED
        BY <4>1, <1>5, <1>8, <1>10, ListsAppend
    <3> QED
      BY <1>8, <2>1, <3>1
  <2>2. CASE o # s
    <3>1. Near(edge, TRUE) # ids[o]
      BY <1>4, <1>10, <2>2
    <3> QED
      BY <1>8, <1>11, <2>2, <3>1, ListsSkip
  <2> QED
    BY <2>1, <2>2
<1>13. ASSUME NEW o \in DOMAIN ids
       PROVE  ListsAt(At(new.in, o), rows \cup {edge}, ids[o], dict, ids, FALSE)
  <2>1. CASE o = t
    <3>1. ListsAt(Append(At(d.in, t), back), rows \cup {edge}, ids[t], dict, ids, FALSE)
      <4>1. ListsAt(At(d.in, t), rows, ids[t], dict, ids, FALSE)
        BY <1>11
      <4> QED
        BY <4>1, <1>5, <1>9, <1>10, ListsAppend
    <3> QED
      BY <1>9, <2>1, <3>1
  <2>2. CASE o # t
    <3>1. Near(edge, FALSE) # ids[o]
      BY <1>4, <1>10, <2>2
    <3> QED
      BY <1>9, <1>11, <2>2, <3>1, ListsSkip
  <2> QED
    BY <2>1, <2>2
<1>14. ASSUME NEW o \in DOMAIN ids, NEW outgoing \in BOOLEAN
       PROVE  ListsAt(DeltaList(new, o, outgoing), rows \cup {edge}, ids[o], dict, ids, outgoing)
  <2>1. CASE outgoing = TRUE
    BY <1>12, <2>1 DEF DeltaList
  <2>2. CASE outgoing = FALSE
    BY <1>13, <2>2 DEF DeltaList
  <2> QED
    BY <2>1, <2>2
<1>15. Posts(new)
  <2>1. new.ids = d.ids /\ new.rows = d.rows /\ new.labels = d.labels /\ new.byLabel = d.byLabel /\ Posts(d)
    BY <1>1, <1>2
  <2> QED
    BY ONLY <2>1 DEF Posts
<1> QED
  BY <1>2, <1>14, <1>15 DEF AddsEdges, dict

(* The loop over the scanned edges adds them all, or gives up. *)
LEMMA AddDeltaEdgesExact ==
  ASSUME NEW snapshot, IsDict(snapshot.dict), NEW edges \in Seq(EdgeRow),
         \A i, j \in 1..Len(edges) : edges[i].id = edges[j].id => i = j,
         NEW from \in 0..Len(edges), NEW newIds, NEW newRows, NEW newLabels, NEW ids,
         \A e \in Deltas : e.ids = newIds => FindsAll(snapshot, e, ids),
         NEW deltas, \A e \in deltas : AddsEdges(e, newIds, newRows, newLabels, {}, snapshot.dict, ids),
         NEW d \in AddDeltaEdges(snapshot, deltas, edges, from)
  PROVE  AddsEdges(d, newIds, newRows, newLabels, {edges[from + j] : j \in 1..(Len(edges) - from)}, snapshot.dict, ids)
<1> DEFINE n == Len(edges) - from
           order == [i \in 1..n |-> from + i]
           Same == {e \in Deltas : e.ids = newIds}
           T == SUBSET Same
           base == deltas
           Put(acc, k) == UNION {AddDeltaEdge(snapshot, e, edges[k], k - 1) : e \in acc}
           step == [k \in 1..n |-> [acc \in T |-> Put(acc, order[k])]]
           F(it) == it = [S \in SUBSET (DOMAIN order) |->
                            IF S = {} THEN base ELSE Put(it[S \ {Max(S)}], order[Max(S)])]
           it == CHOOSE it : F(it)
<1>0. n \in Nat
  OBVIOUS
<1>1. DOMAIN order = 1..n /\ \A k \in 1..n : order[k] = from + k /\ from + k \in 1..Len(edges) /\ edges[from + k] \in EdgeRow
  OBVIOUS
<1>2. AddDeltaEdges(snapshot, deltas, edges, from) = it[DOMAIN order]
  BY DEF AddDeltaEdges, FoldLeft, MapThenFoldSet
<1>4. base \in T
  BY DEF AddsEdges
<1>5. \A acc \in T, k \in 1..n : Put(acc, order[k]) \in T
  <2> SUFFICES ASSUME NEW acc \in T, NEW k \in 1..n, NEW e \in acc,
                      NEW new \in AddDeltaEdge(snapshot, e, edges[order[k]], order[k] - 1)
               PROVE  new \in Same
    BY SMTT(20)
  <2>1. e \in Deltas /\ e.ids = newIds /\ FindsAll(snapshot, e, ids) /\ edges[order[k]] \in EdgeRow
    BY <1>1
  <2> HIDE DEF order
  <2>2. AddsEdge(new, snapshot, e, ids, edges[order[k]])
    BY <2>1, AddDeltaEdgeExact
  <2>3. new \in Deltas /\ new.ids = e.ids
    BY <2>2 DEF AddsEdge
  <2> QED
    BY <2>1, <2>3
<1> HIDE DEF n, order
<1>6. step \in [1..n -> [T -> T]]
  <2> HIDE DEF T, Put
  <2> QED
    BY <1>0, <1>5
<1>7. PICK fold : IsFold(fold, n, T, base, step)
  <2> HIDE DEF T, base, step
  <2> QED
    BY <1>0, <1>4, <1>6, FoldRuns
<1>8. \A S \in SUBSET (1..n) : S # {} => Max(S) \in 1..n /\ S \ {Max(S)} \in SUBSET (1..n)
  BY <1>0, MaxOf
<1>9. /\ fold \in [SUBSET (1..n) -> T]
      /\ \A S \in SUBSET (1..n) :
            fold[S] = IF S = {} THEN base ELSE step[Max(S)][fold[S \ {Max(S)}]]
  <2> HIDE DEF T, base, step
  <2> QED
    BY <1>7 DEF IsFold
<1>10. \A S \in SUBSET (1..n) :
         fold[S] = IF S = {} THEN base ELSE Put(fold[S \ {Max(S)}], order[Max(S)])
  <2> SUFFICES ASSUME NEW S \in SUBSET (1..n), S # {}
               PROVE  step[Max(S)][fold[S \ {Max(S)}]] = Put(fold[S \ {Max(S)}], order[Max(S)])
    <3> HIDE DEF T, base, step, Put
    <3> QED
      BY <1>9
  <2>1. Max(S) \in 1..n /\ fold[S \ {Max(S)}] \in T
    <3> HIDE DEF T, base, step
    <3> QED
      BY <1>8, <1>9
  <2> HIDE DEF T, base, Put
  <2> QED
    BY <2>1, <1>1
<1>11. F(fold)
  <2> HIDE DEF T, base, step, Put
  <2> QED
    BY <1>9, <1>10, <1>1
<1>12. F(it)
  <2> HIDE DEF base, Put
  <2> QED
    BY <1>11, Zenon
<1>13. \A S \in SUBSET (1..n) : it[S] = IF S = {} THEN base ELSE Put(it[S \ {Max(S)}], order[Max(S)])
  <2> HIDE DEF base, Put, it
  <2> QED
    BY <1>12, <1>1
<1>14. PICK run : IsRun(run, n, T, base, step) /\ run[n] = it[1..n]
  <2>1. it[{}] = base
    <3> HIDE DEF base, Put, it
    <3> QED
      BY <1>13
  <2>2. ASSUME NEW S \in SUBSET (1..n), S # {}, it[S \ {Max(S)}] \in T
        PROVE  it[S] = step[Max(S)][it[S \ {Max(S)}]]
    <3>1. it[S] = Put(it[S \ {Max(S)}], order[Max(S)]) /\ Max(S) \in 1..n
      <4> HIDE DEF base, Put, it
      <4> QED
        BY <1>8, <1>13, <2>2
    <3> HIDE DEF T, Put, it
    <3> QED
      BY <3>1, <2>2, <1>1
  <2> HIDE DEF T, base, step, it
  <2>3. IsChain(it, n, T, base, step)
    BY <2>1, <2>2 DEF IsChain
  <2>4. IsFolding(it, n, T, base, step)
    BY <2>3, <1>6, <1>0, <1>4 DEF IsFolding
  <2>5. HasRun(it, n, T, base, step)
    BY <2>4, FoldingRuns
  <2> QED
    BY <2>5 DEF HasRun
<1>15. run \in [0..n -> T] /\ run[0] = base /\ \A k \in 1..n : run[k] = Put(run[k - 1], order[k])
  <2>1. run \in [0..n -> T] /\ run[0] = base /\ \A k \in 1..n : run[k] = step[k][run[k - 1]]
    <3> HIDE DEF T, base, step
    <3> QED
      BY <1>14 DEF IsRun
  <2>2. \A k \in 1..n : run[k - 1] \in T
    <3>1. \A k \in 1..n : k - 1 \in 0..n
      BY <1>0
    <3> HIDE DEF T, base, step
    <3> QED
      BY <2>1, <3>1
  <2> HIDE DEF T, base, Put
  <2> QED
    BY <2>1, <2>2
<1>16. AddDeltaEdges(snapshot, deltas, edges, from) = run[n]
  <2> HIDE DEF it
  <2> QED
    BY <1>1, <1>2, <1>14
<1> HIDE DEF it, F, step
<1> DEFINE Rows(k) == {edges[from + j] : j \in 1..k}
           Holds == {k \in 0..n : \A e \in run[k] : AddsEdges(e, newIds, newRows, newLabels, Rows(k), snapshot.dict, ids)}
<1>17. 0 \in Holds
  <2>1. run[0] = deltas
    <3> HIDE DEF T, Put
    <3> QED
      BY <1>15
  <2>2. Rows(0) = {}
    OBVIOUS
  <2> HIDE DEF Rows
  <2>3. \A e \in run[0] : AddsEdges(e, newIds, newRows, newLabels, Rows(0), snapshot.dict, ids)
    BY <2>1, <2>2
  <2> QED
    BY <1>0, <2>3
<1>18. ASSUME NEW k \in 0..(n - 1), k \in Holds PROVE k + 1 \in Holds
  <2> DEFINE m == k + 1
  <2>1. m \in 1..n /\ m \in 0..n /\ m - 1 = k /\ k \in 0..n /\ k \in Nat
    BY <1>0
  <2>2. run[m] = Put(run[k], order[m])
    <3> HIDE DEF T, Put, base, m
    <3> QED
      BY <1>15, <2>1
  <2>3. run[k] \in T
    <3> HIDE DEF T, Put, base, m
    <3> QED
      BY <1>15, <2>1
  <2>4. \A j : j \in 1..m <=> j = m \/ j \in 1..k
    BY <2>1
  <2>5. \A j \in 1..k : from + j \in 1..Len(edges) /\ from + m \in 1..Len(edges) /\ from + j # from + m
    BY <1>0, <2>1 DEF n
  <2>6. order[m] = from + m /\ edges[from + m] \in EdgeRow
    BY <1>1, <2>1
  <2> HIDE DEF m
  <2>7. Rows(m) = Rows(k) \cup {edges[from + m]}
    BY <2>4
  <2>8. \A r \in Rows(k) : r.id # edges[from + m].id
    BY <2>5
  <2>9. ASSUME NEW new \in run[m] PROVE AddsEdges(new, newIds, newRows, newLabels, Rows(m), snapshot.dict, ids)
    <3>1. PICK e \in run[k] : new \in AddDeltaEdge(snapshot, e, edges[from + m], (from + m) - 1)
      <4>1. PICK e \in run[k] : new \in AddDeltaEdge(snapshot, e, edges[order[m]], order[m] - 1)
        BY <2>2, <2>9
      <4>2. order[m] = from + m
        BY <2>6
      <4>3. new \in AddDeltaEdge(snapshot, e, edges[from + m], (from + m) - 1)
        BY <4>1, <4>2, Zenon
      <4> QED
        BY <4>3
    <3>2. AddsEdges(e, newIds, newRows, newLabels, Rows(k), snapshot.dict, ids)
      BY <1>18
    <3>3. FindsAll(snapshot, e, ids)
      BY <2>3
    <3> HIDE DEF Rows
    <3>4. AddsEdges(new, newIds, newRows, newLabels, Rows(k) \cup {edges[from + m]}, snapshot.dict, ids)
      BY <2>6, <2>8, <3>1, <3>2, <3>3, AddsNextEdge
    <3> QED
      BY <2>7, <3>4
  <2> HIDE DEF T, Put, Rows
  <2> QED
    BY <2>1, <2>9 DEF m
<1>19. 0..n \subseteq Holds
  <2> HIDE DEF Holds
  <2> QED
    BY <1>0, <1>17, <1>18, NumberSteps
<1>20. n \in Holds
  <2>1. n \in 0..n
    BY <1>0
  <2> QED
    BY <1>19, <2>1
<1> QED
  BY <1>16, <1>20 DEF n

-----------------------------------------------------------------------------
(* The vertex id at each ordinal of a snapshot and its delta. *)
AllIds(snapshot, d) ==
  [o \in 0..(snapshot.size + Len(d.ids) - 1) |-> VertexId(snapshot, d, o)]

(* The ordinals of the snapshot come first, and those after it are the delta's. *)
LEMMA AllIdsExact ==
  ASSUME NEW snapshot, snapshot.size \in Nat, NEW d, Len(d.ids) \in Nat
  PROVE  /\ DOMAIN AllIds(snapshot, d) = 0..(snapshot.size + Len(d.ids) - 1)
         /\ \A o \in 0..(snapshot.size - 1) :
               o \in DOMAIN AllIds(snapshot, d) /\ AllIds(snapshot, d)[o] = snapshot.ids[o]
         /\ \A j \in 1..Len(d.ids) :
               /\ snapshot.size + j - 1 \in DOMAIN AllIds(snapshot, d)
               /\ AllIds(snapshot, d)[snapshot.size + j - 1] = d.ids[j]
         /\ \A o \in DOMAIN AllIds(snapshot, d) :
               \/ o \in 0..(snapshot.size - 1)
               \/ \E j \in 1..Len(d.ids) : o = snapshot.size + j - 1
<1> DEFINE size == snapshot.size
           m == Len(d.ids)
           ids == AllIds(snapshot, d)
<1>1. size \in Nat /\ m \in Nat
  OBVIOUS
<1>2. DOMAIN ids = 0..(size + m - 1) /\ \A o \in 0..(size + m - 1) : ids[o] = VertexId(snapshot, d, o)
  BY DEF AllIds
<1>3. \A o : VertexId(snapshot, d, o) = IF o < size THEN snapshot.ids[o] ELSE d.ids[o - size + 1]
  BY DEF VertexId
<1> HIDE DEF size, m, ids
<1>4. ASSUME NEW o \in 0..(size - 1) PROVE o \in DOMAIN ids /\ ids[o] = snapshot.ids[o]
  BY <1>1, <1>2, <1>3
<1>5. ASSUME NEW j \in 1..m PROVE size + j - 1 \in DOMAIN ids /\ ids[size + j - 1] = d.ids[j]
  <2>1. size + j - 1 \in 0..(size + m - 1) /\ ~(size + j - 1 < size) /\ (size + j - 1) - size + 1 = j
    BY <1>1
  <2> QED
    BY <1>2, <1>3, <2>1
<1>6. ASSUME NEW o \in DOMAIN ids PROVE o \in 0..(size - 1) \/ \E j \in 1..m : o = size + j - 1
  <2>1. o \in 0..(size - 1) \/ (o - size + 1 \in 1..m /\ o = size + (o - size + 1) - 1)
    BY <1>1, <1>2
  <2> QED
    BY <2>1
<1> QED
  BY <1>2, <1>4, <1>5, <1>6 DEF size, m, ids

(* What a snapshot's vertices and a delta's are, together: those of the tables. *)
Covers(snapshot, d, old, vertices, edges) ==
  /\ old \in 0..Len(vertices)
  /\ SnapshotOf(snapshot, SubSeq(vertices, 1, old), edges)
  /\ Len(d.ids) = Len(vertices) - old
  /\ \A j \in 1..Len(d.ids) : d.ids[j] = vertices[old + j].id

Reaches(ids, vertices) ==
  \A k \in 1..Len(vertices) : \E o \in DOMAIN ids : ids[o] = vertices[k].id

(* The elements of a sequence that agrees with another one as far as it goes. *)
LEMMA SetOfPrefix ==
  ASSUME NEW X, NEW s, NEW n, NEW t \in Seq(X), Len(t) = n, \A k \in 1..n : t[k] = s[k]
  PROVE  ToSet(t) = {s[k] : k \in 1..n}
<1>1. DOMAIN t = 1..n
  OBVIOUS
<1> QED
  BY <1>1 DEF ToSet

(* The ordinals of the delta at which an id is found. *)
LEMMA PlacesBehind ==
  ASSUME NEW size, NEW m, NEW ids, NEW id
  PROVE  \A p : p \in {size + k - 1 : k \in {k \in 1..m : ids[k] = id}} <=>
                    \E k \in 1..m : p = size + k - 1 /\ ids[k] = id
OBVIOUS

(* FindOrdinal, first in the arrays and then in the delta, finds each vertex of the tables,
   at the one ordinal that has its id. *)
LEMMA OrdinalExact ==
  ASSUME NEW vertices \in Seq(VertexRow),
         \A i, j \in 1..Len(vertices) : vertices[i].id = vertices[j].id => i = j,
         NEW snapshot, NEW d, d.ids \in Seq(Nat), NEW old, NEW edges, Covers(snapshot, d, old, vertices, edges)
  PROVE  /\ FindsAll(snapshot, d, AllIds(snapshot, d))
         /\ Reaches(AllIds(snapshot, d), vertices)
<1> DEFINE size == snapshot.size
           m == Len(d.ids)
           ids == AllIds(snapshot, d)
           before == SubSeq(vertices, 1, old)
<1>1. /\ old \in 0..Len(vertices) /\ m = Len(vertices) - old /\ m \in Nat /\ Len(vertices) \in Nat
      /\ SnapshotOf(snapshot, before, edges)
      /\ DOMAIN d.ids = 1..m /\ \A j \in 1..m : d.ids[j] \in Nat /\ d.ids[j] = vertices[old + j].id
  <2>1. m \in Nat /\ Len(vertices) \in Nat /\ DOMAIN d.ids = 1..m /\ \A j \in 1..m : d.ids[j] \in Nat
    OBVIOUS
  <2>2. old \in 0..Len(vertices) /\ m = Len(vertices) - old
    BY DEF Covers
  <2>3. SnapshotOf(snapshot, before, edges)
    BY DEF Covers
  <2>4. \A j \in 1..m : d.ids[j] = vertices[old + j].id
    BY DEF Covers
  <2> HIDE DEF m, before
  <2> QED
    BY <2>1, <2>2, <2>3, <2>4
<1>2. before \in Seq(VertexRow) /\ Len(before) = old /\ \A k \in 1..old : before[k] = vertices[k]
  BY <1>1
<1> HIDE DEF before
<1>3. ToSet(before) = {vertices[k] : k \in 1..old}
  BY <1>2, SetOfPrefix
<1>4. /\ size \in Nat /\ AscendingIds(snapshot.ids, size) /\ snapshot.dense = IsDense(snapshot.ids)
      /\ \A v \in ToSet(before) : \E o \in 0..(size - 1) : snapshot.ids[o] = v.id
      /\ \A o \in 0..(size - 1) : \E v \in ToSet(before) : v.id = snapshot.ids[o]
  BY <1>1 DEF SnapshotOf
<1>5. /\ DOMAIN ids = 0..(size + m - 1)
      /\ \A o \in 0..(size - 1) : o \in DOMAIN ids /\ ids[o] = snapshot.ids[o]
      /\ \A j \in 1..m : size + j - 1 \in DOMAIN ids /\ ids[size + j - 1] = d.ids[j]
      /\ \A o \in DOMAIN ids : o \in 0..(size - 1) \/ \E j \in 1..m : o = size + j - 1
  BY <1>1, <1>4, AllIdsExact
<1> HIDE DEF ids, size, m
<1>6. \A o, p \in 0..(size - 1) : snapshot.ids[o] = snapshot.ids[p] => o = p
  <2>1. \A o, p \in 0..(size - 1) : o < p \/ p < o \/ o = p
    BY <1>4
  <2>2. \A o \in 0..(size - 1) : snapshot.ids[o] \in Nat
    BY <1>4 DEF AscendingIds
  <2>3. \A o, p \in 0..(size - 1) : o < p => snapshot.ids[o] < snapshot.ids[p]
    BY <1>4 DEF AscendingIds
  <2> QED
    BY <2>1, <2>2, <2>3
<1>7. \A j \in 1..m : old + j \in 1..Len(vertices) /\ old + j \notin 1..old
  BY <1>1
<1>8. \A k \in 1..old : k \in 1..Len(vertices)
  BY <1>1
<1>9. \A o \in 0..(size - 1) : \E k \in 1..old : snapshot.ids[o] = vertices[k].id
  BY SMTT(20), <1>3, <1>4
<1>10. ASSUME NEW o \in 0..(size - 1), NEW j \in 1..m, snapshot.ids[o] = d.ids[j] PROVE FALSE
  <2>1. PICK k \in 1..old : snapshot.ids[o] = vertices[k].id
    BY <1>9
  <2>2. vertices[k].id = vertices[old + j].id
    BY <1>1, <1>10, <2>1
  <2>3. k = old + j
    BY <1>7, <1>8, <2>2
  <2> QED
    BY <1>7, <2>3
<1>11. ASSUME NEW i \in 1..m, NEW j \in 1..m, d.ids[i] = d.ids[j] PROVE i = j
  <2>1. vertices[old + i].id = vertices[old + j].id
    BY <1>1, <1>11
  <2>2. old + i = old + j
    BY <1>7, <2>1
  <2> QED
    BY <1>1, <2>2
<1>12. ASSUME NEW o \in DOMAIN ids, NEW p \in DOMAIN ids, ids[o] = ids[p]
       PROVE  o = p
  <2>1. CASE o \in 0..(size - 1) /\ p \in 0..(size - 1)
    BY <1>5, <1>6, <1>12, <2>1
  <2>2. ASSUME NEW i \in 1..m, o = size + i - 1, p \in 0..(size - 1) PROVE FALSE
    BY <1>5, <1>10, <1>12, <2>2
  <2>3. ASSUME NEW i \in 1..m, p = size + i - 1, o \in 0..(size - 1) PROVE FALSE
    BY <1>5, <1>10, <1>12, <2>3
  <2>4. ASSUME NEW i \in 1..m, o = size + i - 1, NEW j \in 1..m, p = size + j - 1 PROVE i = j
    BY <1>5, <1>11, <1>12, <2>4
  <2> QED
    BY <1>5, <2>1, <2>2, <2>3, <2>4
<1>13. ASSUME NEW id \in Nat
       PROVE  Ordinal(snapshot, d, id) = {o \in DOMAIN ids : ids[o] = id}
  <2> DEFINE B == BaseOrdinal(snapshot, id)
             D == {size + k - 1 : k \in {k \in 1..m : d.ids[k] = id}}
  <2>1. B = {o \in 0..(size - 1) : snapshot.ids[o] = id}
    BY <1>4, BaseOrdinalExact DEF size
  <2>2. Ordinal(snapshot, d, id) = IF B # {} THEN B ELSE D
    <3> HIDE DEF B
    <3> QED
      BY <1>1 DEF Ordinal, size, B
  <2> HIDE DEF B
  <2>3. CASE B # {}
    <3>1. PICK o \in 0..(size - 1) : snapshot.ids[o] = id
      BY <2>1, <2>3
    <3>2. o \in DOMAIN ids /\ ids[o] = id /\ o \in B
      BY <1>5, <2>1, <3>1
    <3>3. ASSUME NEW p \in DOMAIN ids, ids[p] = id PROVE p \in B
      <4>1. ids[o] = ids[p]
        BY <3>2, <3>3
      <4> HIDE DEF ids
      <4>2. o = p
        BY <1>12, <3>2, <4>1
      <4> QED
        BY <3>2, <4>2
    <3>4. \A p \in B : p \in DOMAIN ids /\ ids[p] = id
      BY <1>5, <2>1
    <3> QED
      BY <2>2, <2>3, <3>3, <3>4
  <2>4. CASE B = {}
    <3>1. \A p \in DOMAIN ids : ids[p] = id => \E k \in 1..m : p = size + k - 1 /\ d.ids[k] = id
      BY SMTT(20), <1>5, <2>1, <2>4
    <3>2. \A p : p \in D <=> \E k \in 1..m : p = size + k - 1 /\ d.ids[k] = id
      BY PlacesBehind
    <3>3. \A p \in D : p \in DOMAIN ids /\ ids[p] = id
      BY <1>5, <3>2
    <3> HIDE DEF D
    <3> QED
      BY <2>2, <2>4, <3>1, <3>2, <3>3
  <2> QED
    BY <2>3, <2>4
<1>14. DOMAIN ids \in SUBSET Nat
  BY <1>1, <1>4, <1>5
<1>15. ASSUME NEW k \in 1..Len(vertices) PROVE \E o \in DOMAIN ids : ids[o] = vertices[k].id
  <2>1. CASE k \in 1..old
    <3>1. PICK o \in 0..(size - 1) : snapshot.ids[o] = vertices[k].id
      BY <1>3, <1>4, <2>1
    <3> QED
      BY <1>5, <3>1
  <2>2. CASE k \notin 1..old
    <3>1. k - old \in 1..m /\ old + (k - old) = k
      BY <1>1, <2>2
    <3>2. d.ids[k - old] = vertices[k].id
      BY <1>1, <3>1
    <3> QED
      BY <1>5, <3>1, <3>2
  <2> QED
    BY <2>1, <2>2
<1>16. FindsAll(snapshot, d, ids)
  BY <1>12, <1>13, <1>14 DEF FindsAll
<1> QED
  BY <1>15, <1>16 DEF ids, Reaches

-----------------------------------------------------------------------------
(* What a lease says of the rows of its tables: every vertex has one ordinal and every
   ordinal a vertex, with its labels; and the edges at it, each once, are those of the
   rows that leave it, or that lead to it. *)
LeaseDescribes(held, vertices, edges) ==
  LET ids == AllIds(held.snapshot, held.delta)
      dict == held.snapshot.dict
  IN  /\ IsDict(dict)
      /\ FindsAll(held.snapshot, held.delta, ids)
      /\ \A v \in ToSet(vertices) : \E o \in DOMAIN ids : ids[o] = v.id
      /\ \A o \in DOMAIN ids :
            \E v \in ToSet(vertices) : v.id = ids[o] /\ LabelledAs(VertexLabelIds(held, o), v.labels, dict)
      /\ \A o \in DOMAIN ids, outgoing \in BOOLEAN :
            ListsAt(EdgesOf(held, o, outgoing), ToSet(edges), ids[o], dict, ids, outgoing)

(* A delta holds the vertices and the edges after these. *)
AddsRest(snapshot, d, vertices, old, edges, from) ==
  /\ d \in Deltas
  /\ Len(d.ids) = Len(vertices) - old /\ Len(d.labels) = Len(vertices) - old
  /\ \A j \in 1..(Len(vertices) - old) :
        /\ d.ids[j] = vertices[old + j].id /\ d.rows[j] = vertices[old + j].row
        /\ LabelledAs(d.labels[j], vertices[old + j].labels, snapshot.dict)
  /\ AddsEdges(d, d.ids, d.rows, d.labels, {edges[from + j] : j \in 1..(Len(edges) - from)},
               snapshot.dict, AllIds(snapshot, d))

(* The rows of tables a build takes. *)
LEMMA TablesTyped ==
  ASSUME NEW vertices, NEW edges, IsTables(vertices, edges)
  PROVE  /\ vertices \in Seq(VertexRow) /\ edges \in Seq(EdgeRow)
         /\ Len(vertices) \in Nat /\ DOMAIN vertices = 1..Len(vertices)
         /\ Len(edges) \in Nat /\ DOMAIN edges = 1..Len(edges)
         /\ \A i, j \in 1..Len(vertices) : vertices[i].id = vertices[j].id => i = j
         /\ \A i, j \in 1..Len(edges) : edges[i].id = edges[j].id => i = j
         /\ \A k \in 1..Len(edges) :
               {edges[k].source, edges[k].target} \subseteq {vertices[i].id : i \in 1..Len(vertices)}
<1>1. vertices \in Seq(VertexRow) /\ edges \in Seq(EdgeRow)
  BY DEF IsTables
<1>2. /\ Len(vertices) \in Nat /\ DOMAIN vertices = 1..Len(vertices)
      /\ Len(edges) \in Nat /\ DOMAIN edges = 1..Len(edges)
  BY <1>1
<1>3. /\ \A i, j \in DOMAIN vertices : vertices[i].id = vertices[j].id => i = j
      /\ \A i, j \in DOMAIN edges : edges[i].id = edges[j].id => i = j
  BY DEF IsTables
<1>4. \A k \in DOMAIN edges : {edges[k].source, edges[k].target} \subseteq {vertices[i].id : i \in DOMAIN vertices}
  BY DEF IsTables
<1>5. /\ \A i, j \in 1..Len(vertices) : vertices[i].id = vertices[j].id => i = j
      /\ \A i, j \in 1..Len(edges) : edges[i].id = edges[j].id => i = j
  BY <1>2, <1>3
<1>6. \A k \in 1..Len(edges) : {edges[k].source, edges[k].target} \subseteq {vertices[i].id : i \in 1..Len(vertices)}
  BY <1>2, <1>4, Zenon
<1> QED
  BY <1>1, <1>2, <1>5, <1>6

(* A snapshot of the older rows with a delta that adds the rest describes all of them. *)
LEMMA LeaseFrom ==
  ASSUME NEW vertices, NEW edges, IsTables(vertices, edges),
         NEW old \in 0..Len(vertices), NEW from \in 0..Len(edges),
         IsTables(SubSeq(vertices, 1, old), SubSeq(edges, 1, from)),
         NEW snapshot, SnapshotOf(snapshot, SubSeq(vertices, 1, old), SubSeq(edges, 1, from)),
         NEW d, AddsRest(snapshot, d, vertices, old, edges, from)
  PROVE  LeaseDescribes([snapshot |-> snapshot, delta |-> d], vertices, edges)
<1> DEFINE held == [snapshot |-> snapshot, delta |-> d]
           size == snapshot.size
           m == Len(d.ids)
           ids == AllIds(snapshot, d)
           dict == snapshot.dict
           first == SubSeq(vertices, 1, old)
           prior == SubSeq(edges, 1, from)
           later == {edges[from + j] : j \in 1..(Len(edges) - from)}
<1>1. /\ vertices \in Seq(VertexRow) /\ edges \in Seq(EdgeRow)
      /\ Len(vertices) \in Nat /\ DOMAIN vertices = 1..Len(vertices)
      /\ Len(edges) \in Nat /\ DOMAIN edges = 1..Len(edges)
      /\ \A i, j \in 1..Len(vertices) : vertices[i].id = vertices[j].id => i = j
      /\ \A i, j \in 1..Len(edges) : edges[i].id = edges[j].id => i = j
  <2>1. IsTables(vertices, edges)
    OBVIOUS
  <2> QED
    BY <2>1, TablesTyped
<1>2. /\ first \in Seq(VertexRow) /\ Len(first) = old /\ \A k \in 1..old : first[k] = vertices[k]
      /\ prior \in Seq(EdgeRow) /\ Len(prior) = from /\ \A k \in 1..from : prior[k] = edges[k]
  BY <1>1
<1>3. /\ \A k \in 1..from : {prior[k].source, prior[k].target} \subseteq {first[i].id : i \in 1..old}
      /\ SnapshotOf(snapshot, first, prior)
  <2>1. IsTables(first, prior) /\ SnapshotOf(snapshot, first, prior)
    OBVIOUS
  <2>2. Len(first) = old /\ Len(prior) = from
    BY <1>2
  <2> HIDE DEF first, prior
  <2>3. \A k \in 1..Len(prior) : {prior[k].source, prior[k].target} \subseteq {first[i].id : i \in 1..Len(first)}
    BY <2>1, TablesTyped
  <2> QED
    BY <2>1, <2>2, <2>3
<1> HIDE DEF first, prior
<1>4. /\ size \in Nat /\ AscendingIds(snapshot.ids, size) /\ IsDict(dict)
      /\ \A o \in 0..(size - 1) :
            \E v \in ToSet(first) : v.id = snapshot.ids[o] /\ LabelledAs(snapshot.vertexLabels[o], v.labels, dict)
      /\ \A o \in 0..(size - 1), outgoing \in BOOLEAN :
            ListsAt(RangeOf(SideOf(snapshot, outgoing), o), ToSet(prior), snapshot.ids[o], dict, snapshot.ids, outgoing)
  BY <1>3 DEF SnapshotOf
<1>5. /\ d \in Deltas /\ d.ids \in Seq(Nat) /\ m \in Nat /\ m = Len(vertices) - old
      /\ \A j \in 1..m : d.ids[j] = vertices[old + j].id /\ LabelledAs(d.labels[j], vertices[old + j].labels, dict)
  <2>1. d \in Deltas /\ m = Len(vertices) - old
    BY DEF AddsRest
  <2>2. d.ids \in Seq(Nat)
    BY <2>1 DEF Deltas
  <2>3. \A j \in 1..m : d.ids[j] = vertices[old + j].id /\ LabelledAs(d.labels[j], vertices[old + j].labels, dict)
    <3> HIDE DEF m
    <3> QED
      BY <2>1 DEF AddsRest
  <2> QED
    BY <2>1, <2>2, <2>3
<1>6. Covers(snapshot, d, old, vertices, prior)
  BY <1>3, <1>5 DEF Covers, first
<1>7. /\ FindsAll(snapshot, d, ids)
      /\ \A k \in 1..Len(vertices) : \E o \in DOMAIN ids : ids[o] = vertices[k].id
  <2>1. /\ vertices \in Seq(VertexRow) /\ d.ids \in Seq(Nat) /\ Covers(snapshot, d, old, vertices, prior)
        /\ \A i, j \in 1..Len(vertices) : vertices[i].id = vertices[j].id => i = j
    BY <1>1, <1>5, <1>6
  <2>2. FindsAll(snapshot, d, AllIds(snapshot, d))
    BY <2>1, OrdinalExact
  <2>3. Reaches(AllIds(snapshot, d), vertices)
    BY <2>1, OrdinalExact
  <2> QED
    BY <2>2, <2>3 DEF Reaches
<1>8. /\ DOMAIN ids = 0..(size + m - 1)
      /\ \A o \in 0..(size - 1) : o \in DOMAIN ids /\ ids[o] = snapshot.ids[o]
      /\ \A j \in 1..m : size + j - 1 \in DOMAIN ids /\ ids[size + j - 1] = d.ids[j]
      /\ \A o \in DOMAIN ids : o \in 0..(size - 1) \/ \E j \in 1..m : o = size + j - 1
  <2>1. snapshot.size \in Nat /\ Len(d.ids) \in Nat
    BY <1>4, <1>5
  <2> QED
    BY <2>1, AllIdsExact
<1>9. \A o \in DOMAIN ids, outgoing \in BOOLEAN : ListsAt(DeltaList(d, o, outgoing), later, ids[o], dict, ids, outgoing)
  BY DEF AddsRest, AddsEdges
<1>10. \A o : VertexLabelIds(held, o) = IF o < size THEN snapshot.vertexLabels[o] ELSE d.labels[o - size + 1]
  BY DEF VertexLabelIds
<1>11. \A o, outgoing : EdgesOf(held, o, outgoing)
          = (IF o >= size THEN <<>> ELSE RangeOf(SideOf(snapshot, outgoing), o)) \o DeltaList(d, o, outgoing)
  <2> SUFFICES ASSUME NEW o, NEW outgoing
               PROVE  EdgesOf(held, o, outgoing)
          = (IF o >= size THEN <<>> ELSE RangeOf(SideOf(snapshot, outgoing), o)) \o DeltaList(d, o, outgoing)
    OBVIOUS
  <2>1. BaseEdges(held, o, outgoing) = IF o >= size THEN <<>> ELSE RangeOf(SideOf(snapshot, outgoing), o)
    BY DEF BaseEdges, RangeOf, SideOf, Side
  <2>2. DeltaEdges(held, o, outgoing) = DeltaList(d, o, outgoing)
    BY DEF DeltaEdges, DeltaList
  <2> QED
    BY <2>1, <2>2 DEF EdgesOf
<1>12. held.snapshot = snapshot /\ held.delta = d
  OBVIOUS
<1> HIDE DEF held, size, m, ids, dict
<1>13. ToSet(first) = {vertices[k] : k \in 1..old} /\ ToSet(vertices) = {vertices[k] : k \in 1..Len(vertices)}
  <2>1. DOMAIN first = 1..old
    BY <1>2
  <2>2. ToSet(first) = {first[k] : k \in 1..old}
    BY <2>1 DEF ToSet
  <2>3. ToSet(vertices) = {vertices[k] : k \in 1..Len(vertices)}
    BY <1>1 DEF ToSet
  <2> QED
    BY <1>2, <2>2, <2>3
<1>14. ASSUME NEW o \in DOMAIN ids
       PROVE  \E v \in ToSet(vertices) : v.id = ids[o] /\ LabelledAs(VertexLabelIds(held, o), v.labels, dict)
  <2>1. CASE o \in 0..(size - 1)
    <3>1. PICK k \in 1..old : vertices[k].id = snapshot.ids[o] /\ LabelledAs(snapshot.vertexLabels[o], vertices[k].labels, dict)
      BY <1>4, <1>13, <2>1
    <3>2. o < size /\ k \in 1..Len(vertices)
      BY <1>1, <1>4, <2>1
    <3> QED
      BY <1>8, <1>10, <1>13, <2>1, <3>1, <3>2
  <2>2. ASSUME NEW j \in 1..m, o = size + j - 1
        PROVE  \E v \in ToSet(vertices) : v.id = ids[o] /\ LabelledAs(VertexLabelIds(held, o), v.labels, dict)
    <3>1. ~(o < size) /\ o - size + 1 = j /\ old + j \in 1..Len(vertices)
      BY <1>1, <1>4, <1>5, <2>2
    <3>2. VertexLabelIds(held, o) = d.labels[j]
      BY <1>10, <3>1
    <3> QED
      BY <1>5, <1>8, <1>13, <2>2, <3>1, <3>2
  <2> QED
    BY <1>8, <2>1, <2>2
<1>15. ToSet(edges) = ToSet(prior) \cup later
  <2>0. DOMAIN prior = 1..from
    BY <1>2
  <2>1. ToSet(edges) = {edges[k] : k \in 1..Len(edges)} /\ ToSet(prior) = {edges[k] : k \in 1..from}
    <3>1. ToSet(edges) = {edges[k] : k \in 1..Len(edges)} /\ ToSet(prior) = {prior[k] : k \in 1..from}
      BY <1>1, <2>0 DEF ToSet
    <3> QED
      BY <1>2, <3>1
  <2>2. \A k \in 1..Len(edges) : k \in 1..from \/ \E j \in 1..(Len(edges) - from) : k = from + j
    <3>1. \A k \in 1..Len(edges) : k \in 1..from \/ (k - from \in 1..(Len(edges) - from) /\ k = from + (k - from))
      BY <1>1
    <3> QED
      BY <3>1
  <2>3. (\A k \in 1..from : k \in 1..Len(edges)) /\ \A j \in 1..(Len(edges) - from) : from + j \in 1..Len(edges)
    BY <1>1
  <2> QED
    BY <2>1, <2>2, <2>3
<1>16. \A r \in ToSet(prior), q \in later : r.id # q.id
  <2>1. ToSet(prior) = {edges[k] : k \in 1..from}
    BY <1>2 DEF ToSet
  <2>2. \A k \in 1..from, j \in 1..(Len(edges) - from) :
           k \in 1..Len(edges) /\ from + j \in 1..Len(edges) /\ k # from + j
    BY <1>1
  <2> QED
    BY <1>1, <2>1, <2>2
<1>17. ASSUME NEW o \in DOMAIN ids, NEW outgoing \in BOOLEAN, NEW base,
              base = IF o >= size THEN <<>> ELSE RangeOf(SideOf(snapshot, outgoing), o)
       PROVE  ListsAt(base, ToSet(prior), ids[o], dict, ids, outgoing)
  <2>1. CASE o \in 0..(size - 1)
    <3>1. base = RangeOf(SideOf(snapshot, outgoing), o)
      BY <1>4, <1>17, <2>1
    <3>2. ListsAt(base, ToSet(prior), ids[o], dict, snapshot.ids, outgoing)
      BY <1>4, <1>8, <2>1, <3>1
    <3>3. DOMAIN snapshot.ids = 0..(size - 1)
      BY <1>4 DEF AscendingIds
    <3>4. DOMAIN snapshot.ids \subseteq DOMAIN ids /\ \A p \in DOMAIN snapshot.ids : ids[p] = snapshot.ids[p]
      BY <1>8, <3>3
    <3> QED
      BY <3>2, <3>4, ListsWider
  <2>2. ASSUME NEW j \in 1..m, o = size + j - 1 PROVE ListsAt(base, ToSet(prior), ids[o], dict, ids, outgoing)
    <3>1. base = <<>>
      BY <1>4, <1>17, <2>2
    <3>2. ids[o] = vertices[old + j].id /\ old + j \in 1..Len(vertices) /\ \A k \in 1..old : k \in 1..Len(vertices) /\ k # old + j
      <4>1. ids[o] = d.ids[j] /\ d.ids[j] = vertices[old + j].id
        BY <1>5, <1>8, <2>2
      <4>2. old + j \in 1..Len(vertices) /\ \A k \in 1..old : k \in 1..Len(vertices) /\ k # old + j
        BY <1>1, <1>5
      <4> QED
        BY <4>1, <4>2
    <3>3. \A r \in ToSet(prior) : Near(r, outgoing) # ids[o]
      <4>1. \A r \in ToSet(prior) : \E k \in 1..old : Near(r, outgoing) = vertices[k].id
        <5>1. ToSet(prior) = {prior[k] : k \in 1..from}
          BY <1>2 DEF ToSet
        <5> QED
          BY <1>2, <1>3, <5>1 DEF Near
      <4> QED
        BY <1>1, <3>2, <4>1
    <3>4. Len(base) = 0 /\ DOMAIN base = 1..Len(base) /\ 1..Len(base) = {}
      BY <3>1
    <3> QED
      BY <3>3, <3>4 DEF ListsAt
  <2> QED
    BY <1>8, <2>1, <2>2
<1>18. ASSUME NEW o \in DOMAIN ids, NEW outgoing \in BOOLEAN
       PROVE  ListsAt(EdgesOf(held, o, outgoing), ToSet(edges), ids[o], dict, ids, outgoing)
  <2> DEFINE base == IF o >= size THEN <<>> ELSE RangeOf(SideOf(snapshot, outgoing), o)
             added == DeltaList(d, o, outgoing)
             X == {base[i] : i \in 1..Len(base)} \cup Entry
  <2>1. ListsAt(base, ToSet(prior), ids[o], dict, ids, outgoing)
    BY <1>17
  <2>2. ListsAt(added, later, ids[o], dict, ids, outgoing)
    BY <1>9
  <2>3. added \in Seq(X)
    <3>1. d.out \in Maps(Entry) /\ d.in \in Maps(Entry)
      BY <1>5 DEF Deltas
    <3>2. \A map \in Maps(Entry) : \A k : At(map, k) \in Seq(Entry)
      <4> SUFFICES ASSUME NEW S \in SUBSET Nat, NEW map \in [S -> Seq(Entry)], NEW k PROVE At(map, k) \in Seq(Entry)
        BY DEF Maps
      <4> HIDE DEF Entry
      <4> QED
        BY DEF At
    <3>3. added \in Seq(Entry)
      BY <3>1, <3>2 DEF DeltaList
    <3> HIDE DEF added, X
    <3>4. Entry \subseteq X
      BY DEF X
    <3> HIDE DEF Entry
    <3> QED
      BY <3>3, <3>4
  <2>4. base \in Seq(X)
    <3>1. base = <<>> \/ base = RangeOf(SideOf(snapshot, outgoing), o)
      OBVIOUS
    <3>2. \E n : base = [i \in 1..n |-> base[i]]
      <4>1. CASE base = <<>>
        <5>1. <<>> = [i \in 1..0 |-> <<>>[i]]
          OBVIOUS
        <5> HIDE DEF base
        <5> QED
          BY <4>1, <5>1
      <4>2. CASE base = RangeOf(SideOf(snapshot, outgoing), o)
        <5> DEFINE side == SideOf(snapshot, outgoing)
                   n == side.offsets[o + 1] - side.offsets[o]
        <5>1. RangeOf(side, o) = [i \in 1..n |-> RangeOf(side, o)[i]]
          BY DEF RangeOf
        <5> HIDE DEF base, n, side
        <5> QED
          BY <4>2, <5>1 DEF side
      <4> QED
        BY <3>1, <4>1, <4>2
    <3>3. Len(base) \in Nat /\ DOMAIN base = 1..Len(base)
      BY <2>1 DEF ListsAt
    <3> HIDE DEF base
    <3>4. base = [i \in 1..Len(base) |-> base[i]]
      BY <3>2, <3>3
    <3>5. \A i \in 1..Len(base) : base[i] \in X
      OBVIOUS
    <3> HIDE DEF X
    <3>6. base \in [1..Len(base) -> X]
      BY <3>4, <3>5
    <3> QED
      BY <3>3, <3>6
  <2>5. EdgesOf(held, o, outgoing) = base \o added
    BY <1>11
  <2> HIDE DEF base, added, X, later
  <2>6. ListsAt(base \o added, ToSet(prior) \cup later, ids[o], dict, ids, outgoing)
    BY <1>16, <2>1, <2>2, <2>3, <2>4, ListsJoined
  <2> QED
    BY <1>15, <2>5, <2>6
<1>19. \A v \in ToSet(vertices) : \E o \in DOMAIN ids : ids[o] = v.id
  BY <1>7, <1>13
<1>20. LeaseDescribes(held, vertices, edges)
  BY <1>4, <1>7, <1>12, <1>14, <1>18, <1>19 DEF LeaseDescribes, ids, dict
<1> QED
  BY <1>20 DEF held

(* No edges were added to a delta of vertices. *)
LEMMA NoEdgesYet ==
  ASSUME NEW d, NEW vertices, NEW n, NEW dict, AddsVertices(d, vertices, n, dict), NEW ids
  PROVE  AddsEdges(d, d.ids, d.rows, d.labels, {}, dict, ids)
<1>1. d \in Deltas /\ Posts(d) /\ \A o : At(d.out, o) = <<>> /\ At(d.in, o) = <<>>
  BY DEF AddsVertices
<1>2. ASSUME NEW o \in DOMAIN ids, NEW outgoing \in BOOLEAN
      PROVE  ListsAt(DeltaList(d, o, outgoing), {}, ids[o], dict, ids, outgoing)
  <2> DEFINE list == DeltaList(d, o, outgoing)
  <2>1. list = <<>>
    BY <1>1 DEF DeltaList
  <2> HIDE DEF list
  <2>2. Len(list) = 0 /\ DOMAIN list = 1..Len(list) /\ 1..Len(list) = {}
    BY <2>1
  <2>3. ListsAt(list, {}, ids[o], dict, ids, outgoing)
    BY <2>2 DEF ListsAt
  <2> QED
    BY <2>3 DEF list
<1> QED
  BY <1>1, <1>2 DEF AddsEdges

(* A scan that does not give up adds the rest of the rows (ScanCsrDelta). *)
LEMMA ScanCsrDeltaExact ==
  ASSUME NEW g, IsGraph(g), NEW snapshot,
         SnapshotOf(snapshot, SubSeq(g.vertices, 1, g.old.vertices), SubSeq(g.edges, 1, g.old.edges)),
         NEW d \in ScanCsrDelta(snapshot, g)
  PROVE  AddsRest(snapshot, d, g.vertices, g.old.vertices, g.edges, g.old.edges)
<1> DEFINE vertices == g.vertices
           edges == g.edges
           old == g.old.vertices
           from == g.old.edges
           dict == snapshot.dict
           m == Len(vertices) - old
           rest == SubSeq(vertices, old + 1, Len(vertices))
           deltas == DeltaOfVertices(snapshot, rest)
           newIds == [j \in 1..m |-> rest[j].id]
           newRows == [j \in 1..m |-> rest[j].row]
           newLabels == [j \in 1..m |-> LabelIdsOf(dict, rest[j].labels)]
           ids == [o \in 0..(snapshot.size + m - 1) |->
                      IF o < snapshot.size THEN snapshot.ids[o] ELSE newIds[o - snapshot.size + 1]]
<1>1. /\ vertices \in Seq(VertexRow) /\ edges \in Seq(EdgeRow) /\ Len(vertices) \in Nat /\ Len(edges) \in Nat
      /\ \A i, j \in 1..Len(vertices) : vertices[i].id = vertices[j].id => i = j
      /\ \A i, j \in 1..Len(edges) : edges[i].id = edges[j].id => i = j
  <2>1. IsTables(vertices, edges)
    BY DEF IsGraph
  <2> HIDE DEF vertices, edges
  <2> QED
    BY <2>1, TablesTyped
<1>2. old \in 0..Len(vertices) /\ from \in 0..Len(edges)
  BY DEF IsGraph
<1>3. IsDict(dict) /\ snapshot.size \in Nat
  BY DEF SnapshotOf
<1>4. d \in AddDeltaEdges(snapshot, deltas, edges, from)
  BY DEF ScanCsrDelta
<1>5. SnapshotOf(snapshot, SubSeq(vertices, 1, old), SubSeq(edges, 1, from))
  OBVIOUS
<1> HIDE DEF vertices, edges, old, from
<1>6. m \in Nat /\ rest \in Seq(VertexRow) /\ Len(rest) = m /\ \A j \in 1..m : rest[j] = vertices[old + j]
  BY <1>1, <1>2
<1> HIDE DEF rest, m
<1>7. ASSUME NEW e \in deltas
      PROVE  AddsVertices(e, rest, m, dict) /\ e.ids = newIds /\ e.rows = newRows /\ e.labels = newLabels
  <2>1. AddsVertices(e, rest, m, dict)
    BY <1>3, <1>6, <1>7, DeltaOfVerticesExact
  <2>2. /\ e.ids \in Seq(Nat) /\ Len(e.ids) = m /\ e.rows \in Seq(Nat) /\ Len(e.rows) = m
        /\ e.labels \in Seq(Seq(Nat)) /\ Len(e.labels) = m
        /\ \A j \in 1..m : e.ids[j] = rest[j].id /\ e.rows[j] = rest[j].row /\ e.labels[j] = LabelIdsOf(dict, rest[j].labels)
    BY <2>1 DEF AddsVertices, Deltas
  <2>3. /\ e.ids = [j \in 1..m |-> e.ids[j]] /\ e.rows = [j \in 1..m |-> e.rows[j]]
        /\ e.labels = [j \in 1..m |-> e.labels[j]]
    <3>1. e.ids = [j \in 1..m |-> e.ids[j]]
      BY <2>2
    <3>2. e.rows = [j \in 1..m |-> e.rows[j]]
      BY <2>2
    <3>3. e.labels = [j \in 1..m |-> e.labels[j]]
      BY <2>2
    <3> QED
      BY <3>1, <3>2, <3>3
  <2> QED
    BY <2>1, <2>2, <2>3
<1>8. \A j \in 1..m : rest[j].id \in Nat
  <2> SUFFICES ASSUME NEW j \in 1..m PROVE rest[j].id \in Nat
    OBVIOUS
  <2>1. rest[j] \in VertexRow
    BY <1>6
  <2> QED
    BY <2>1 DEF VertexRow
<1>9. ASSUME NEW e \in Deltas, e.ids = newIds
      PROVE  AllIds(snapshot, e) = ids /\ FindsAll(snapshot, e, ids)
  <2>1. newIds \in Seq(Nat) /\ Len(newIds) = m /\ \A j \in 1..m : newIds[j] = rest[j].id
    BY <1>6, <1>8
  <2> HIDE DEF newIds
  <2>2. AllIds(snapshot, e) = ids
    BY <1>9, <2>1 DEF AllIds, VertexId
  <2>3. Covers(snapshot, e, old, vertices, SubSeq(edges, 1, from))
    BY <1>2, <1>5, <1>6, <1>9, <2>1 DEF Covers, m
  <2>4. e.ids \in Seq(Nat)
    BY <1>9, <2>1
  <2> HIDE DEF ids
  <2>5. FindsAll(snapshot, e, AllIds(snapshot, e))
    BY <1>1, <2>3, <2>4, OrdinalExact
  <2> QED
    BY <2>2, <2>5
<1>10. \A e \in deltas : AddsEdges(e, newIds, newRows, newLabels, {}, dict, ids)
  <2> HIDE DEF deltas, newIds, newRows, newLabels, ids, dict
  <2> SUFFICES ASSUME NEW e \in deltas PROVE AddsEdges(e, newIds, newRows, newLabels, {}, dict, ids)
    OBVIOUS
  <2>1. AddsEdges(e, e.ids, e.rows, e.labels, {}, dict, ids)
    BY <1>7, NoEdgesYet
  <2> QED
    BY <1>7, <2>1
<1> HIDE DEF deltas, newIds, newRows, newLabels, ids
<1>11. AddsEdges(d, newIds, newRows, newLabels, {edges[from + j] : j \in 1..(Len(edges) - from)}, dict, ids)
  BY <1>1, <1>2, <1>3, <1>4, <1>9, <1>10, AddDeltaEdgesExact
<1>12. d \in Deltas /\ d.ids = newIds /\ d.rows = newRows /\ d.labels = newLabels
  BY <1>11 DEF AddsEdges
<1>13. AllIds(snapshot, d) = ids
  BY <1>9, <1>12
<1>14. ASSUME NEW j \in 1..m
       PROVE  /\ d.ids[j] = vertices[old + j].id /\ d.rows[j] = vertices[old + j].row
              /\ LabelledAs(d.labels[j], vertices[old + j].labels, dict)
  <2>1. newIds[j] = rest[j].id /\ newRows[j] = rest[j].row /\ newLabels[j] = LabelIdsOf(dict, rest[j].labels)
    BY DEF newIds, newRows, newLabels
  <2>2. PICK e \in deltas : TRUE
    <3>1. CASE deltas = {}
      <4> DEFINE added == {edges[from + i] : i \in 1..(Len(edges) - from)}
      <4>1. ASSUME NEW x PROVE AddsEdges(d, newIds, newRows, x, added, dict, ids)
        <5>1. \A e \in deltas : AddsEdges(e, newIds, newRows, x, {}, dict, ids)
          BY <3>1
        <5> QED
          BY <1>1, <1>2, <1>3, <1>4, <1>9, <5>1, AddDeltaEdgesExact
      <4> HIDE DEF added
      <4>2. \A x : d.labels = x
        BY <4>1 DEF AddsEdges
      <4>3. d.labels = {} /\ d.labels = {{}}
        BY <4>2
      <4> QED
        BY <4>3
    <3> QED
      BY <3>1
  <2>3. AddsVertices(e, rest, m, dict) /\ e.labels = newLabels
    BY <1>7
  <2>4. LabelledAs(newLabels[j], rest[j].labels, dict)
    BY <2>3 DEF AddsVertices
  <2> QED
    BY <1>6, <1>12, <2>1, <2>4
<1>15. Len(d.ids) = m /\ Len(d.labels) = m
  BY <1>6, <1>12 DEF newIds, newLabels
<1> QED
  BY <1>11, <1>12, <1>13, <1>14, <1>15 DEF AddsRest, m, vertices, edges, old, from

(* A snapshot without a delta describes the tables it was built from. *)
LEMMA BuiltExact ==
  ASSUME NEW vertices, NEW edges, IsTables(vertices, edges)
  PROVE  LeaseDescribes([snapshot |-> BuildTableSnapshot(vertices, edges), delta |-> NoDelta], vertices, edges)
<1> DEFINE snapshot == BuildTableSnapshot(vertices, edges)
           old == Len(vertices)
           from == Len(edges)
<1>1. /\ vertices \in Seq(VertexRow) /\ edges \in Seq(EdgeRow) /\ old \in Nat /\ from \in Nat
      /\ DOMAIN vertices = 1..old /\ DOMAIN edges = 1..from
  BY TablesTyped
<1>2. SubSeq(vertices, 1, old) = vertices /\ SubSeq(edges, 1, from) = edges
  BY <1>1
<1>3. SnapshotOf(snapshot, vertices, edges)
  BY SnapshotExact
<1> HIDE DEF snapshot
<1>4. AddsVertices(NoDelta, vertices, 0, snapshot.dict) /\ NoDelta \in Deltas
  BY NoDeltaAdds
<1>5. AddsEdges(NoDelta, NoDelta.ids, NoDelta.rows, NoDelta.labels, {}, snapshot.dict, AllIds(snapshot, NoDelta))
  BY <1>4, NoEdgesYet
<1>6. old - old = 0 /\ from - from = 0 /\ old \in 0..old /\ from \in 0..from
  BY <1>1
<1>7. {edges[from + j] : j \in 1..(from - from)} = {} /\ 1..(old - old) = {}
  BY <1>6
<1>8. Len(NoDelta.ids) = 0 /\ Len(NoDelta.labels) = 0
  BY DEF NoDelta
<1>9. AddsRest(snapshot, NoDelta, vertices, old, edges, from)
  BY <1>4, <1>5, <1>6, <1>7, <1>8 DEF AddsRest
<1>10. old \in 0..Len(vertices) /\ from \in 0..Len(edges)
  BY <1>1
<1> HIDE DEF old, from
<1>12. LeaseDescribes([snapshot |-> snapshot, delta |-> NoDelta], vertices, edges)
  <2>1. IsTables(SubSeq(vertices, 1, old), SubSeq(edges, 1, from)) /\ IsTables(vertices, edges)
    BY <1>2
  <2>2. SnapshotOf(snapshot, SubSeq(vertices, 1, old), SubSeq(edges, 1, from))
    BY <1>2, <1>3
  <2> QED
    BY <1>9, <1>10, <2>1, <2>2, LeaseFrom
<1> QED
  BY <1>12 DEF snapshot

(* The lease of a statement, caught up or built anew, describes the tables as they are:
   the binary searches, the counting sort, the scatter, the dictionary and the scan of
   the rows inserted since lose nothing and add nothing (BuildTableSnapshot,
   ScanCsrDelta, CsrTryGetOrdinal, CsrForEachEdge). *)
THEOREM LeaseExact ==
  ASSUME NEW g, IsGraph(g)
  PROVE  LeaseDescribes(LeaseOf(g), g.vertices, g.edges)
<1> DEFINE first == SubSeq(g.vertices, 1, g.old.vertices)
           prior == SubSeq(g.edges, 1, g.old.edges)
           old == BuildTableSnapshot(first, prior)
           caughtUp == ScanCsrDelta(old, g)
           d == CHOOSE d \in caughtUp : TRUE
<1>1. IsTables(g.vertices, g.edges) /\ IsTables(first, prior)
  BY DEF IsGraph
<1>2. g.old.vertices \in 0..Len(g.vertices) /\ g.old.edges \in 0..Len(g.edges)
  BY DEF IsGraph
<1>3. LeaseOf(g) = IF caughtUp # {} THEN [snapshot |-> old, delta |-> d]
                   ELSE [snapshot |-> BuildTableSnapshot(g.vertices, g.edges), delta |-> NoDelta]
  BY DEF LeaseOf
<1>4. SnapshotOf(old, first, prior)
  BY <1>1, SnapshotExact
<1> HIDE DEF old, d
<1>5. CASE caughtUp # {}
  <2>1. d \in ScanCsrDelta(old, g)
    BY <1>5 DEF d
  <2>2. AddsRest(old, d, g.vertices, g.old.vertices, g.edges, g.old.edges)
    BY <1>4, <2>1, ScanCsrDeltaExact
  <2>3. LeaseDescribes([snapshot |-> old, delta |-> d], g.vertices, g.edges)
    BY <1>1, <1>2, <1>4, <2>2, LeaseFrom
  <2> QED
    BY <1>3, <1>5, <2>3
<1>6. CASE caughtUp = {}
  <2>1. LeaseOf(g) = [snapshot |-> BuildTableSnapshot(g.vertices, g.edges), delta |-> NoDelta]
    BY <1>3, <1>6
  <2> QED
    BY <1>1, <2>1, BuiltExact
<1> QED
  BY <1>5, <1>6

-----------------------------------------------------------------------------
(* Lookups by row id.  The greatest of finitely many numbers, as Max chooses it. *)
LEMMA GreatestOf ==
  ASSUME NEW S \in SUBSET Int, IsFiniteSet(S), S # {}
  PROVE  Max(S) \in S /\ \A j \in S : j <= Max(S)
<1> DEFINE AboveIt(i) == {j \in S : i < j}
           Uppers == {AboveIt(i) : i \in S}
<1>1. IsWellFoundedOn(StrictSubsetOrdering(S), SUBSET S)
  BY FS_FiniteSubsetsOfFinite, FS_StrictSubsetOrderingWellFounded
<1>2. Uppers \subseteq SUBSET S /\ Uppers # {}
  OBVIOUS
<1>3. PICK U \in Uppers : \A V \in Uppers : <<V, U>> \notin StrictSubsetOrdering(S)
  <2> HIDE DEF Uppers
  <2> QED
    BY <1>1, <1>2, WFMin
<1>4. PICK i \in S : U = AboveIt(i)
  BY <1>3
<1>5. ASSUME NEW j \in S, ~(j <= i) PROVE FALSE
  <2>1. i \in Int /\ j \in Int /\ i < j
    BY <1>5
  <2>2. \A k \in AboveIt(j) : k \in S /\ k \in Int /\ j < k
    OBVIOUS
  <2>3. AboveIt(j) \subseteq AboveIt(i)
    <3>1. ASSUME NEW k \in AboveIt(j) PROVE k \in S /\ i < k
      BY <2>1, <2>2
    <3> QED
      BY <3>1
  <2>4. j \in AboveIt(i) /\ j \notin AboveIt(j)
    BY <2>1
  <2>5. <<AboveIt(j), U>> \in StrictSubsetOrdering(S)
    BY <1>4, <2>3, <2>4 DEF StrictSubsetOrdering
  <2> QED
    BY <1>3, <2>5
<1>6. \E x \in S : \A y \in S : x >= y
  BY <1>5
<1> QED
  BY <1>6 DEF Max

(* The index by row ids of the vertices of a snapshot. *)
Distinct(rows, size) ==
  rows \in [0..(size - 1) -> Nat] /\ \A o, p \in 0..(size - 1) : rows[o] = rows[p] => o = p

IndexedBy(snapshot, rows) ==
  /\ Distinct(rows, snapshot.size)
  /\ snapshot.rows = rows /\ snapshot.ordinalByRow = OrdinalByRow(rows)
  /\ snapshot.idsMatchRows <=> \A o \in 0..(snapshot.size - 1) : snapshot.ids[o] > 0 /\ rows[o] = snapshot.ids[o] - 1

(* The index has the ordinal of each row. *)
LEMMA OrdinalByRowExact ==
  ASSUME NEW size \in Nat, NEW rows, Distinct(rows, size), NEW o \in 0..(size - 1)
  PROVE  rows[o] \in DOMAIN OrdinalByRow(rows) /\ OrdinalByRow(rows)[rows[o]] = o
<1> DEFINE D == 0..(size - 1)
           R == {rows[p] : p \in D}
           S == R \cup {-1}
           greatest == Max(S)
<1>0. rows \in [D -> Nat] /\ \A p, q \in D : rows[p] = rows[q] => p = q
  BY DEF Distinct
<1>1. DOMAIN rows = D
  BY <1>0
<1>2. IsFiniteSet(D)
  BY FS_Interval
<1>3. IsFiniteSet(R)
  <2>1. rows \in Surjection(D, R)
    BY <1>0 DEF Surjection
  <2> HIDE DEF D, R
  <2> QED
    BY <1>2, <2>1, FS_Surjection
<1>4. IsFiniteSet(S)
  <2> HIDE DEF R
  <2> QED
    BY <1>3, FS_AddElement
<1>5. S \in SUBSET Int /\ S # {}
  BY <1>0
<1>6. greatest \in S /\ \A j \in S : j <= greatest
  <2> HIDE DEF S
  <2> QED
    BY <1>4, <1>5, GreatestOf
<1>7. rows[o] \in R /\ rows[o] \in Nat
  BY <1>0
<1>8. rows[o] \in 0..greatest
  <2> HIDE DEF R, greatest
  <2> QED
    BY <1>5, <1>6, <1>7
<1>9. OrdinalByRow(rows) = [row \in 0..greatest |->
        IF \E p \in D : rows[p] = row THEN CHOOSE p \in D : rows[p] = row ELSE 0]
  BY <1>1 DEF OrdinalByRow
<1> HIDE DEF greatest
<1>10. OrdinalByRow(rows)[rows[o]] = CHOOSE p \in D : rows[p] = rows[o]
  BY <1>8, <1>9
<1>11. (CHOOSE p \in D : rows[p] = rows[o]) = o
  BY <1>0
<1> QED
  BY <1>8, <1>9, <1>10, <1>11

(* A row id is found at the ordinal of its vertex, by the index or, where ids follow row
   ids, by the id (GqlTryGetCsrOrdinalByRowId). *)
LEMMA OrdinalOfRowExact ==
  ASSUME NEW snapshot, snapshot.size \in Nat, AscendingIds(snapshot.ids, snapshot.size),
         snapshot.dense = IsDense(snapshot.ids), NEW rows, IndexedBy(snapshot, rows), NEW row \in Nat
  PROVE  OrdinalOfRow(snapshot, row) = {o \in 0..(snapshot.size - 1) : rows[o] = row}
<1> DEFINE D == 0..(snapshot.size - 1)
<1>1. /\ rows \in [D -> Nat] /\ \A o, p \in D : rows[o] = rows[p] => o = p
      /\ snapshot.rows = rows /\ snapshot.ordinalByRow = OrdinalByRow(rows)
      /\ snapshot.idsMatchRows <=> \A o \in D : snapshot.ids[o] > 0 /\ rows[o] = snapshot.ids[o] - 1
  BY DEF IndexedBy, Distinct
<1>2. \A o \in D : snapshot.ids[o] \in Nat
  BY DEF AscendingIds
<1>3. CASE snapshot.idsMatchRows
  <2>1. BaseOrdinal(snapshot, row + 1) = {o \in D : snapshot.ids[o] = row + 1}
    BY BaseOrdinalExact
  <2>2. \A o \in D : snapshot.ids[o] = row + 1 <=> rows[o] = row
    <3>1. \A o \in D : snapshot.ids[o] > 0 /\ rows[o] = snapshot.ids[o] - 1 /\ snapshot.ids[o] \in Nat
      BY <1>1, <1>2, <1>3
    <3> HIDE DEF D
    <3> QED
      BY <3>1
  <2>3. OrdinalOfRow(snapshot, row) = BaseOrdinal(snapshot, row + 1)
    BY <1>3 DEF OrdinalOfRow
  <2> QED
    BY <2>1, <2>2, <2>3
<1>4. CASE ~snapshot.idsMatchRows
  <2> DEFINE byRow == snapshot.ordinalByRow
             named == {byRow[r] : r \in {row} \cap DOMAIN byRow}
  <2>1. OrdinalOfRow(snapshot, row) = named \cap {o \in D : rows[o] = row}
    BY <1>1, <1>4 DEF OrdinalOfRow
  <2>2. ASSUME NEW o \in D, rows[o] = row PROVE o \in named
    <3>1. rows[o] \in DOMAIN OrdinalByRow(rows) /\ OrdinalByRow(rows)[rows[o]] = o
      BY OrdinalByRowExact DEF IndexedBy
    <3>2. byRow = OrdinalByRow(rows)
      BY <1>1
    <3>3. row \in DOMAIN byRow /\ byRow[row] = o
      BY <2>2, <3>1, <3>2
    <3> QED
      BY <3>3
  <2> HIDE DEF named
  <2> QED
    BY <2>1, <2>2
<1> QED
  BY <1>3, <1>4

(* The lookups by row id find the vertex of the row, if the snapshot has it. *)
RowsFound(snapshot, vertices) ==
  \A row \in Nat :
     OrdinalOfRow(snapshot, row) =
        {o \in 0..(snapshot.size - 1) : \E v \in ToSet(vertices) : v.id = snapshot.ids[o] /\ v.row = row}

(* The row id kept for each ordinal is that of its vertex (CsrVertexRowId). *)
BaseRow(snapshot, o) == IF snapshot.idsMatchRows THEN snapshot.ids[o] - 1 ELSE snapshot.rows[o]

RowsKept(snapshot, vertices) ==
  \A o \in 0..(snapshot.size - 1) :
     \E v \in ToSet(vertices) : v.id = snapshot.ids[o] /\ v.row = BaseRow(snapshot, o)

(* A snapshot finds its vertices by their row ids, and their row ids. *)
LEMMA SnapshotRows ==
  ASSUME NEW vertices, NEW edges, IsTables(vertices, edges)
  PROVE  /\ RowsFound(BuildTableSnapshot(vertices, edges), vertices)
         /\ RowsKept(BuildTableSnapshot(vertices, edges), vertices)
<1> DEFINE snapshot == BuildTableSnapshot(vertices, edges)
           sorted == OrderedById(vertices)
           size == Len(sorted)
           ids == [o \in 0..(size - 1) |-> sorted[o + 1].id]
           rows == [o \in 0..(size - 1) |-> sorted[o + 1].row]
<1>1. /\ snapshot.size = size /\ snapshot.ids = ids /\ snapshot.rows = rows
      /\ snapshot.ordinalByRow = OrdinalByRow(rows)
      /\ snapshot.idsMatchRows <=> \A o \in DOMAIN ids : ids[o] > 0 /\ rows[o] = ids[o] - 1
  BY DEF BuildTableSnapshot
<1>2. SnapshotOf(snapshot, vertices, edges)
  <2> HIDE DEF snapshot
  <2> QED
    BY SnapshotExact DEF snapshot
<1> HIDE DEF snapshot
<1>3. /\ vertices \in Seq(VertexRow) /\ DOMAIN vertices = 1..Len(vertices) /\ Len(vertices) \in Nat
      /\ \A i, j \in 1..Len(vertices) : vertices[i].id = vertices[j].id \/ vertices[i].row = vertices[j].row => i = j
  BY DEF IsTables
<1>4. /\ sorted \in Seq(VertexRow) /\ size = Len(vertices)
      /\ \A i, j \in 1..Len(vertices) : i < j => sorted[i].id < sorted[j].id
      /\ {sorted[k] : k \in 1..Len(vertices)} = ToSet(vertices)
  BY <1>3, OrderedByIdExact
<1> HIDE DEF sorted
<1>5. size \in Nat /\ \A o \in 0..(size - 1) : o + 1 \in 1..size /\ sorted[o + 1] \in VertexRow
  BY <1>4
<1>6. /\ \A v \in ToSet(vertices) : \E o \in 0..(size - 1) : sorted[o + 1] = v
      /\ \A o \in 0..(size - 1) : sorted[o + 1] \in ToSet(vertices)
  <2>1. \A k \in 1..size : k - 1 \in 0..(size - 1) /\ (k - 1) + 1 = k
    BY <1>5
  <2>2. ASSUME NEW v \in ToSet(vertices) PROVE \E o \in 0..(size - 1) : sorted[o + 1] = v
    <3>1. PICK k \in 1..size : sorted[k] = v
      BY <1>4
    <3> QED
      BY <2>1, <3>1
  <2> HIDE DEF size
  <2> QED
    BY <1>4, <1>5, <2>2
<1> HIDE DEF size
<1>7. \A o \in 0..(size - 1) : ids[o] = sorted[o + 1].id /\ rows[o] = sorted[o + 1].row
  OBVIOUS
<1>8. rows \in [0..(size - 1) -> Nat] /\ DOMAIN ids = 0..(size - 1)
  BY <1>5 DEF VertexRow
<1> HIDE DEF ids, rows
<1>9. ASSUME NEW v \in ToSet(vertices), NEW w \in ToSet(vertices), v.id = w.id \/ v.row = w.row
      PROVE  v = w
  BY <1>3, <1>9 DEF ToSet
<1>10. AscendingIds(ids, size) /\ snapshot.dense = IsDense(ids)
  BY <1>1, <1>2 DEF SnapshotOf
<1>11. ASSUME NEW o \in 0..(size - 1), NEW p \in 0..(size - 1), rows[o] = rows[p] PROVE o = p
  <2>1. sorted[o + 1] = sorted[p + 1]
    BY <1>6, <1>7, <1>9, <1>11
  <2>2. ids[o] = ids[p]
    BY <1>7, <2>1
  <2>3. o \in Int /\ p \in Int /\ ids[o] \in Nat /\ ids[p] \in Nat
        /\ (o < p => ids[o] < ids[p]) /\ (p < o => ids[p] < ids[o])
    BY <1>5, <1>10 DEF AscendingIds
  <2> QED
    BY <2>2, <2>3
<1>12. IndexedBy(snapshot, rows)
  BY <1>1, <1>8, <1>11 DEF IndexedBy, Distinct
<1>13. ASSUME NEW row \in Nat, NEW o \in 0..(size - 1)
       PROVE  rows[o] = row <=> \E v \in ToSet(vertices) : v.id = ids[o] /\ v.row = row
  BY <1>6, <1>7, <1>9
<1>14. ASSUME NEW row \in Nat
       PROVE  OrdinalOfRow(snapshot, row) = {o \in 0..(size - 1) : rows[o] = row}
  BY <1>1, <1>5, <1>10, <1>12, OrdinalOfRowExact
<1>15. RowsFound(snapshot, vertices)
  BY <1>1, <1>13, <1>14 DEF RowsFound
<1>16. ASSUME NEW o \in 0..(size - 1)
       PROVE  \E v \in ToSet(vertices) : v.id = snapshot.ids[o] /\ v.row = BaseRow(snapshot, o)
  <2>1. sorted[o + 1] \in ToSet(vertices) /\ sorted[o + 1].id = ids[o] /\ sorted[o + 1].row = rows[o]
    BY <1>6, <1>7
  <2>2. snapshot.idsMatchRows => rows[o] = ids[o] - 1
    BY <1>1, <1>8
  <2> QED
    BY <1>1, <2>1, <2>2 DEF BaseRow
<1>17. RowsKept(snapshot, vertices)
  BY <1>1, <1>16 DEF RowsKept
<1> QED
  BY <1>15, <1>17 DEF snapshot

(* Rows inserted since a snapshot was built change no lookup in it. *)
LEMMA RowsOfMore ==
  ASSUME NEW vertices, \A v, w \in ToSet(vertices) : v.id = w.id => v = w,
         NEW first, ToSet(first) \subseteq ToSet(vertices),
         NEW edges, NEW snapshot, SnapshotOf(snapshot, first, edges), RowsFound(snapshot, first)
  PROVE  RowsFound(snapshot, vertices)
<1>1. \A o \in 0..(snapshot.size - 1) : \E v \in ToSet(first) : v.id = snapshot.ids[o]
  BY DEF SnapshotOf
<1>2. ASSUME NEW row \in Nat, NEW o \in 0..(snapshot.size - 1)
      PROVE  (\E v \in ToSet(vertices) : v.id = snapshot.ids[o] /\ v.row = row)
                 <=> \E v \in ToSet(first) : v.id = snapshot.ids[o] /\ v.row = row
  BY <1>1
<1> QED
  BY <1>2 DEF RowsFound

(* The snapshot of a lease finds the vertices of the tables it has by their row ids. *)
LEMMA LeaseRows ==
  ASSUME NEW g, IsGraph(g)
  PROVE  RowsFound(LeaseOf(g).snapshot, g.vertices)
<1> DEFINE first == SubSeq(g.vertices, 1, g.old.vertices)
           prior == SubSeq(g.edges, 1, g.old.edges)
           old == BuildTableSnapshot(first, prior)
           caughtUp == ScanCsrDelta(old, g)
<1>1. IsTables(g.vertices, g.edges) /\ IsTables(first, prior) /\ g.old.vertices \in 0..Len(g.vertices)
  BY DEF IsGraph
<1>2. LeaseOf(g).snapshot = IF caughtUp # {} THEN old ELSE BuildTableSnapshot(g.vertices, g.edges)
  BY DEF LeaseOf
<1>3. SnapshotOf(old, first, prior) /\ RowsFound(old, first)
  BY <1>1, SnapshotExact, SnapshotRows
<1>4. \A v, w \in ToSet(g.vertices) : v.id = w.id => v = w
  BY <1>1 DEF IsTables, ToSet
<1>5. ToSet(first) \subseteq ToSet(g.vertices)
  <2>1. g.vertices \in Seq(VertexRow)
    BY <1>1, TablesTyped
  <2>2. DOMAIN first = 1..g.old.vertices /\ DOMAIN g.vertices = 1..Len(g.vertices) /\ Len(g.vertices) \in Nat
        /\ \A k \in 1..g.old.vertices : first[k] = g.vertices[k]
    BY <1>1, <2>1
  <2>3. \A k \in 1..g.old.vertices : k \in 1..Len(g.vertices)
    BY <1>1, <2>2
  <2> HIDE DEF first
  <2> QED
    BY <2>2, <2>3 DEF ToSet
<1> HIDE DEF old, first, prior
<1>6. RowsFound(old, g.vertices)
  BY <1>3, <1>4, <1>5, RowsOfMore
<1>7. RowsFound(BuildTableSnapshot(g.vertices, g.edges), g.vertices)
  BY <1>1, SnapshotRows
<1> QED
  BY <1>2, <1>6, <1>7

-----------------------------------------------------------------------------
(* Sequences flattened into one. *)
IsFlat(flat, n, s) ==
  /\ flat = [i \in 1..n |-> flat[i]]
  /\ \A i \in 1..n : flat[i] = IF i = 1 THEN s[i] ELSE flat[i - 1] \o s[i]

(* The sequences of a sequence can be joined one after another. *)
LEMMA FlatExists ==
  ASSUME NEW s, NEW n \in Nat
  PROVE  \E flat : IsFlat(flat, n, s)
<1> DEFINE Some == {m \in 0..n : \E flat : IsFlat(flat, m, s)}
<1>1. 0 \in Some
  <2> DEFINE none == [i \in 1..0 |-> <<>>]
  <2>1. none = [i \in 1..0 |-> none[i]]
    OBVIOUS
  <2>2. \A i \in 1..0 : FALSE
    OBVIOUS
  <2> HIDE DEF none
  <2>3. IsFlat(none, 0, s)
    BY <2>1, <2>2 DEF IsFlat
  <2> QED
    BY <2>3
<1>2. ASSUME NEW m \in 0..(n - 1), m \in Some PROVE m + 1 \in Some
  <2>1. PICK flat : IsFlat(flat, m, s)
    BY <1>2
  <2> DEFINE last == IF m + 1 = 1 THEN s[m + 1] ELSE flat[m] \o s[m + 1]
             more == [i \in 1..(m + 1) |-> IF i = m + 1 THEN last ELSE flat[i]]
  <2>2. ASSUME NEW i \in 1..(m + 1) PROVE more[i] = IF i = 1 THEN s[i] ELSE more[i - 1] \o s[i]
    <3>1. CASE i = m + 1
      <4>1. more[i] = last
        BY <3>1
      <4>2. i # 1 => more[i - 1] = flat[m]
        BY <3>1
      <4> HIDE DEF more
      <4> QED
        BY <3>1, <4>1, <4>2
    <3>2. CASE i \in 1..m
      <4>1. more[i] = flat[i] /\ (i # 1 => more[i - 1] = flat[i - 1])
        BY <3>2
      <4> HIDE DEF more
      <4> QED
        BY <2>1, <3>2, <4>1 DEF IsFlat
    <3> QED
      BY <3>1, <3>2
  <2>3. more = [i \in 1..(m + 1) |-> more[i]]
    OBVIOUS
  <2>4. IsFlat(more, m + 1, s)
    <3> HIDE DEF more
    <3> QED
      BY <2>2, <2>3 DEF IsFlat
  <2>5. m + 1 \in 0..n
    OBVIOUS
  <2> QED
    BY <2>4, <2>5
<1>3. 0..n \subseteq Some
  <2> HIDE DEF Some
  <2> QED
    BY <1>1, <1>2, NumberSteps
<1> QED
  BY <1>3

Agree(s, t, m) == \A i \in 1..m : s[i] = t[i]

(* In one way only, as far as the sequences agree. *)
LEMMA FlatOnce ==
  ASSUME NEW s, NEW t, NEW m \in Nat, NEW n \in Nat, m <= n, NEW a, NEW b, IsFlat(a, m, s), IsFlat(b, n, t),
         Agree(s, t, m)
  PROVE  Agree(a, b, m)
<1> DEFINE Same == {k \in 0..m : k = 0 \/ a[k] = b[k]}
<1>1. 0 \in Same
  OBVIOUS
<1>2. ASSUME NEW k \in 0..(m - 1), k \in Same PROVE k + 1 \in Same
  <2>1. k + 1 \in 1..m /\ k + 1 \in 1..n /\ (k + 1) - 1 = k /\ (k + 1 = 1 <=> k = 0) /\ k + 1 \in 0..m
    OBVIOUS
  <2>2. /\ a[k + 1] = IF k = 0 THEN s[k + 1] ELSE a[k] \o s[k + 1]
        /\ b[k + 1] = IF k = 0 THEN t[k + 1] ELSE b[k] \o t[k + 1]
    BY <2>1 DEF IsFlat
  <2>3. a[k + 1] = b[k + 1]
    BY <1>2, <2>1, <2>2 DEF Agree
  <2> QED
    BY <2>1, <2>3
<1>3. 0..m \subseteq Same
  <2> HIDE DEF Same
  <2> QED
    BY <1>1, <1>2, NumberSteps
<1> QED
  BY <1>3 DEF Agree

(* This is what FlattenSeq of the community modules does. *)
LEMMA FlattenSeqIs ==
  ASSUME NEW s, NEW n \in Nat, Len(s) = n, n # 0
  PROVE  \E flat : IsFlat(flat, n, s) /\ FlattenSeq(s) = flat[n]
<1> DEFINE F(flat) == flat = [i \in 1..Len(s) |-> IF i = 1 THEN s[i] ELSE flat[i - 1] \o s[i]]
           chosen == CHOOSE flat : F(flat)
<1>1. PICK flat : IsFlat(flat, n, s)
  BY FlatExists
<1>2. F(flat)
  <2>1. /\ flat = [i \in 1..n |-> flat[i]]
        /\ \A i \in 1..n : flat[i] = IF i = 1 THEN s[i] ELSE flat[i - 1] \o s[i]
    BY <1>1 DEF IsFlat
  <2>2. [i \in 1..n |-> flat[i]] = [i \in 1..n |-> IF i = 1 THEN s[i] ELSE flat[i - 1] \o s[i]]
    BY <2>1
  <2>3. flat = [i \in 1..n |-> IF i = 1 THEN s[i] ELSE flat[i - 1] \o s[i]]
    BY <2>1, <2>2
  <2> QED
    BY <2>3
<1>3. F(chosen)
  BY <1>2, Zenon
<1>4. FlattenSeq(s) = chosen[n]
  BY DEF FlattenSeq
<1>5. IsFlat(chosen, n, s)
  <2>1. chosen = [i \in 1..n |-> IF i = 1 THEN s[i] ELSE chosen[i - 1] \o s[i]]
    BY <1>3
  <2> HIDE DEF chosen
  <2>2. chosen = [i \in 1..n |-> chosen[i]]
    BY <2>1
  <2>3. \A i \in 1..n : chosen[i] = IF i = 1 THEN s[i] ELSE chosen[i - 1] \o s[i]
    BY <2>1
  <2> QED
    BY <2>2, <2>3 DEF IsFlat
<1> QED
  BY <1>4, <1>5

(* Of no sequence it is the empty one. *)
LEMMA FlattenEmpty ==
  ASSUME NEW s, Len(s) = 0
  PROVE  FlattenSeq(s) = s
BY DEF FlattenSeq

(* What is joined has the type of the parts. *)
LEMMA FlattenTyped ==
  ASSUME NEW X, NEW s \in Seq(Seq(X))
  PROVE  FlattenSeq(s) \in Seq(X)
<1>1. CASE Len(s) = 0
  <2>1. s = <<>> /\ <<>> \in Seq(X)
    BY <1>1
  <2>2. FlattenSeq(s) = s
    BY <1>1, FlattenEmpty
  <2> QED
    BY <2>1, <2>2
<1>2. CASE Len(s) # 0
  <2> DEFINE n == Len(s)
  <2>1. n \in Nat /\ n # 0
    BY <1>2
  <2> HIDE DEF n
  <2>2. PICK flat : IsFlat(flat, n, s) /\ FlattenSeq(s) = flat[n]
    BY <2>1, FlattenSeqIs DEF n
  <2> DEFINE Good == {k \in 0..n : k = 0 \/ flat[k] \in Seq(X)}
  <2>3. 0 \in Good
    BY <2>1
  <2>4. ASSUME NEW k \in 0..(n - 1), k \in Good PROVE k + 1 \in Good
    <3>1. k + 1 \in 1..n /\ (k + 1) - 1 = k /\ k + 1 \in 0..n /\ (k + 1 = 1 <=> k = 0)
      BY <2>1
    <3>2. s[k + 1] \in Seq(X)
      BY <3>1 DEF n
    <3>3. flat[k + 1] = IF k = 0 THEN s[k + 1] ELSE flat[k] \o s[k + 1]
      BY <2>2, <3>1 DEF IsFlat
    <3>4. k # 0 => flat[k] \in Seq(X)
      BY <2>4
    <3>5. flat[k + 1] \in Seq(X)
      BY <3>2, <3>3, <3>4
    <3> QED
      BY <3>1, <3>5
  <2>5. 0..n \subseteq Good
    <3> HIDE DEF Good
    <3> QED
      BY <2>1, <2>3, <2>4, NumberSteps
  <2>6. n \in 0..n
    BY <2>1
  <2> QED
    BY <2>1, <2>2, <2>5, <2>6
<1> QED
  BY <1>1, <1>2

(* One more sequence ends the flattened one. *)
LEMMA FlattenAppend ==
  ASSUME NEW X, NEW s \in Seq(Seq(X)), NEW t \in Seq(X), NEW more, more = Append(s, t)
  PROVE  FlattenSeq(more) = FlattenSeq(s) \o t
<1> DEFINE n == Len(s)
<1>1. /\ n \in Nat /\ Len(more) = n + 1 /\ more[n + 1] = t
      /\ \A i \in 1..n : more[i] = s[i]
  BY AppendedTo
<1> HIDE DEF n
<1>2. PICK b : IsFlat(b, n + 1, more) /\ FlattenSeq(more) = b[n + 1]
  <2>1. n + 1 \in Nat /\ n + 1 # 0 /\ Len(more) = n + 1
    BY <1>1
  <2> QED
    BY <2>1, FlattenSeqIs
<1>3. b[n + 1] = IF n = 0 THEN t ELSE b[n] \o t
  <2>1. n + 1 \in 1..(n + 1) /\ (n + 1) - 1 = n /\ (n + 1 = 1 <=> n = 0)
    BY <1>1
  <2> QED
    BY <1>1, <1>2, <2>1 DEF IsFlat
<1>4. CASE n = 0
  <2>1. s = <<>>
    BY <1>4 DEF n
  <2>2. FlattenSeq(s) = <<>>
    BY <2>1, FlattenEmpty
  <2>3. <<>> \o t = t
    OBVIOUS
  <2> QED
    BY <1>2, <1>3, <1>4, <2>2, <2>3
<1>5. CASE n # 0
  <2>1. PICK a : IsFlat(a, n, s) /\ FlattenSeq(s) = a[n]
    BY <1>1, <1>5, FlattenSeqIs DEF n
  <2>2. n + 1 \in Nat /\ n <= n + 1 /\ Agree(s, more, n)
    BY <1>1 DEF Agree
  <2>3. IsFlat(a, n, s) /\ IsFlat(b, n + 1, more)
    BY <1>2, <2>1
  <2>4. Agree(a, b, n)
    BY <1>1, <2>2, <2>3, FlatOnce
  <2>5. n \in 1..n
    BY <1>1, <1>5
  <2>6. a[n] = b[n]
    BY <2>4, <2>5 DEF Agree
  <2> QED
    BY <1>2, <1>3, <1>5, <2>1, <2>6
<1> QED
  BY <1>4, <1>5

-----------------------------------------------------------------------------
(* What a sequence holds, each once. *)
ListsOnce(list, S) ==
  /\ Len(list) \in Nat /\ DOMAIN list = 1..Len(list)
  /\ \A i \in 1..Len(list) : list[i] \in S
  /\ \A x \in S : \E i \in 1..Len(list) : list[i] = x
  /\ \A i, j \in 1..Len(list) : list[i] = list[j] => i = j

(* Two sequences without a common element, joined. *)
LEMMA JoinOnce ==
  ASSUME NEW X, NEW a \in Seq(X), NEW b \in Seq(X), NEW S, NEW T, ListsOnce(a, S), ListsOnce(b, T), S \cap T = {}
  PROVE  a \o b \in Seq(X) /\ ListsOnce(a \o b, S \cup T)
<1> DEFINE c == a \o b
           m == Len(a)
           n == Len(b)
<1>1. /\ c \in Seq(X) /\ m \in Nat /\ n \in Nat /\ Len(c) = m + n /\ DOMAIN c = 1..(m + n)
      /\ \A i \in 1..(m + n) : c[i] = IF i <= m THEN a[i] ELSE b[i - m]
  OBVIOUS
<1>2. /\ \A i \in 1..m : a[i] \in S
      /\ \A x \in S : \E i \in 1..m : a[i] = x
      /\ \A i, j \in 1..m : a[i] = a[j] => i = j
  BY DEF ListsOnce
<1>3. /\ \A i \in 1..n : b[i] \in T
      /\ \A x \in T : \E i \in 1..n : b[i] = x
      /\ \A i, j \in 1..n : b[i] = b[j] => i = j
  BY DEF ListsOnce
<1> HIDE DEF c, m, n
<1>4. \A i \in 1..(m + n) : (i \in 1..m /\ c[i] = a[i]) \/ (i - m \in 1..n /\ c[i] = b[i - m])
  BY <1>1
<1>5. \A i \in 1..m : i \in 1..(m + n) /\ c[i] = a[i]
  BY <1>1
<1>6. \A i \in 1..n : i + m \in 1..(m + n) /\ c[i + m] = b[i]
  BY <1>1
<1>7. \A i \in 1..(m + n) : c[i] \in S \cup T
  BY <1>2, <1>3, <1>4
<1>8. \A x \in S \cup T : \E i \in 1..(m + n) : c[i] = x
  BY <1>2, <1>3, <1>5, <1>6
<1>9. \A i, j \in 1..(m + n) : c[i] = c[j] => i = j
  <2> SUFFICES ASSUME NEW i \in 1..(m + n), NEW j \in 1..(m + n), c[i] = c[j] PROVE i = j
    OBVIOUS
  <2>1. i - m = j - m => i = j
    BY <1>1
  <2> QED
    BY <1>2, <1>3, <1>4, <2>1
<1>10. ListsOnce(c, S \cup T)
  <2>1. Len(c) = m + n /\ Len(c) \in Nat /\ DOMAIN c = 1..(m + n)
    BY <1>1
  <2> QED
    BY <1>7, <1>8, <1>9, <2>1 DEF ListsOnce
<1> QED
  BY <1>1, <1>10 DEF c

(* Lists without common elements. *)
AreParts(s, n, of, X) ==
  /\ n \in Nat /\ Len(s) = n /\ (n = 0 => s = <<>>)
  /\ \A o \in 1..n : s[o] \in Seq(X) /\ ListsOnce(s[o], of[o])
  /\ \A o, p \in 1..n : o # p => of[o] \cap of[p] = {}

AllOf(of, n) == UNION {of[o] : o \in 1..n}

(* FlattenSeq of them lists the elements of them all. *)
LEMMA FlattenOnce ==
  ASSUME NEW X, NEW s, NEW n, NEW of, AreParts(s, n, of, X)
  PROVE  FlattenSeq(s) \in Seq(X) /\ ListsOnce(FlattenSeq(s), AllOf(of, n))
<1> DEFINE All(k) == UNION {of[o] : o \in 1..k}
<1>0. /\ n \in Nat /\ Len(s) = n /\ (n = 0 => s = <<>>)
      /\ \A o \in 1..n : s[o] \in Seq(X) /\ ListsOnce(s[o], of[o])
      /\ \A o, p \in 1..n : o # p => of[o] \cap of[p] = {}
  BY DEF AreParts
<1>1. CASE n = 0
  <2>1. FlattenSeq(s) = <<>>
    BY <1>0, <1>1, FlattenEmpty
  <2>2. 1..n = {} /\ All(n) = {}
    BY <1>1
  <2> HIDE DEF All, AllOf
  <2>3. <<>> \in Seq(X) /\ ListsOnce(<<>>, {})
    BY DEF ListsOnce
  <2> QED
    BY <2>1, <2>2, <2>3 DEF All, AllOf
<1>2. CASE n # 0
  <2>1. PICK flat : IsFlat(flat, n, s) /\ FlattenSeq(s) = flat[n]
    BY <1>0, <1>2, FlattenSeqIs
  <2> DEFINE Good == {k \in 0..n : k = 0 \/ (flat[k] \in Seq(X) /\ ListsOnce(flat[k], All(k)))}
  <2>2. 0 \in Good
    BY <1>0
  <2>3. ASSUME NEW k \in 0..(n - 1), k \in Good PROVE k + 1 \in Good
    <3>1. k + 1 \in 1..n /\ (k + 1) - 1 = k /\ k + 1 \in 0..n /\ (k + 1 = 1 <=> k = 0)
      BY <1>0
    <3>2. s[k + 1] \in Seq(X) /\ ListsOnce(s[k + 1], of[k + 1])
      BY <1>0, <3>1
    <3>3. flat[k + 1] = IF k = 0 THEN s[k + 1] ELSE flat[k] \o s[k + 1]
      BY <2>1, <3>1 DEF IsFlat
    <3>4. \A o : o \in 1..(k + 1) <=> o = k + 1 \/ o \in 1..k
      BY <1>0
    <3>5. All(k + 1) = All(k) \cup of[k + 1]
      <4>1. \A x \in All(k + 1) : x \in All(k) \cup of[k + 1]
        BY <3>4
      <4>2. \A x \in All(k) \cup of[k + 1] : x \in All(k + 1)
        BY <3>4
      <4> QED
        BY <4>1, <4>2
    <3>6. All(k) \cap of[k + 1] = {}
      <4>1. \A o \in 1..k : o \in 1..n /\ o # k + 1
        BY <1>0
      <4> QED
        BY <1>0, <3>1, <4>1
    <3>7. k = 0 => All(k) = {}
      OBVIOUS
    <3> HIDE DEF All, AllOf
    <3>8. k # 0 => flat[k] \in Seq(X) /\ ListsOnce(flat[k], All(k))
      BY <2>3
    <3>9. flat[k + 1] \in Seq(X) /\ ListsOnce(flat[k + 1], All(k + 1))
      <4>1. CASE k = 0
        <5>1. flat[k + 1] = s[k + 1] /\ All(k + 1) = of[k + 1]
          BY <3>3, <3>5, <3>7, <4>1
        <5> QED
          BY <3>2, <5>1
      <4>2. CASE k # 0
        <5>1. /\ flat[k] \o s[k + 1] \in Seq(X)
              /\ ListsOnce(flat[k] \o s[k + 1], All(k) \cup of[k + 1])
          BY <3>2, <3>6, <3>8, <4>2, JoinOnce
        <5> QED
          BY <3>3, <3>5, <4>2, <5>1
      <4> QED
        BY <4>1, <4>2
    <3> QED
      BY <3>1, <3>9
  <2> HIDE DEF All, AllOf
  <2>4. 0..n \subseteq Good
    <3> HIDE DEF Good
    <3> QED
      BY <1>0, <2>2, <2>3, NumberSteps
  <2>5. n \in 0..n
    BY <1>0
  <2>6. flat[n] \in Seq(X) /\ ListsOnce(flat[n], All(n))
    BY <1>2, <2>4, <2>5
  <2> QED
    BY <2>1, <2>6 DEF All, AllOf
<1> QED
  BY <1>1, <1>2

(* The range of a key, after offsets and scatter, lists the values of the entries of that key. *)
LEMMA RangeOfKey ==
  ASSUME NEW size \in Nat, NEW n \in Nat, NEW keys \in [1..n -> 0..(size - 1)], NEW values,
         NEW key \in 0..(size - 1),
         \A j, k \in 1..n : keys[j] = key /\ keys[k] = key /\ values[j] = values[k] => j = k
  PROVE  LET offsets == Offsets(size, keys)
             list == Slice(Scatter(offsets, keys, values), offsets[key], offsets[key + 1])
         IN  /\ ListsOnce(list, {values[k] : k \in {k \in 1..n : keys[k] = key}})
             /\ \A X : (\A k \in 1..n : values[k] \in X) => list \in Seq(X)
<1> DEFINE offsets == Offsets(size, keys)
           places == Places(keys, n)
           array == Scatter(offsets, keys, values)
           first == offsets[key]
           last == offsets[key + 1]
           list == Slice(array, first, last)
           S == {values[k] : k \in {k \in 1..n : keys[k] = key}}
<1>1. /\ places \in [1..n -> 0..(n - 1)]
      /\ \A j, k \in 1..n : places[j] = places[k] => j = k
      /\ \A p \in 0..(n - 1) : \E k \in 1..n : places[k] = p
      /\ first <= last
      /\ \A k \in 1..n : keys[k] = key <=> first <= places[k] /\ places[k] < last
  <2>1. ArePlaces(places, size, n, keys)
    BY PlacesExact
  <2> HIDE DEF places
  <2> QED
    BY <2>1 DEF ArePlaces, Bijection, Injection, Surjection, IsInjective
<1>2. offsets \in [0..size -> 0..n]
  BY OffsetsExact
<1>3. \A k \in 1..n : array[places[k]] = values[k]
  <2>1. n \in Nat /\ size \in Nat /\ keys \in [1..n -> 0..(size - 1)]
    OBVIOUS
  <2>2. \A k \in 1..n : Scatter(Offsets(size, keys), keys, values)[Places(keys, n)[k]] = values[k]
    BY ONLY <2>1, ScatterExact
  <2> QED
    BY <2>2
<1> HIDE DEF offsets, places, array
<1>4. first \in Nat /\ last \in 0..n
  <2>1. key \in 0..size /\ key + 1 \in 0..size
    OBVIOUS
  <2> QED
    BY <1>2, <2>1
<1> HIDE DEF first, last
<1> DEFINE count == last - first
<1>5. count \in Nat
  BY <1>1, <1>4
<1>6. list = [i \in 1..count |-> array[first + i - 1]]
  BY DEF Slice
<1> HIDE DEF list
<1>7. Len(list) = count /\ DOMAIN list = 1..count /\ \A i \in 1..count : list[i] = array[first + i - 1]
  <2> HIDE DEF count
  <2> QED
    BY <1>5, <1>6
<1>8. ASSUME NEW i \in 1..count
      PROVE  \E k \in 1..n : keys[k] = key /\ places[k] = first + i - 1 /\ list[i] = values[k]
  <2>1. first + i - 1 \in 0..(n - 1) /\ first <= first + i - 1 /\ first + i - 1 < last
    BY <1>4, <1>5
  <2>2. PICK k \in 1..n : places[k] = first + i - 1
    BY <1>1, <2>1
  <2>3. keys[k] = key
    BY <1>1, <2>1, <2>2
  <2>4. list[i] = values[k]
    BY <1>3, <1>7, <2>2
  <2> QED
    BY <2>2, <2>3, <2>4
<1>9. ASSUME NEW k \in 1..n, keys[k] = key
      PROVE  \E i \in 1..count : list[i] = values[k]
  <2>1. places[k] \in 0..(n - 1) /\ first <= places[k] /\ places[k] < last
    BY <1>1, <1>9
  <2> DEFINE i == places[k] - first + 1
  <2>2. i \in 1..count /\ first + i - 1 = places[k]
    BY SMTT(20), <1>4, <1>5, <2>1
  <2> HIDE DEF i
  <2> QED
    BY <1>3, <1>7, <2>2
<1>10. ASSUME NEW i \in 1..count, NEW j \in 1..count, list[i] = list[j] PROVE i = j
  <2>1. PICK k \in 1..n : keys[k] = key /\ places[k] = first + i - 1 /\ list[i] = values[k]
    BY <1>8
  <2>2. PICK m \in 1..n : keys[m] = key /\ places[m] = first + j - 1 /\ list[j] = values[m]
    BY <1>8
  <2>3. k = m
    BY <1>10, <2>1, <2>2
  <2> QED
    BY <1>4, <1>5, <2>1, <2>2, <2>3
<1>11. ListsOnce(list, S)
  <2>1. \A i \in 1..count : list[i] \in S
    BY <1>8
  <2>2. \A x \in S : \E i \in 1..count : list[i] = x
    BY <1>9
  <2> HIDE DEF S, count
  <2> QED
    BY <1>5, <1>7, <1>10, <2>1, <2>2 DEF ListsOnce
<1>12. ASSUME NEW X, \A k \in 1..n : values[k] \in X PROVE list \in Seq(X)
  <2>1. \A i \in 1..count : list[i] \in X
    BY <1>8, <1>12
  <2>2. list = [i \in 1..count |-> list[i]]
    BY <1>6, <1>7
  <2> HIDE DEF count
  <2>3. list \in [1..count -> X]
    BY <2>1, <2>2
  <2> QED
    BY <1>5, <2>3
<1> HIDE DEF S
<1>13. ListsOnce(list, S) /\ \A X : (\A k \in 1..n : values[k] \in X) => list \in Seq(X)
  BY <1>11, <1>12
<1> QED
  BY <1>13 DEF list, S, first, last, array, offsets

(* The label ids kept at each ordinal, of a dictionary of D labels. *)
LabelLists(labels, size, D) ==
  /\ size \in Nat /\ D \in Nat
  /\ \A o \in 0..(size - 1) :
        labels[o] \in Seq(1..D) /\ \A i, j \in 1..Len(labels[o]) : labels[o][i] = labels[o][j] => i = j

PostedRight(labels, size, D) ==
  LET entries == PostingEntries(labels, size)
      keys == [k \in DOMAIN entries |-> entries[k].label]
      values == [k \in DOMAIN entries |-> entries[k].vertex]
      offsets == Offsets(D + 1, keys)
      list(l) == Slice(Scatter(offsets, keys, values), offsets[l], offsets[l + 1])
  IN  /\ DOMAIN offsets = 0..(D + 1)
      /\ \A l \in 1..D :
            /\ list(l) \in Seq(Nat)
            /\ ListsOnce(list(l), {o \in 0..(size - 1) : Known(labels[o], l)})

(* The postings: the range of a label id lists the ordinals that have it, each once. *)
LEMMA PostingsList ==
  ASSUME NEW size, NEW D, NEW labels, LabelLists(labels, size, D)
  PROVE  PostedRight(labels, size, D)
<1> DEFINE at(o) == [k \in DOMAIN labels[o - 1] |-> [label |-> labels[o - 1][k], vertex |-> o - 1]]
           s == [o \in 1..size |-> at(o)]
           of == [o \in 1..size |-> {[label |-> labels[o - 1][k], vertex |-> o - 1] : k \in 1..Len(labels[o - 1])}]
           X == [label : 1..D, vertex : 0..(size - 1)]
           all == AllOf(of, size)
           entries == PostingEntries(labels, size)
           keys == [k \in DOMAIN entries |-> entries[k].label]
           values == [k \in DOMAIN entries |-> entries[k].vertex]
           offsets == Offsets(D + 1, keys)
           n == Len(entries)
<1>0. /\ size \in Nat /\ D \in Nat
      /\ \A o \in 0..(size - 1) :
            labels[o] \in Seq(1..D) /\ \A i, j \in 1..Len(labels[o]) : labels[o][i] = labels[o][j] => i = j
  BY DEF LabelLists
<1>1. entries = FlattenSeq(s)
  BY DEF PostingEntries
<1>2. ASSUME NEW o \in 1..size
      PROVE  s[o] \in Seq(X) /\ ListsOnce(s[o], of[o])
  <2> DEFINE ids == labels[o - 1]
             m == Len(ids)
             list == [k \in 1..m |-> [label |-> ids[k], vertex |-> o - 1]]
  <2>1. o - 1 \in 0..(size - 1)
    BY <1>0
  <2>2. ids \in Seq(1..D) /\ \A i, j \in 1..m : ids[i] = ids[j] => i = j
    BY <1>0, <2>1
  <2>3. m \in Nat /\ DOMAIN ids = 1..m /\ \A k \in 1..m : ids[k] \in 1..D
    <3>1. D \in Nat
      BY <1>0
    <3> HIDE DEF ids
    <3> QED
      BY <2>2, <3>1
  <2>4. s[o] = list /\ of[o] = {[label |-> ids[k], vertex |-> o - 1] : k \in 1..m}
    BY <2>3
  <2> HIDE DEF ids, m, s, of
  <2>5. list \in Seq(X) /\ Len(list) = m /\ DOMAIN list = 1..m
    <3>1. list \in [1..m -> X]
      BY <2>1, <2>3
    <3> HIDE DEF list, X
    <3> QED
      BY <2>3, <3>1
  <2>6. \A k \in 1..m : list[k] = [label |-> ids[k], vertex |-> o - 1] /\ list[k].label = ids[k]
    OBVIOUS
  <2> HIDE DEF list
  <2>7. \A i, j \in 1..m : list[i] = list[j] => i = j
    BY ZenonT(40), <2>2, <2>6
  <2>9. (\A i \in 1..m : list[i] \in of[o]) /\ \A x \in of[o] : \E i \in 1..m : list[i] = x
    BY <2>4, <2>6
  <2>8. ListsOnce(list, of[o])
    <3> DEFINE S == of[o]
    <3> HIDE DEF S
    <3>1. (\A i \in 1..m : list[i] \in S) /\ \A x \in S : \E i \in 1..m : list[i] = x
      BY <2>9 DEF S
    <3>2. ListsOnce(list, S)
      BY <2>3, <2>5, <2>7, <3>1 DEF ListsOnce
    <3> QED
      BY <3>2 DEF S
  <2> QED
    BY <2>4, <2>5, <2>8
<1>3. \A o, p \in 1..size : o # p => of[o] \cap of[p] = {}
  <2>1. ASSUME NEW o \in 1..size, NEW x \in of[o] PROVE x.vertex = o - 1
    BY <2>1
  <2> HIDE DEF of
  <2>2. \A o, p \in 1..size : o # p => o - 1 # p - 1
    BY <1>0
  <2> QED
    BY <2>1, <2>2
<1>4. Len(s) = size /\ (size = 0 => s = <<>>)
  <2> HIDE DEF at
  <2> QED
    BY <1>0
<1> HIDE DEF s, of, entries, X
<1>5. entries \in Seq(X) /\ ListsOnce(entries, all)
  <2>1. FlattenSeq(s) \in Seq(X) /\ ListsOnce(FlattenSeq(s), all)
    <3>1. AreParts(s, size, of, X)
      BY <1>0, <1>2, <1>3, <1>4 DEF AreParts
    <3> QED
      BY <3>1, FlattenOnce
  <2> QED
    BY <1>1, <2>1
<1>6. /\ n \in Nat /\ DOMAIN entries = 1..n /\ \A k \in 1..n : entries[k] \in X /\ entries[k] \in all
      /\ \A x \in all : \E k \in 1..n : entries[k] = x
      /\ \A j, k \in 1..n : entries[j] = entries[k] => j = k
  BY <1>5 DEF ListsOnce
<1>7. ASSUME NEW o \in 0..(size - 1), NEW l \in 1..D
      PROVE  [label |-> l, vertex |-> o] \in all <=> Known(labels[o], l)
  <2>1. o + 1 \in 1..size /\ (o + 1) - 1 = o
    BY <1>0
  <2>2. of[o + 1] = {[label |-> labels[o][k], vertex |-> o] : k \in 1..Len(labels[o])}
    BY <2>1 DEF of
  <2>3. \A p \in 1..size : [label |-> l, vertex |-> o] \in of[p] => p = o + 1
    <3> SUFFICES ASSUME NEW p \in 1..size, [label |-> l, vertex |-> o] \in of[p] PROVE p = o + 1
      OBVIOUS
    <3>1. [label |-> l, vertex |-> o].vertex = p - 1
      BY DEF of
    <3> QED
      BY <3>1
  <2>4. [label |-> l, vertex |-> o] \in all <=> [label |-> l, vertex |-> o] \in of[o + 1]
    BY <2>1, <2>3 DEF AllOf
  <2>5. [label |-> l, vertex |-> o] \in of[o + 1] <=> \E k \in 1..Len(labels[o]) : labels[o][k] = l
    BY <2>2
  <2> QED
    BY <2>4, <2>5 DEF Known
<1> HIDE DEF all, n
<1>8. /\ \A k \in 1..n : entries[k].label \in 1..D /\ entries[k].vertex \in 0..(size - 1)
      /\ \A k \in 1..n : entries[k] = [label |-> entries[k].label, vertex |-> entries[k].vertex]
  BY <1>6 DEF X
<1>9. /\ keys \in [1..n -> 0..((D + 1) - 1)] /\ D + 1 \in Nat
      /\ \A k \in 1..n : keys[k] = entries[k].label /\ values[k] = entries[k].vertex
  BY <1>0, <1>6, <1>8
<1> HIDE DEF keys, values
<1>10. DOMAIN offsets = 0..(D + 1)
  <2>1. offsets \in [0..(D + 1) -> 0..n]
    BY <1>6, <1>9, OffsetsExact
  <2> HIDE DEF offsets
  <2> QED
    BY <2>1
<1>11. ASSUME NEW l \in 1..D
       PROVE  LET list == Slice(Scatter(offsets, keys, values), offsets[l], offsets[l + 1])
              IN  list \in Seq(Nat) /\ ListsOnce(list, {o \in 0..(size - 1) : Known(labels[o], l)})
  <2> DEFINE list == Slice(Scatter(offsets, keys, values), offsets[l], offsets[l + 1])
             S == {values[k] : k \in {k \in 1..n : keys[k] = l}}
  <2>1. \A j, k \in 1..n : keys[j] = l /\ keys[k] = l /\ values[j] = values[k] => j = k
    BY <1>6, <1>8, <1>9
  <2>2. l \in 0..((D + 1) - 1)
    BY <1>0
  <2>3. ListsOnce(list, S) /\ \A Y : (\A k \in 1..n : values[k] \in Y) => list \in Seq(Y)
    BY <1>6, <1>9, <2>1, <2>2, RangeOfKey
  <2> HIDE DEF list
  <2>4. \A k \in 1..n : values[k] \in Nat
    BY <1>8, <1>9
  <2>5. S = {o \in 0..(size - 1) : Known(labels[o], l)}
    <3>1. ASSUME NEW k \in 1..n, keys[k] = l PROVE values[k] \in 0..(size - 1) /\ Known(labels[values[k]], l)
      <4>1. values[k] \in 0..(size - 1) /\ entries[k] = [label |-> l, vertex |-> values[k]]
        BY <1>8, <1>9, <3>1
      <4>2. [label |-> l, vertex |-> values[k]] \in all
        BY <1>6, <4>1
      <4> QED
        BY <1>7, <4>1, <4>2
    <3>2. ASSUME NEW o \in 0..(size - 1), Known(labels[o], l) PROVE \E k \in 1..n : keys[k] = l /\ values[k] = o
      <4>1. PICK k \in 1..n : entries[k] = [label |-> l, vertex |-> o]
        BY <1>6, <1>7, <3>2
      <4>2. entries[k].label = l /\ entries[k].vertex = o
        BY <4>1
      <4> QED
        BY <1>9, <4>2
    <3> QED
      BY <3>1, <3>2
  <2> QED
    BY <2>3, <2>4, <2>5 DEF list
<1> QED
  BY <1>10, <1>11 DEF PostedRight, offsets, keys, values, entries

-----------------------------------------------------------------------------
(* The postings of a snapshot, and those of a lease with its delta's. *)
PostsOf(s) ==
  \A l \in 1..Len(s.dict) :
      /\ PostingRange(s, l) \in Seq(Nat)
      /\ ListsOnce(PostingRange(s, l), {o \in 0..(s.size - 1) : Known(s.vertexLabels[o], l)})

HasPostings(held) == PostsOf(held.snapshot) /\ Posts(held.delta)

(* BuildTableSnapshot lists the vertices of each label, each once; none of a label that
   only edges have. *)
LEMMA BuiltPosts ==
  ASSUME NEW vertices, NEW edges, IsTables(vertices, edges)
  PROVE  PostsOf(BuildTableSnapshot(vertices, edges))
<1> DEFINE snapshot == BuildTableSnapshot(vertices, edges)
           sorted == OrderedById(vertices)
           size == Len(sorted)
           vertexDict == VertexDict(sorted)
           dict == EdgeDict(vertexDict, edges)
           vertexLabels == [o \in 0..(size - 1) |-> LabelIdsOf(vertexDict, sorted[o + 1].labels)]
           D == Len(vertexDict)
           entries == PostingEntries(vertexLabels, size)
           keys == [k \in DOMAIN entries |-> entries[k].label]
           values == [k \in DOMAIN entries |-> entries[k].vertex]
           offsets == Offsets(D + 1, keys)
           postings == Scatter(offsets, keys, values)
<1>1. /\ snapshot.size = size /\ snapshot.dict = dict /\ snapshot.vertexLabels = vertexLabels
      /\ snapshot.postingOffsets = offsets /\ snapshot.postings = postings
  BY DEF BuildTableSnapshot
<1> HIDE DEF snapshot
<1>2. /\ vertices \in Seq(VertexRow) /\ edges \in Seq(EdgeRow)
      /\ \A i, j \in 1..Len(vertices) : vertices[i].id = vertices[j].id => i = j
  BY TablesTyped
<1>3. sorted \in Seq(VertexRow)
  BY <1>2, OrderedByIdExact
<1> HIDE DEF sorted
<1>4. size \in Nat /\ \A o \in 0..(size - 1) : sorted[o + 1] \in VertexRow
  BY <1>3
<1>5. IsDict(vertexDict)
  BY <1>3, VertexDictExact DEF Grown
<1> HIDE DEF vertexDict
<1>6. Grown(dict, vertexDict)
  BY <1>2, <1>5, EdgeDictExact
<1> HIDE DEF dict, size
<1>7. D \in Nat /\ Len(dict) \in Nat /\ D <= Len(dict)
  BY <1>5, <1>6 DEF Grown, IsDict
<1>8. ASSUME NEW o \in 0..(size - 1)
      PROVE  /\ vertexLabels[o] \in Seq(1..D)
             /\ \A i, j \in 1..Len(vertexLabels[o]) : vertexLabels[o][i] = vertexLabels[o][j] => i = j
  <2>1. sorted[o + 1].labels \in Seq(STRING)
    BY <1>4 DEF VertexRow
  <2>2. IsIds(LabelIdsOf(vertexDict, sorted[o + 1].labels), vertexDict)
    BY <1>5, <2>1, LabelIdsOfExact
  <2>3. vertexLabels[o] = LabelIdsOf(vertexDict, sorted[o + 1].labels)
    OBVIOUS
  <2> QED
    BY <2>2, <2>3 DEF IsIds
<1> HIDE DEF vertexLabels
<1>9. /\ DOMAIN offsets = 0..(D + 1)
      /\ \A l \in 1..D :
            /\ Slice(postings, offsets[l], offsets[l + 1]) \in Seq(Nat)
            /\ ListsOnce(Slice(postings, offsets[l], offsets[l + 1]), {o \in 0..(size - 1) : Known(vertexLabels[o], l)})
  <2> HIDE DEF D
  <2>1. LabelLists(vertexLabels, size, D)
    BY <1>4, <1>7, <1>8 DEF LabelLists
  <2>2. PostedRight(vertexLabels, size, D)
    BY <2>1, PostingsList
  <2> QED
    BY <2>2 DEF PostedRight
<1> HIDE DEF postings, offsets, D
<1>10. \A l : PostingRange(snapshot, l) = IF l + 1 \in DOMAIN offsets THEN Slice(postings, offsets[l], offsets[l + 1]) ELSE <<>>
  BY <1>1 DEF PostingRange
<1>11. ASSUME NEW l \in 1..Len(dict)
       PROVE  /\ PostingRange(snapshot, l) \in Seq(Nat)
              /\ ListsOnce(PostingRange(snapshot, l), {o \in 0..(size - 1) : Known(vertexLabels[o], l)})
  <2>1. CASE l \in 1..D
    <3>1. l + 1 \in 0..(D + 1)
      BY <1>7, <2>1
    <3> QED
      BY <1>9, <1>10, <2>1, <3>1
  <2>2. CASE l \notin 1..D
    <3>1. l + 1 \notin 0..(D + 1)
      BY <1>7, <2>2
    <3>2. PostingRange(snapshot, l) = <<>>
      BY <1>9, <1>10, <3>1
    <3>3. ASSUME NEW o \in 0..(size - 1), Known(vertexLabels[o], l) PROVE FALSE
      <4>1. vertexLabels[o] \in Seq(1..D)
        BY <1>8
      <4>3. PICK k \in 1..Len(vertexLabels[o]) : vertexLabels[o][k] = l
        BY <3>3 DEF Known
      <4>2. l \in 1..D
        <5> DEFINE list == vertexLabels[o]
                   small == 1..D
        <5>1. list \in Seq(small) /\ k \in 1..Len(list) /\ list[k] = l
          BY <4>1, <4>3
        <5> HIDE DEF list, small
        <5>2. l \in small
          BY <5>1
        <5> QED
          BY <5>2 DEF small
      <4> QED
        BY <2>2, <4>2
    <3>4. {o \in 0..(size - 1) : Known(vertexLabels[o], l)} = {}
      BY <3>3
    <3>5. <<>> \in Seq(Nat) /\ ListsOnce(<<>>, {})
      BY DEF ListsOnce
    <3> QED
      BY <3>2, <3>4, <3>5
  <2> QED
    BY <2>1, <2>2
<1> QED
  BY <1>1, <1>11 DEF PostsOf, snapshot

(* Every lease has its postings. *)
LEMMA AcquiredPosts ==
  ASSUME NEW g, IsGraph(g)
  PROVE  HasPostings(LeaseOf(g))
<1> DEFINE first == SubSeq(g.vertices, 1, g.old.vertices)
           prior == SubSeq(g.edges, 1, g.old.edges)
           old == BuildTableSnapshot(first, prior)
           new == BuildTableSnapshot(g.vertices, g.edges)
           caughtUp == ScanCsrDelta(old, g)
           d == CHOOSE d \in caughtUp : TRUE
<1>1. IsTables(g.vertices, g.edges) /\ IsTables(first, prior)
  BY DEF IsGraph
<1>2. LeaseOf(g) = IF caughtUp # {} THEN [snapshot |-> old, delta |-> d] ELSE [snapshot |-> new, delta |-> NoDelta]
  BY DEF LeaseOf
<1>3. SnapshotOf(old, first, prior) /\ PostsOf(old) /\ PostsOf(new)
  BY <1>1, SnapshotExact, BuiltPosts
<1> HIDE DEF old, new, d
<1>4. caughtUp # {} => Posts(d)
  <2> SUFFICES ASSUME caughtUp # {} PROVE Posts(d)
    OBVIOUS
  <2>1. d \in ScanCsrDelta(old, g)
    BY DEF d
  <2>2. AddsRest(old, d, g.vertices, g.old.vertices, g.edges, g.old.edges)
    BY <1>3, <2>1, ScanCsrDeltaExact
  <2> QED
    BY <2>2 DEF AddsRest, AddsEdges
<1>5. Posts(NoDelta)
  BY NoDeltaAdds DEF AddsVertices
<1> QED
  BY <1>2, <1>3, <1>4, <1>5 DEF HasPostings

-----------------------------------------------------------------------------
(* The row id a lease gives for an ordinal is that of its vertex. *)
RowIdsKnown(held, vertices) ==
  \A o \in DOMAIN AllIds(held.snapshot, held.delta) :
     \E v \in ToSet(vertices) : v.id = AllIds(held.snapshot, held.delta)[o] /\ v.row = RowIdIn(held, o)

(* The row ids of a snapshot and of the rest of its tables, together. *)
LEMMA RowIdsFrom ==
  ASSUME NEW snapshot, NEW d, NEW vertices, NEW old, NEW first, snapshot.size \in Nat, d.ids \in Seq(Nat),
         vertices \in Seq(VertexRow), old \in 0..Len(vertices), ToSet(first) \subseteq ToSet(vertices),
         RowsKept(snapshot, first), Len(d.ids) = Len(vertices) - old,
         \A j \in 1..(Len(vertices) - old) : d.ids[j] = vertices[old + j].id /\ d.rows[j] = vertices[old + j].row
  PROVE  RowIdsKnown([snapshot |-> snapshot, delta |-> d], vertices)
<1> DEFINE held == [snapshot |-> snapshot, delta |-> d]
           ids == AllIds(snapshot, d)
           size == snapshot.size
           m == Len(d.ids)
<1>1. held.snapshot = snapshot /\ held.delta = d /\ m \in Nat /\ size \in Nat
  OBVIOUS
<1>2. \A o : RowIdIn(held, o) = IF o >= size THEN d.rows[o - size + 1] ELSE BaseRow(snapshot, o)
  BY DEF RowIdIn, RowId, BaseRow
<1>3. /\ \A o \in 0..(size - 1) : ids[o] = snapshot.ids[o]
      /\ \A j \in 1..m : ids[size + j - 1] = d.ids[j]
      /\ \A o \in DOMAIN ids : o \in 0..(size - 1) \/ \E j \in 1..m : o = size + j - 1
  <2>1. snapshot.size \in Nat /\ Len(d.ids) \in Nat
    BY <1>1
  <2> HIDE DEF ids
  <2> QED
    BY SMTT(20), <2>1, AllIdsExact DEF ids
<1>4. \A j \in 1..m : vertices[old + j] \in ToSet(vertices)
  BY <1>1 DEF ToSet
<1> HIDE DEF held, ids, size
<1>5. ASSUME NEW o \in 0..(size - 1) PROVE \E v \in ToSet(vertices) : v.id = ids[o] /\ v.row = RowIdIn(held, o)
  <2>1. RowIdIn(held, o) = BaseRow(snapshot, o)
    BY <1>1, <1>2
  <2>2. PICK v \in ToSet(first) : v.id = snapshot.ids[o] /\ v.row = BaseRow(snapshot, o)
    BY DEF RowsKept, size
  <2> QED
    BY <1>3, <2>1, <2>2
<1>6. ASSUME NEW j \in 1..m, NEW o, o = size + j - 1
      PROVE  \E v \in ToSet(vertices) : v.id = ids[o] /\ v.row = RowIdIn(held, o)
  <2>1. o >= size /\ o - size + 1 = j
    BY <1>1, <1>6
  <2>2. RowIdIn(held, o) = d.rows[j]
    BY <1>2, <2>1
  <2>3. ids[o] = d.ids[j]
    BY <1>3, <1>6
  <2>4. d.ids[j] = vertices[old + j].id /\ d.rows[j] = vertices[old + j].row
    OBVIOUS
  <2> QED
    BY <1>4, <2>2, <2>3, <2>4
<1>7. \A o \in DOMAIN ids : \E v \in ToSet(vertices) : v.id = ids[o] /\ v.row = RowIdIn(held, o)
  BY <1>3, <1>5, <1>6
<1> QED
  BY <1>1, <1>7 DEF RowIdsKnown, held, ids

(* Every lease knows the row ids of its vertices. *)
LEMMA AcquiredRowIds ==
  ASSUME NEW g, IsGraph(g)
  PROVE  RowIdsKnown(LeaseOf(g), g.vertices)
<1> DEFINE first == SubSeq(g.vertices, 1, g.old.vertices)
           prior == SubSeq(g.edges, 1, g.old.edges)
           old == BuildTableSnapshot(first, prior)
           new == BuildTableSnapshot(g.vertices, g.edges)
           caughtUp == ScanCsrDelta(old, g)
           d == CHOOSE d \in caughtUp : TRUE
<1>1. /\ IsTables(g.vertices, g.edges) /\ IsTables(first, prior) /\ g.old.vertices \in 0..Len(g.vertices)
      /\ g.vertices \in Seq(VertexRow)
  BY DEF IsGraph, IsTables
<1>2. LeaseOf(g) = IF caughtUp # {} THEN [snapshot |-> old, delta |-> d] ELSE [snapshot |-> new, delta |-> NoDelta]
  BY DEF LeaseOf
<1>3. SnapshotOf(old, first, prior) /\ RowsKept(old, first) /\ SnapshotOf(new, g.vertices, g.edges) /\ RowsKept(new, g.vertices)
  BY <1>1, SnapshotExact, SnapshotRows
<1>4. ToSet(first) \subseteq ToSet(g.vertices)
  <2>1. DOMAIN first = 1..g.old.vertices /\ DOMAIN g.vertices = 1..Len(g.vertices) /\ Len(g.vertices) \in Nat
        /\ \A k \in 1..g.old.vertices : first[k] = g.vertices[k]
    BY <1>1
  <2>2. \A k \in 1..g.old.vertices : k \in 1..Len(g.vertices)
    BY <1>1, <2>1
  <2> HIDE DEF first
  <2> QED
    BY <2>1, <2>2 DEF ToSet
<1> HIDE DEF old, new, d, first, prior
<1>5. old.size \in Nat /\ new.size \in Nat
  BY <1>3 DEF SnapshotOf
<1>6. caughtUp # {} => RowIdsKnown([snapshot |-> old, delta |-> d], g.vertices)
  <2> SUFFICES ASSUME caughtUp # {} PROVE RowIdsKnown([snapshot |-> old, delta |-> d], g.vertices)
    OBVIOUS
  <2>1. d \in ScanCsrDelta(old, g)
    BY DEF d
  <2>2. AddsRest(old, d, g.vertices, g.old.vertices, g.edges, g.old.edges)
    BY <1>3, <2>1, ScanCsrDeltaExact DEF first, prior
  <2>3. /\ d.ids \in Seq(Nat) /\ Len(d.ids) = Len(g.vertices) - g.old.vertices
        /\ \A j \in 1..(Len(g.vertices) - g.old.vertices) :
              d.ids[j] = g.vertices[g.old.vertices + j].id /\ d.rows[j] = g.vertices[g.old.vertices + j].row
    BY <2>2 DEF AddsRest, Deltas
  <2> QED
    BY <1>1, <1>3, <1>4, <1>5, <2>3, RowIdsFrom
<1>7. RowIdsKnown([snapshot |-> new, delta |-> NoDelta], g.vertices)
  <2> DEFINE all == Len(g.vertices)
  <2>1. all \in 0..Len(g.vertices) /\ Len(g.vertices) - all = 0 /\ 1..(Len(g.vertices) - all) = {}
    BY <1>1
  <2>2. NoDelta.ids \in Seq(Nat) /\ Len(NoDelta.ids) = 0
    BY DEF NoDelta
  <2> HIDE DEF all
  <2> QED
    BY <1>1, <1>3, <1>5, <2>1, <2>2, RowIdsFrom
<1> QED
  BY <1>2, <1>6, <1>7

-----------------------------------------------------------------------------
(* The statistics, and what they say of a pair of a vertex label and an edge label. *)
Ways == {"out", "in"}

(* What is counted of one pair, which pairs there are, and the statistics. *)
Counts == [edges : [Ways -> Nat], vertices : [Ways -> Nat]]

LabelPairs == Nat \X Nat

Stats == {s \in [has : BOOLEAN, pairs : UNION {[P -> Counts] : P \in SUBSET LabelPairs}] : ~s.has => s.pairs = NoPairs}

(* What the statistics say of a pair; one that is missing has none. *)
CountsOf(stats, a, c) == IF <<a, c>> \in DOMAIN stats.pairs THEN stats.pairs[<<a, c>>] ELSE NoCounts

EdgesIn(stats, a, c, way) == CountsOf(stats, a, c).edges[way]

VerticesIn(stats, a, c, way) == CountsOf(stats, a, c).vertices[way]

(* A pair that is missing counts no edge and no vertex. *)
LEMMA NoCountsTyped == NoCounts \in Counts /\ \A way \in Ways : NoCounts.edges[way] = 0 /\ NoCounts.vertices[way] = 0
<1>1. [out |-> 0, in |-> 0] \in [Ways -> Nat] /\ \A way \in Ways : [out |-> 0, in |-> 0][way] = 0
  BY DEF Ways
<1> QED
  BY <1>1 DEF NoCounts, Counts

(* What is counted of a pair has its type, and so has each number. *)
LEMMA CountsTyped ==
  ASSUME NEW stats \in Stats, NEW a, NEW c
  PROVE  CountsOf(stats, a, c) \in Counts
<1>1. PICK P \in SUBSET LabelPairs : stats.pairs \in [P -> Counts]
  BY DEF Stats
<1> QED
  BY <1>1, NoCountsTyped DEF CountsOf

(* Its edges and its vertices are numbers. *)
LEMMA InTyped ==
  ASSUME NEW stats \in Stats, NEW a, NEW c, NEW way \in Ways
  PROVE  EdgesIn(stats, a, c, way) \in Nat /\ VerticesIn(stats, a, c, way) \in Nat
BY CountsTyped DEF Counts, EdgesIn, VerticesIn

(* One vertex more, with so many edges. *)
Counting(counts, degree, way) == [counts EXCEPT !.edges[way] = @ + degree, !.vertices[way] = @ + 1]

(* It is added in its direction, and nothing in the other one. *)
LEMMA CountingExact ==
  ASSUME NEW counts \in Counts, NEW degree \in Nat, NEW way \in Ways
  PROVE  /\ Counting(counts, degree, way) \in Counts
         /\ \A w \in Ways : /\ Counting(counts, degree, way).edges[w] = counts.edges[w] + (IF w = way THEN degree ELSE 0)
                            /\ Counting(counts, degree, way).vertices[w] = counts.vertices[w] + (IF w = way THEN 1 ELSE 0)
<1> DEFINE E == counts.edges
           V == counts.vertices
           F == [E EXCEPT ![way] = @ + degree]
           W == [V EXCEPT ![way] = @ + 1]
<1>1. E \in [Ways -> Nat] /\ V \in [Ways -> Nat]
  BY DEF Counts
<1> DEFINE first == [counts EXCEPT !.edges[way] = @ + degree]
           second == [first EXCEPT !.vertices[way] = @ + 1]
<1>2. Counting(counts, degree, way) = second
  BY DEF Counting
<1>3. first \in [edges : {F}, vertices : [Ways -> Nat]] /\ first.vertices = V
  BY DEF Counts
<1> HIDE DEF first
<1>4. second \in [edges : {F}, vertices : {[first.vertices EXCEPT ![way] = @ + 1]}]
  <2> HIDE DEF F
  <2> QED
    BY <1>3
<1>5. /\ Counting(counts, degree, way).edges = F /\ Counting(counts, degree, way).vertices = W
      /\ Counting(counts, degree, way) \in [edges : {F}, vertices : {W}]
  <2> HIDE DEF second, F
  <2> QED
    BY <1>2, <1>3, <1>4
<1> HIDE DEF E, V
<1>6. F \in [Ways -> Nat] /\ W \in [Ways -> Nat]
  BY <1>1
<1>7. \A w \in Ways : F[w] = E[w] + (IF w = way THEN degree ELSE 0) /\ W[w] = V[w] + (IF w = way THEN 1 ELSE 0)
  BY <1>1
<1> HIDE DEF F, W
<1> QED
  BY <1>1, <1>5, <1>6, <1>7 DEF Counts, E, V

(* The statistics with a degree added for each of these pairs, and one vertex; or none. *)
Adds(new, old, P, degree, way) ==
  /\ new \in Stats
  /\ new.has =>
        /\ old.has
        /\ \A a, c \in Nat, w \in Ways :
              /\ EdgesIn(new, a, c, w)
                     = EdgesIn(old, a, c, w) + (IF <<a, c>> \in P /\ w = way THEN degree[c] ELSE 0)
              /\ VerticesIn(new, a, c, w)
                     = VerticesIn(old, a, c, w) + (IF <<a, c>> \in P /\ w = way THEN 1 ELSE 0)

(* Statistics that are discarded are none, and have no pair. *)
LEMMA DiscardedTyped == \A stats : DiscardFanout(stats) \in Stats /\ ~DiscardFanout(stats).has
<1>1. NoPairs \in [{} -> Counts] /\ {} \in SUBSET LabelPairs
  BY DEF NoPairs
<1> QED
  BY <1>1 DEF DiscardFanout, Stats

(* No pair adds nothing. *)
LEMMA AddsNothing ==
  ASSUME NEW stats \in Stats, NEW degree, NEW way
  PROVE  Adds(stats, stats, {}, degree, way)
<1>1. \A a, c \in Nat, w \in Ways : EdgesIn(stats, a, c, w) \in Nat /\ VerticesIn(stats, a, c, w) \in Nat
  BY InTyped
<1> QED
  BY <1>1 DEF Adds

(* Adding some pairs and then others adds them all. *)
LEMMA AddsMore ==
  ASSUME NEW x \in Stats, NEW y, NEW z, NEW P, NEW Q, NEW degree \in [Nat -> Nat], NEW way \in Ways,
         Adds(y, x, P, degree, way), Adds(z, y, Q, degree, way), P \cap Q = {}
  PROVE  Adds(z, x, P \cup Q, degree, way)
<1> SUFFICES ASSUME z.has PROVE x.has /\ \A a, c \in Nat, w \in Ways :
              /\ EdgesIn(z, a, c, w)
                     = EdgesIn(x, a, c, w) + (IF <<a, c>> \in P \cup Q /\ w = way THEN degree[c] ELSE 0)
              /\ VerticesIn(z, a, c, w)
                     = VerticesIn(x, a, c, w) + (IF <<a, c>> \in P \cup Q /\ w = way THEN 1 ELSE 0)
  BY DEF Adds
<1>1. y.has /\ x.has
  BY DEF Adds
<1>2. ASSUME NEW a \in Nat, NEW c \in Nat, NEW w \in Ways
      PROVE /\ EdgesIn(z, a, c, w)
                     = EdgesIn(x, a, c, w) + (IF <<a, c>> \in P \cup Q /\ w = way THEN degree[c] ELSE 0)
            /\ VerticesIn(z, a, c, w)
                     = VerticesIn(x, a, c, w) + (IF <<a, c>> \in P \cup Q /\ w = way THEN 1 ELSE 0)
  <2> DEFINE pair == <<a, c>>
  <2>1. /\ EdgesIn(z, a, c, w) = EdgesIn(y, a, c, w) + (IF pair \in Q /\ w = way THEN degree[c] ELSE 0)
        /\ VerticesIn(z, a, c, w) = VerticesIn(y, a, c, w) + (IF pair \in Q /\ w = way THEN 1 ELSE 0)
    BY DEF Adds
  <2>2. /\ EdgesIn(y, a, c, w) = EdgesIn(x, a, c, w) + (IF pair \in P /\ w = way THEN degree[c] ELSE 0)
        /\ VerticesIn(y, a, c, w) = VerticesIn(x, a, c, w) + (IF pair \in P /\ w = way THEN 1 ELSE 0)
    BY <1>1 DEF Adds
  <2>3. EdgesIn(x, a, c, w) \in Nat /\ VerticesIn(x, a, c, w) \in Nat /\ degree[c] \in Nat
    BY InTyped
  <2> HIDE DEF pair
  <2>4. ~(pair \in P /\ pair \in Q)
    OBVIOUS
  <2>5. /\ EdgesIn(z, a, c, w) = EdgesIn(x, a, c, w) + (IF pair \in P \cup Q /\ w = way THEN degree[c] ELSE 0)
        /\ VerticesIn(z, a, c, w) = VerticesIn(x, a, c, w) + (IF pair \in P \cup Q /\ w = way THEN 1 ELSE 0)
    BY <2>1, <2>2, <2>3, <2>4
  <2> QED
    BY <2>5 DEF pair
<1> QED
  BY <1>1, <1>2

(* CountPair adds its pair, or discards the statistics when their map is full. *)
LEMMA CountPairExact ==
  ASSUME NEW stats \in Stats, NEW a \in Nat, NEW c \in Nat, NEW degree \in [Nat -> Nat], NEW way \in Ways
  PROVE  Adds(CountPair(stats, <<a, c>>, degree[c], way), stats, {<<a, c>>}, degree, way)
<1> DEFINE pair == <<a, c>>
           new == CountPair(stats, pair, degree[c], way)
           counts == CountsOf(stats, a, c)
           more == [p \in DOMAIN stats.pairs \cup {pair} |->
                        IF p = pair THEN Counting(counts, degree[c], way) ELSE stats.pairs[p]]
<1>1. CASE ~stats.has
  <2>1. new = stats
    BY <1>1 DEF CountPair
  <2> QED
    BY <1>1, <2>1 DEF Adds
<1>2. CASE stats.has /\ pair \notin DOMAIN stats.pairs /\ Cardinality(DOMAIN stats.pairs) >= FanoutPairs
  <2>1. new = DiscardFanout(stats)
    BY <1>2 DEF CountPair
  <2> QED
    BY <2>1, DiscardedTyped DEF Adds
<1>3. CASE stats.has /\ ~(pair \notin DOMAIN stats.pairs /\ Cardinality(DOMAIN stats.pairs) >= FanoutPairs)
  <2>1. new = [stats EXCEPT !.pairs = more]
    BY <1>3, Zenon DEF CountPair, Counting, CountsOf
  <2>2. PICK P \in SUBSET LabelPairs : stats.pairs \in [P -> Counts]
    BY DEF Stats
  <2>3. counts \in Counts /\ pair \in LabelPairs /\ degree[c] \in Nat
    BY CountsTyped DEF LabelPairs
  <2>4. Counting(counts, degree[c], way) \in Counts
    BY <2>3, CountingExact
  <2>5. more = [p \in P \cup {pair} |-> IF p = pair THEN Counting(counts, degree[c], way) ELSE stats.pairs[p]]
    <3> HIDE DEF counts, pair
    <3> QED
      BY <2>2 
  <2>6. more \in [P \cup {pair} -> Counts] /\ P \cup {pair} \in SUBSET LabelPairs
    <3> HIDE DEF counts, pair, more
    <3> QED
      BY <2>2, <2>3, <2>4, <2>5
  <2>7. new.has /\ new.pairs = more /\ new = [has |-> TRUE, pairs |-> more]
    <3>1. stats.has /\ stats \in [has : BOOLEAN, pairs : UNION {[S -> Counts] : S \in SUBSET LabelPairs}]
      BY <1>3 DEF Stats
    <3> HIDE DEF more, new
    <3> QED
      BY <2>1, <3>1
  <2>8. new \in Stats
    <3> HIDE DEF more, new, pair
    <3> QED
      BY <2>6, <2>7 DEF Stats
  <2>9. ASSUME NEW b \in Nat, NEW d \in Nat
        PROVE  CountsOf(new, b, d) = IF <<b, d>> = pair THEN Counting(counts, degree[c], way) ELSE CountsOf(stats, b, d)
    <3> DEFINE other == <<b, d>>
    <3>1. CASE other = pair
      <4> HIDE DEF more, new, pair, counts
      <4> QED
        BY <2>5, <2>6, <2>7, <3>1 DEF CountsOf
    <3>2. CASE other # pair
      <4>1. other \in DOMAIN new.pairs <=> other \in DOMAIN stats.pairs
        <5> HIDE DEF more, new, pair, counts, other
        <5> QED
          BY <2>2, <2>6, <2>7, <3>2
      <4>2. other \in DOMAIN stats.pairs => new.pairs[other] = stats.pairs[other]
        <5> HIDE DEF more, new, pair, counts, other
        <5> QED
          BY <2>2, <2>5, <2>7, <3>2
      <4> HIDE DEF more, new, pair, counts
      <4> QED
        BY <3>2, <4>1, <4>2 DEF CountsOf
    <3> QED
      BY <3>1, <3>2
  <2> HIDE DEF new, more
  <2>10. ASSUME NEW b \in Nat, NEW d \in Nat, NEW w \in Ways
         PROVE  /\ EdgesIn(new, b, d, w)
                     = EdgesIn(stats, b, d, w) + (IF <<b, d>> \in {pair} /\ w = way THEN degree[d] ELSE 0)
                /\ VerticesIn(new, b, d, w)
                     = VerticesIn(stats, b, d, w) + (IF <<b, d>> \in {pair} /\ w = way THEN 1 ELSE 0)
    <3>1. CASE <<b, d>> = pair
      <4>1. b = a /\ d = c
        BY <3>1
      <4>2. CountsOf(new, b, d) = Counting(counts, degree[c], way) /\ CountsOf(stats, b, d) = counts
        BY <2>9, <3>1, <4>1
      <4>3. /\ Counting(counts, degree[c], way).edges[w] = counts.edges[w] + (IF w = way THEN degree[c] ELSE 0)
            /\ Counting(counts, degree[c], way).vertices[w] = counts.vertices[w] + (IF w = way THEN 1 ELSE 0)
        <5> DEFINE n == degree[c]
                   counted == Counting(counts, n, way)
        <5>1. counts \in Counts /\ n \in Nat
          BY <2>3
        <5> HIDE DEF counts, n
        <5>2. \A v \in Ways : /\ counted.edges[v] = counts.edges[v] + (IF v = way THEN n ELSE 0)
                             /\ counted.vertices[v] = counts.vertices[v] + (IF v = way THEN 1 ELSE 0)
          BY <5>1, CountingExact, Zenon
        <5> HIDE DEF counted
        <5>3. /\ counted.edges[w] = counts.edges[w] + (IF w = way THEN n ELSE 0)
              /\ counted.vertices[w] = counts.vertices[w] + (IF w = way THEN 1 ELSE 0)
          BY <5>2
        <5> QED
          BY <5>3, Zenon DEF counted, n
      <4> HIDE DEF counts, pair
      <4> QED
        BY <3>1, <4>1, <4>2, <4>3 DEF EdgesIn, VerticesIn
    <3>2. CASE <<b, d>> # pair
      <4>1. CountsOf(new, b, d) = CountsOf(stats, b, d)
        BY <2>9, <3>2
      <4>2. EdgesIn(stats, b, d, w) \in Nat /\ VerticesIn(stats, b, d, w) \in Nat
        BY InTyped
      <4> HIDE DEF counts, pair
      <4> QED
        BY <3>2, <4>1, <4>2 DEF EdgesIn, VerticesIn
    <3> QED
      BY <3>1, <3>2
  <2>11. Adds(new, stats, {pair}, degree, way)
    BY <1>3, <2>8, <2>10 DEF Adds
  <2> QED
    BY <2>11 DEF new
<1> QED
  BY <1>1, <1>2, <1>3

(* Ids, each once. *)
Once(ids) == ids \in Seq(Nat) /\ \A i, j \in 1..Len(ids) : ids[i] = ids[j] => i = j

(* A list without repetitions is a list of numbers. *)
LEMMA OnceTyped ==
  ASSUME NEW ids, Once(ids)
  PROVE  Len(ids) \in Nat /\ DOMAIN ids = 1..Len(ids) /\ \A k \in 1..Len(ids) : ids[k] \in Nat
<1>1. ids \in Seq(Nat)
  BY DEF Once
<1> QED
  BY <1>1

(* The pairs of one more first element. *)
LEMMA PairsWith ==
  ASSUME NEW X, NEW x, NEW l
  PROVE  /\ (X \cup {x}) \X {l} = (X \X {l}) \cup {<<x, l>>}
         /\ x \notin X => (X \X {l}) \cap {<<x, l>>} = {}
OBVIOUS

(* One edge label under each label of a vertex. *)
CountLabels(stats, vertexLabels, label, degree, way) ==
    FoldLeft(LAMBDA inner, vertexLabel : CountPair(inner, <<vertexLabel, label>>, degree, way), stats, vertexLabels)

(* The loop over the labels of a vertex adds each of them, with this edge label. *)
LEMMA CountLabelsExact ==
  ASSUME NEW stats \in Stats, NEW vertexLabels, Once(vertexLabels),
         NEW label \in Nat, NEW degree \in [Nat -> Nat], NEW way \in Ways
  PROVE  Adds(CountLabels(stats, vertexLabels, label, degree[label], way), stats,
              ToSet(vertexLabels) \X {label}, degree, way)
<1> DEFINE n == Len(vertexLabels)
           T == Stats
           base == stats
           Put(s, k) == CountPair(s, <<vertexLabels[k], label>>, degree[label], way)
           step == [k \in 1..n |-> [s \in T |-> Put(s, k)]]
           F(it) == it = [S \in SUBSET (DOMAIN vertexLabels) |->
                            IF S = {} THEN base ELSE Put(it[S \ {Max(S)}], Max(S))]
           it == CHOOSE it : F(it)
           First(k) == {vertexLabels[i] : i \in 1..k}
           Counted(k) == First(k) \X {label}
<1>1. n \in Nat /\ DOMAIN vertexLabels = 1..n /\ \A k \in 1..n : vertexLabels[k] \in Nat
  BY OnceTyped
<1>0. n \in Nat
  BY <1>1
<1>2. CountLabels(stats, vertexLabels, label, degree[label], way) = it[DOMAIN vertexLabels]
  BY DEF CountLabels, FoldLeft, MapThenFoldSet
<1>3. ASSUME NEW s \in T, NEW k \in 1..n
      PROVE  Adds(Put(s, k), s, {<<vertexLabels[k], label>>}, degree, way)
  BY <1>1, CountPairExact
<1>4. base \in T
  OBVIOUS
<1>5. \A s \in T, k \in 1..n : Put(s, k) \in T
  <2> HIDE DEF Put
  <2> QED
    BY <1>3 DEF Adds
<1> HIDE DEF n
<1>6. step \in [1..n -> [T -> T]]
  <2> HIDE DEF T, Put
  <2> QED
    BY <1>1, <1>5
<1>7. PICK fold : IsFold(fold, n, T, base, step)
  <2> HIDE DEF T, base, step
  <2> QED
    BY <1>0, <1>4, <1>6, FoldRuns
<1>8. \A S \in SUBSET (1..n) : S # {} => Max(S) \in 1..n /\ S \ {Max(S)} \in SUBSET (1..n)
  BY <1>0, MaxOf
<1>9. /\ fold \in [SUBSET (1..n) -> T]
      /\ \A S \in SUBSET (1..n) :
            fold[S] = IF S = {} THEN base ELSE step[Max(S)][fold[S \ {Max(S)}]]
  <2> HIDE DEF T, base, step
  <2> QED
    BY <1>7 DEF IsFold
<1>10. \A S \in SUBSET (1..n) :
         fold[S] = IF S = {} THEN base ELSE Put(fold[S \ {Max(S)}], Max(S))
  <2> SUFFICES ASSUME NEW S \in SUBSET (1..n), S # {}
               PROVE  step[Max(S)][fold[S \ {Max(S)}]] = Put(fold[S \ {Max(S)}], Max(S))
    <3> HIDE DEF T, base, step, Put
    <3> QED
      BY <1>9
  <2>1. Max(S) \in 1..n /\ fold[S \ {Max(S)}] \in T
    <3> HIDE DEF T, base, step
    <3> QED
      BY <1>8, <1>9
  <2> HIDE DEF T, base, Put
  <2> QED
    BY <2>1, <1>1
<1>11. F(fold)
  <2> HIDE DEF T, base, step, Put
  <2> QED
    BY <1>9, <1>10, <1>1
<1>12. F(it)
  <2> HIDE DEF base, Put
  <2> QED
    BY <1>11, Zenon
<1>13. \A S \in SUBSET (1..n) : it[S] = IF S = {} THEN base ELSE Put(it[S \ {Max(S)}], Max(S))
  <2> HIDE DEF base, Put, it
  <2> QED
    BY <1>12, <1>1
<1>14. PICK run : IsRun(run, n, T, base, step) /\ run[n] = it[1..n]
  <2>1. it[{}] = base
    <3> HIDE DEF base, Put, it
    <3> QED
      BY <1>13
  <2>2. ASSUME NEW S \in SUBSET (1..n), S # {}, it[S \ {Max(S)}] \in T
        PROVE  it[S] = step[Max(S)][it[S \ {Max(S)}]]
    <3>1. it[S] = Put(it[S \ {Max(S)}], Max(S)) /\ Max(S) \in 1..n
      <4> HIDE DEF base, Put, it
      <4> QED
        BY <1>8, <1>13, <2>2
    <3> HIDE DEF T, Put, it
    <3> QED
      BY <3>1, <2>2, <1>1
  <2> HIDE DEF T, base, step, it
  <2>3. IsChain(it, n, T, base, step)
    BY <2>1, <2>2 DEF IsChain
  <2>4. IsFolding(it, n, T, base, step)
    BY <2>3, <1>6, <1>0, <1>4 DEF IsFolding
  <2>5. HasRun(it, n, T, base, step)
    BY <2>4, FoldingRuns
  <2> QED
    BY <2>5 DEF HasRun
<1>15. run \in [0..n -> T] /\ run[0] = base /\ \A k \in 1..n : run[k] = Put(run[k - 1], k)
  <2>1. run \in [0..n -> T] /\ run[0] = base /\ \A k \in 1..n : run[k] = step[k][run[k - 1]]
    <3> HIDE DEF T, base, step
    <3> QED
      BY <1>14 DEF IsRun
  <2>2. \A k \in 1..n : run[k - 1] \in T
    <3>1. \A k \in 1..n : k - 1 \in 0..n
      BY <1>0
    <3> HIDE DEF T, base, step
    <3> QED
      BY <2>1, <3>1
  <2> HIDE DEF T, base, Put
  <2> QED
    BY <2>1, <2>2
<1>16. CountLabels(stats, vertexLabels, label, degree[label], way) = run[n]
  <2> HIDE DEF it
  <2> QED
    BY <1>1, <1>2, <1>14
<1> HIDE DEF it, F, step
<1> DEFINE Holds == {k \in 0..n : Adds(run[k], stats, Counted(k), degree, way)}
<1>17. 0 \in Holds
  <2>1. Counted(0) = {}
    OBVIOUS
  <2>2. Adds(stats, stats, {}, degree, way)
    BY AddsNothing
  <2>3. run[0] = stats /\ 0 \in 0..n
    BY <1>0, <1>15
  <2> HIDE DEF T, Put, Counted
  <2> QED
    BY <2>1, <2>2, <2>3
<1>18. ASSUME NEW k \in 0..(n - 1), k \in Holds PROVE k + 1 \in Holds
  <2> DEFINE m == k + 1
  <2>1. m \in 1..n /\ m \in 0..n /\ m - 1 = k /\ k \in 0..n
    BY <1>1
  <2>2. run[m] = Put(run[k], m) /\ run[k] \in T
    <3> HIDE DEF T, Put, base, m
    <3> QED
      BY <1>15, <2>1
  <2>3. Adds(run[m], run[k], {<<vertexLabels[m], label>>}, degree, way)
    <3> HIDE DEF T, Put, m
    <3> QED
      BY <1>3, <2>1, <2>2
  <2>4. Adds(run[k], stats, Counted(k), degree, way)
    BY <1>18
  <2>5. (\A j \in 1..m : j = m \/ j \in 1..k) /\ m \in 1..m
    BY <2>1
  <2>6. \A j \in 1..k : j \in 1..m /\ j \in 1..n /\ j # m
    BY <1>1, <2>1
  <2>7. vertexLabels[m] \notin First(k)
    <3>1. \A j \in 1..n : vertexLabels[j] = vertexLabels[m] => j = m
      BY <2>1 DEF n, Once
    <3> HIDE DEF m
    <3> QED
      BY <2>6, <3>1
  <2>8. First(m) = First(k) \cup {vertexLabels[m]}
    <3> HIDE DEF m
    <3> QED
      BY <2>5, <2>6
  <2> HIDE DEF m, First
  <2>9. Counted(m) = Counted(k) \cup {<<vertexLabels[m], label>>} /\ Counted(k) \cap {<<vertexLabels[m], label>>} = {}
    BY <2>7, <2>8, PairsWith
  <2>10. Adds(run[m], stats, Counted(m), degree, way)
    <3> HIDE DEF Counted, T, Put
    <3> QED
      BY ONLY <2>3, <2>4, <2>9, AddsMore, stats \in Stats, degree \in [Nat -> Nat], way \in Ways
  <2> HIDE DEF Counted
  <2> QED
    BY <2>1, <2>10 DEF m
<1>19. 0..n \subseteq Holds
  <2> HIDE DEF Holds
  <2> QED
    BY <1>1, <1>17, <1>18, NumberSteps
<1>20. Adds(run[n], stats, Counted(n), degree, way)
  <2>1. n \in 0..n
    BY <1>0
  <2> HIDE DEF Counted, T, Put
  <2> QED
    BY <1>19, <2>1
<1>21. Counted(n) = ToSet(vertexLabels) \X {label}
  BY <1>1 DEF ToSet
<1> HIDE DEF Counted
<1> QED
  BY <1>16, <1>20, <1>21

(* The labels of the edges of a vertex, each once. *)
Touched(edgeLabels) == FoldLeft(AppendNew, <<>>, edgeLabels)

(* AppendNew adds a number that is not there yet, and keeps each once. *)
LEMMA AppendNewExact ==
  ASSUME NEW ids, Once(ids), NEW id \in Nat
  PROVE  Once(AppendNew(ids, id)) /\ ToSet(AppendNew(ids, id)) = ToSet(ids) \cup {id}
<1> DEFINE n == Len(ids)
           new == Append(ids, id)
<1>1. ids \in Seq(Nat) /\ n \in Nat /\ DOMAIN ids = 1..n /\ \A i, j \in 1..n : ids[i] = ids[j] => i = j
  BY DEF Once
<1>2. CASE Contains(ids, id)
  <2>1. AppendNew(ids, id) = ids /\ id \in ToSet(ids)
    BY <1>1, <1>2 DEF AppendNew, Contains, ToSet
  <2> QED
    BY <2>1
<1>3. CASE ~Contains(ids, id)
  <2>1. AppendNew(ids, id) = new /\ \A i \in 1..n : ids[i] # id
    BY <1>3 DEF AppendNew, Contains
  <2>2. new \in Seq(Nat) /\ Len(new) = n + 1 /\ DOMAIN new = 1..(n + 1) /\ new[n + 1] = id /\ \A i \in 1..n : new[i] = ids[i]
    BY <1>1
  <2>3. \A i \in 1..(n + 1) : i = n + 1 \/ i \in 1..n
    BY <1>1
  <2>4. n + 1 \in 1..(n + 1) /\ 1..n \subseteq 1..(n + 1)
    BY <1>1
  <2> HIDE DEF new, n
  <2>5. Once(new)
    <3>1. ASSUME NEW i \in 1..(n + 1), NEW j \in 1..(n + 1), new[i] = new[j] PROVE i = j
      BY <1>1, <2>1, <2>2, <2>3, <3>1
    <3> QED
      BY <2>2, <3>1 DEF Once
  <2>6. ToSet(new) = ToSet(ids) \cup {id}
    BY <1>1, <2>2, <2>3, <2>4 DEF ToSet
  <2> QED
    BY <2>1, <2>5, <2>6
<1> QED
  BY <1>2, <1>3

(* The labels touched at a vertex are those of its edges, each once. *)
LEMMA TouchedExact ==
  ASSUME NEW labels \in Seq(Nat)
  PROVE  Once(Touched(labels)) /\ ToSet(Touched(labels)) = ToSet(labels)
<1> DEFINE n == Len(labels)
           T == {ids \in Seq(Nat) : Once(ids)}
           base == <<>>
           Put(ids, k) == AppendNew(ids, labels[k])
           step == [k \in 1..n |-> [ids \in T |-> Put(ids, k)]]
           F(it) == it = [S \in SUBSET (DOMAIN labels) |->
                            IF S = {} THEN base ELSE Put(it[S \ {Max(S)}], Max(S))]
           it == CHOOSE it : F(it)
<1>0. n \in Nat
  OBVIOUS
<1>1. n \in Nat /\ DOMAIN labels = 1..n /\ \A k \in 1..n : labels[k] \in Nat
  OBVIOUS
<1>2. Touched(labels) = it[DOMAIN labels]
  BY DEF Touched, FoldLeft, MapThenFoldSet
<1>3. ASSUME NEW ids \in T, NEW k \in 1..n
      PROVE  Once(Put(ids, k)) /\ ToSet(Put(ids, k)) = ToSet(ids) \cup {labels[k]}
  BY <1>1, AppendNewExact
<1>4. base \in T
  BY DEF Once
<1>5. \A ids \in T, k \in 1..n : Put(ids, k) \in T
  <2> HIDE DEF Put
  <2> QED
    BY <1>3 DEF Once
<1> HIDE DEF n
<1>6. step \in [1..n -> [T -> T]]
  <2> HIDE DEF T, Put
  <2> QED
    BY <1>1, <1>5
<1>7. PICK fold : IsFold(fold, n, T, base, step)
  <2> HIDE DEF T, base, step
  <2> QED
    BY <1>0, <1>4, <1>6, FoldRuns
<1>8. \A S \in SUBSET (1..n) : S # {} => Max(S) \in 1..n /\ S \ {Max(S)} \in SUBSET (1..n)
  BY <1>0, MaxOf
<1>9. /\ fold \in [SUBSET (1..n) -> T]
      /\ \A S \in SUBSET (1..n) :
            fold[S] = IF S = {} THEN base ELSE step[Max(S)][fold[S \ {Max(S)}]]
  <2> HIDE DEF T, base, step
  <2> QED
    BY <1>7 DEF IsFold
<1>10. \A S \in SUBSET (1..n) :
         fold[S] = IF S = {} THEN base ELSE Put(fold[S \ {Max(S)}], Max(S))
  <2> SUFFICES ASSUME NEW S \in SUBSET (1..n), S # {}
               PROVE  step[Max(S)][fold[S \ {Max(S)}]] = Put(fold[S \ {Max(S)}], Max(S))
    <3> HIDE DEF T, base, step, Put
    <3> QED
      BY <1>9
  <2>1. Max(S) \in 1..n /\ fold[S \ {Max(S)}] \in T
    <3> HIDE DEF T, base, step
    <3> QED
      BY <1>8, <1>9
  <2> HIDE DEF T, base, Put
  <2> QED
    BY <2>1, <1>1
<1>11. F(fold)
  <2> HIDE DEF T, base, step, Put
  <2> QED
    BY <1>9, <1>10, <1>1
<1>12. F(it)
  <2> HIDE DEF base, Put
  <2> QED
    BY <1>11, Zenon
<1>13. \A S \in SUBSET (1..n) : it[S] = IF S = {} THEN base ELSE Put(it[S \ {Max(S)}], Max(S))
  <2> HIDE DEF base, Put, it
  <2> QED
    BY <1>12, <1>1
<1>14. PICK run : IsRun(run, n, T, base, step) /\ run[n] = it[1..n]
  <2>1. it[{}] = base
    <3> HIDE DEF base, Put, it
    <3> QED
      BY <1>13
  <2>2. ASSUME NEW S \in SUBSET (1..n), S # {}, it[S \ {Max(S)}] \in T
        PROVE  it[S] = step[Max(S)][it[S \ {Max(S)}]]
    <3>1. it[S] = Put(it[S \ {Max(S)}], Max(S)) /\ Max(S) \in 1..n
      <4> HIDE DEF base, Put, it
      <4> QED
        BY <1>8, <1>13, <2>2
    <3> HIDE DEF T, Put, it
    <3> QED
      BY <3>1, <2>2, <1>1
  <2> HIDE DEF T, base, step, it
  <2>3. IsChain(it, n, T, base, step)
    BY <2>1, <2>2 DEF IsChain
  <2>4. IsFolding(it, n, T, base, step)
    BY <2>3, <1>6, <1>0, <1>4 DEF IsFolding
  <2>5. HasRun(it, n, T, base, step)
    BY <2>4, FoldingRuns
  <2> QED
    BY <2>5 DEF HasRun
<1>15. run \in [0..n -> T] /\ run[0] = base /\ \A k \in 1..n : run[k] = Put(run[k - 1], k)
  <2>1. run \in [0..n -> T] /\ run[0] = base /\ \A k \in 1..n : run[k] = step[k][run[k - 1]]
    <3> HIDE DEF T, base, step
    <3> QED
      BY <1>14 DEF IsRun
  <2>2. \A k \in 1..n : run[k - 1] \in T
    <3>1. \A k \in 1..n : k - 1 \in 0..n
      BY <1>0
    <3> HIDE DEF T, base, step
    <3> QED
      BY <2>1, <3>1
  <2> HIDE DEF T, base, Put
  <2> QED
    BY <2>1, <2>2
<1>16. Touched(labels) = run[n]
  <2> HIDE DEF it
  <2> QED
    BY <1>1, <1>2, <1>14
<1> HIDE DEF it, F, step
<1> DEFINE Holds == {k \in 0..n : ToSet(run[k]) = {labels[i] : i \in 1..k}}
<1>17. 0 \in Holds
  <2>1. ToSet(<<>>) = {} /\ 1..0 = {}
    BY DEF ToSet
  <2> HIDE DEF T, Put
  <2> QED
    BY <1>1, <1>15, <2>1
<1>18. ASSUME NEW k \in 0..(n - 1), k \in Holds PROVE k + 1 \in Holds
  <2> DEFINE m == k + 1
  <2>1. m \in 1..n /\ m \in 0..n /\ m - 1 = k /\ k \in 0..n
    BY <1>1
  <2>2. run[m] = Put(run[k], m) /\ run[k] \in T
    <3> HIDE DEF T, Put, base, m
    <3> QED
      BY <1>15, <2>1
  <2>3. ToSet(run[m]) = ToSet(run[k]) \cup {labels[m]}
    <3> HIDE DEF T, Put, m
    <3> QED
      BY <1>3, <2>1, <2>2
  <2>4. ToSet(run[k]) = {labels[i] : i \in 1..k}
    BY <1>18
  <2>5. (\A j \in 1..m : j = m \/ j \in 1..k) /\ (\A j \in 1..k : j \in 1..m) /\ m \in 1..m
    BY <2>1
  <2> HIDE DEF m, T, Put
  <2>6. ToSet(run[m]) = {labels[i] : i \in 1..m}
    BY <2>3, <2>4, <2>5
  <2> QED
    BY <2>1, <2>6 DEF m
<1>19. 0..n \subseteq Holds
  <2> HIDE DEF Holds
  <2> QED
    BY <1>1, <1>17, <1>18, NumberSteps
<1>20. ToSet(run[n]) = {labels[i] : i \in 1..n} /\ run[n] \in T
  <2>1. n \in 0..n
    BY <1>0
  <2>2. n \in Holds
    BY <1>19, <2>1
  <2> HIDE DEF T, Put
  <2> QED
    BY <1>15, <2>1, <2>2
<1>21. {labels[i] : i \in 1..n} = ToSet(labels)
  BY <1>1 DEF ToSet
<1> QED
  BY <1>16, <1>20, <1>21

(* How many edges of each label there are. *)
DegreeOf(edgeLabels) == [label \in Nat |-> Cardinality({k \in DOMAIN edgeLabels : edgeLabels[k] = label})]

(* They are finitely many. *)
LEMMA DegreeTyped ==
  ASSUME NEW edgeLabels \in Seq(Nat)
  PROVE  DegreeOf(edgeLabels) \in [Nat -> Nat]
<1>1. Len(edgeLabels) \in Nat /\ DOMAIN edgeLabels = 1..Len(edgeLabels)
  OBVIOUS
<1>2. ASSUME NEW label \in Nat PROVE Cardinality({k \in DOMAIN edgeLabels : edgeLabels[k] = label}) \in Nat
  <2> DEFINE S == {k \in DOMAIN edgeLabels : edgeLabels[k] = label}
  <2>1. S \subseteq 1..Len(edgeLabels)
    BY <1>1
  <2> HIDE DEF S
  <2>2. Cardinality(S) \in 0..Len(edgeLabels)
    BY <1>1, <2>1, CountIn
  <2>3. Cardinality(S) \in Nat
    BY <1>1, <2>2
  <2> QED
    BY <2>3 DEF S
<1> QED
  BY <1>2 DEF DegreeOf

(* The pairs of one more second element. *)
LEMMA PairsUnder ==
  ASSUME NEW X, NEW Y, NEW l
  PROVE  /\ X \X (Y \cup {l}) = (X \X Y) \cup (X \X {l})
         /\ l \notin Y => (X \X Y) \cap (X \X {l}) = {}
OBVIOUS

(* The edges of one vertex. *)
LEMMA CountVertexExact ==
  ASSUME NEW stats \in Stats, NEW vertexLabels, Once(vertexLabels), NEW edgeLabels \in Seq(Nat), NEW way \in Ways
  PROVE  Adds(CountVertex(stats, vertexLabels, edgeLabels, way), stats,
              ToSet(vertexLabels) \X ToSet(edgeLabels), DegreeOf(edgeLabels), way)
<1> DEFINE touched == Touched(edgeLabels)
           n == Len(touched)
           degree == DegreeOf(edgeLabels)
           T == Stats
           base == stats
           Put(s, k) == IF s.has /\ Len(vertexLabels) > FanoutLabels THEN DiscardFanout(s)
                        ELSE CountLabels(s, vertexLabels, touched[k],
                                         Cardinality({j \in DOMAIN edgeLabels : edgeLabels[j] = touched[k]}), way)
           step == [k \in 1..n |-> [s \in T |-> Put(s, k)]]
           F(it) == it = [S \in SUBSET (DOMAIN touched) |->
                            IF S = {} THEN base ELSE Put(it[S \ {Max(S)}], Max(S))]
           it == CHOOSE it : F(it)
           First(k) == {touched[i] : i \in 1..k}
           Counted(k) == ToSet(vertexLabels) \X First(k)
<1>2. CountVertex(stats, vertexLabels, edgeLabels, way) = it[DOMAIN touched]
  BY Zenon DEF CountVertex, CountLabels, Touched, FoldLeft, MapThenFoldSet
<1>21. Once(touched) /\ ToSet(touched) = ToSet(edgeLabels)
  BY TouchedExact
<1>22. degree \in [Nat -> Nat]
  BY DegreeTyped
<1>23. \A label \in Nat : degree[label] = Cardinality({k \in DOMAIN edgeLabels : edgeLabels[k] = label})
  BY DEF DegreeOf
<1> HIDE DEF touched, degree
<1>1. n \in Nat /\ DOMAIN touched = 1..n /\ \A k \in 1..n : touched[k] \in Nat
  BY <1>21, OnceTyped
<1>0. n \in Nat
  BY <1>1
<1>3. ASSUME NEW s \in T, NEW k \in 1..n
      PROVE  Adds(Put(s, k), s, ToSet(vertexLabels) \X {touched[k]}, degree, way)
  <2>1. CASE s.has /\ Len(vertexLabels) > FanoutLabels
    <3>1. Put(s, k) = DiscardFanout(s)
      BY <2>1
    <3> HIDE DEF Put
    <3> QED
      BY <3>1, DiscardedTyped DEF Adds
  <2>2. CASE ~(s.has /\ Len(vertexLabels) > FanoutLabels)
    <3>1. touched[k] \in Nat
      BY <1>1
    <3>2. Put(s, k) = CountLabels(s, vertexLabels, touched[k], degree[touched[k]], way)
      BY <1>23, <2>2, <3>1
    <3> HIDE DEF Put
    <3>3. Adds(CountLabels(s, vertexLabels, touched[k], degree[touched[k]], way), s,
               ToSet(vertexLabels) \X {touched[k]}, degree, way)
      BY ONLY <1>22, <3>1, CountLabelsExact, s \in T, Once(vertexLabels), way \in Ways, Zenon DEF T
    <3> QED
      BY <3>2, <3>3
  <2> QED
    BY <2>1, <2>2
<1>4. base \in T
  OBVIOUS
<1>5. \A s \in T, k \in 1..n : Put(s, k) \in T
  <2> HIDE DEF Put
  <2> QED
    BY <1>3 DEF Adds
<1> HIDE DEF n
<1>6. step \in [1..n -> [T -> T]]
  <2> HIDE DEF T, Put
  <2> QED
    BY <1>1, <1>5
<1>7. PICK fold : IsFold(fold, n, T, base, step)
  <2> HIDE DEF T, base, step
  <2> QED
    BY <1>0, <1>4, <1>6, FoldRuns
<1>8. \A S \in SUBSET (1..n) : S # {} => Max(S) \in 1..n /\ S \ {Max(S)} \in SUBSET (1..n)
  BY <1>0, MaxOf
<1>9. /\ fold \in [SUBSET (1..n) -> T]
      /\ \A S \in SUBSET (1..n) :
            fold[S] = IF S = {} THEN base ELSE step[Max(S)][fold[S \ {Max(S)}]]
  <2> HIDE DEF T, base, step
  <2> QED
    BY <1>7 DEF IsFold
<1>10. \A S \in SUBSET (1..n) :
         fold[S] = IF S = {} THEN base ELSE Put(fold[S \ {Max(S)}], Max(S))
  <2> SUFFICES ASSUME NEW S \in SUBSET (1..n), S # {}
               PROVE  step[Max(S)][fold[S \ {Max(S)}]] = Put(fold[S \ {Max(S)}], Max(S))
    <3> HIDE DEF T, base, step, Put
    <3> QED
      BY <1>9
  <2>1. Max(S) \in 1..n /\ fold[S \ {Max(S)}] \in T
    <3> HIDE DEF T, base, step
    <3> QED
      BY <1>8, <1>9
  <2> HIDE DEF T, base, Put
  <2> QED
    BY <2>1, <1>1
<1>11. F(fold)
  <2> HIDE DEF T, base, step, Put
  <2> QED
    BY <1>9, <1>10, <1>1
<1>12. F(it)
  <2> HIDE DEF base, Put
  <2> QED
    BY <1>11, Zenon
<1>13. \A S \in SUBSET (1..n) : it[S] = IF S = {} THEN base ELSE Put(it[S \ {Max(S)}], Max(S))
  <2> HIDE DEF base, Put, it
  <2> QED
    BY <1>12, <1>1
<1>14. PICK run : IsRun(run, n, T, base, step) /\ run[n] = it[1..n]
  <2>1. it[{}] = base
    <3> HIDE DEF base, Put, it
    <3> QED
      BY <1>13
  <2>2. ASSUME NEW S \in SUBSET (1..n), S # {}, it[S \ {Max(S)}] \in T
        PROVE  it[S] = step[Max(S)][it[S \ {Max(S)}]]
    <3>1. it[S] = Put(it[S \ {Max(S)}], Max(S)) /\ Max(S) \in 1..n
      <4> HIDE DEF base, Put, it
      <4> QED
        BY <1>8, <1>13, <2>2
    <3> HIDE DEF T, Put, it
    <3> QED
      BY <3>1, <2>2, <1>1
  <2> HIDE DEF T, base, step, it
  <2>3. IsChain(it, n, T, base, step)
    BY <2>1, <2>2 DEF IsChain
  <2>4. IsFolding(it, n, T, base, step)
    BY <2>3, <1>6, <1>0, <1>4 DEF IsFolding
  <2>5. HasRun(it, n, T, base, step)
    BY <2>4, FoldingRuns
  <2> QED
    BY <2>5 DEF HasRun
<1>15. run \in [0..n -> T] /\ run[0] = base /\ \A k \in 1..n : run[k] = Put(run[k - 1], k)
  <2>1. run \in [0..n -> T] /\ run[0] = base /\ \A k \in 1..n : run[k] = step[k][run[k - 1]]
    <3> HIDE DEF T, base, step
    <3> QED
      BY <1>14 DEF IsRun
  <2>2. \A k \in 1..n : run[k - 1] \in T
    <3>1. \A k \in 1..n : k - 1 \in 0..n
      BY <1>0
    <3> HIDE DEF T, base, step
    <3> QED
      BY <2>1, <3>1
  <2> HIDE DEF T, base, Put
  <2> QED
    BY <2>1, <2>2
<1>16. CountVertex(stats, vertexLabels, edgeLabels, way) = run[n]
  <2> HIDE DEF it
  <2> QED
    BY <1>1, <1>2, <1>14
<1> HIDE DEF it, F, step
<1> DEFINE Holds == {k \in 0..n : Adds(run[k], stats, Counted(k), degree, way)}
<1>17. 0 \in Holds
  <2>1. Counted(0) = {}
    OBVIOUS
  <2>2. Adds(stats, stats, {}, degree, way)
    BY AddsNothing
  <2>3. run[0] = stats /\ 0 \in 0..n
    BY <1>0, <1>15
  <2> HIDE DEF T, Put, Counted
  <2> QED
    BY <2>1, <2>2, <2>3
<1>18. ASSUME NEW k \in 0..(n - 1), k \in Holds PROVE k + 1 \in Holds
  <2> DEFINE m == k + 1
  <2>1. m \in 1..n /\ m \in 0..n /\ m - 1 = k /\ k \in 0..n
    BY <1>1
  <2>2. run[m] = Put(run[k], m) /\ run[k] \in T
    <3> HIDE DEF T, Put, base, m
    <3> QED
      BY <1>15, <2>1
  <2>3. Adds(run[m], run[k], ToSet(vertexLabels) \X {touched[m]}, degree, way)
    <3> HIDE DEF T, Put, m
    <3> QED
      BY <1>3, <2>1, <2>2
  <2>4. Adds(run[k], stats, Counted(k), degree, way)
    BY <1>18
  <2>5. (\A j \in 1..m : j = m \/ j \in 1..k) /\ m \in 1..m
    BY <2>1
  <2>6. \A j \in 1..k : j \in 1..m /\ j \in 1..n /\ j # m
    BY <1>1, <2>1
  <2>7. touched[m] \notin First(k)
    <3>1. \A j \in 1..n : touched[j] = touched[m] => j = m
      BY <1>21, <2>1 DEF n, Once
    <3> HIDE DEF m
    <3> QED
      BY <2>6, <3>1
  <2>8. First(m) = First(k) \cup {touched[m]}
    <3> HIDE DEF m
    <3> QED
      BY <2>5, <2>6
  <2> HIDE DEF m, First
  <2> DEFINE next == ToSet(vertexLabels) \X {touched[m]}
  <2>9. Counted(m) = Counted(k) \cup next /\ Counted(k) \cap next = {}
    BY <2>7, <2>8, PairsUnder
  <2>10. Adds(run[m], stats, Counted(m), degree, way)
    <3>1. Adds(run[m], run[k], next, degree, way)
      BY <2>3
    <3> HIDE DEF Counted, T, Put, next
    <3>2. Adds(run[m], stats, Counted(k) \cup next, degree, way)
      BY ONLY <3>1, <2>4, <2>9, AddsMore, stats \in Stats, <1>22, way \in Ways, Zenon
    <3> QED
      BY <2>9, <3>2
  <2> HIDE DEF Counted
  <2> QED
    BY <2>1, <2>10 DEF m
<1>19. 0..n \subseteq Holds
  <2> HIDE DEF Holds
  <2> QED
    BY <1>1, <1>17, <1>18, NumberSteps
<1>20. Adds(run[n], stats, Counted(n), degree, way)
  <2>1. n \in 0..n
    BY <1>0
  <2> HIDE DEF Counted, T, Put
  <2> QED
    BY <1>19, <2>1
<1>24. First(n) = ToSet(touched)
  BY <1>1 DEF ToSet
<1> HIDE DEF First
<1> QED
  BY <1>16, <1>20, <1>21, <1>24 DEF degree

(* The labels of the edges of one vertex. *)
EdgeLabelsAt(side, o) == Slice(side.labels, side.offsets[o], side.offsets[o + 1])

(* The places of the edges of a label at the vertices of a label, up to an ordinal; and
   these vertices. *)
PlacesAt(side, labels, o, a, c) ==
  IF a \in ToSet(labels[o]) THEN {o} \X {k \in DOMAIN EdgeLabelsAt(side, o) : EdgeLabelsAt(side, o)[k] = c} ELSE {}

(* The places, and the vertices, below the n-th one. *)
PlacesTo(side, labels, n, a, c) == UNION {PlacesAt(side, labels, o, a, c) : o \in 0..(n - 1)}

VerticesTo(side, labels, n, a, c) == {o \in 0..(n - 1) : a \in ToSet(labels[o]) /\ c \in ToSet(EdgeLabelsAt(side, o))}

(* The set of pairs with one first element is as large as that of the others. *)
LEMMA CountPaired ==
  ASSUME NEW o, NEW n \in Nat, NEW K, K \subseteq 1..n
  PROVE  IsFiniteSet({o} \X K) /\ Cardinality({o} \X K) = Cardinality(K)
<1> DEFINE f == [k \in K |-> <<o, k>>]
<1>1. f \in Bijection(K, {o} \X K)
  <2>1. f \in [K -> {o} \X K] /\ \A j, k \in K : f[j] = f[k] => j = k
    OBVIOUS
  <2>2. \A x \in {o} \X K : \E k \in K : f[k] = x
    <3>1. \A x \in {o} \X K : x[2] \in K /\ x = <<o, x[2]>>
      OBVIOUS
    <3>2. \A k \in K : f[k] = <<o, k>>
      OBVIOUS
    <3> HIDE DEF f
    <3> QED
      BY <3>1, <3>2
  <2> HIDE DEF f
  <2>3. DOMAIN f = K
    BY <2>1
  <2> QED
    BY <2>1, <2>2, <2>3 DEF Bijection, Injection, Surjection, IsInjective
<1>2. ExistsBijection(K, {o} \X K)
  BY <1>1 DEF ExistsBijection
<1>3. IsFiniteSet(K)
  BY CountIn
<1> QED
  BY <1>2, <1>3, FS_Bijection

(* The places up to the next vertex: its edges of the label, if it has the other one. *)
LEMMA PlacesMore ==
  ASSUME NEW side, NEW labels, NEW n \in Nat, NEW a \in Nat, NEW c \in Nat,
         EdgeLabelsAt(side, n) \in Seq(Nat), IsFiniteSet(PlacesTo(side, labels, n, a, c))
  PROVE  /\ IsFiniteSet(PlacesTo(side, labels, n + 1, a, c))
         /\ Cardinality(PlacesTo(side, labels, n + 1, a, c))
               = Cardinality(PlacesTo(side, labels, n, a, c))
                 + (IF a \in ToSet(labels[n]) THEN DegreeOf(EdgeLabelsAt(side, n))[c] ELSE 0)
<1> DEFINE before == PlacesTo(side, labels, n, a, c)
           here == PlacesAt(side, labels, n, a, c)
           list == EdgeLabelsAt(side, n)
           K == {k \in DOMAIN list : list[k] = c}
<1>1. PlacesTo(side, labels, n + 1, a, c) = before \cup here
  <2>1. \A o : o \in 0..((n + 1) - 1) <=> o \in 0..(n - 1) \/ o = n
    OBVIOUS
  <2> QED
    BY <2>1, Zenon DEF PlacesTo
<1>2. before \cap here = {}
  <2>1. \A o \in 0..(n - 1) : o # n
    OBVIOUS
  <2>2. \A o : \A x \in PlacesAt(side, labels, o, a, c) : x[1] = o
    BY DEF PlacesAt
  <2>3. \A x \in before : \E o \in 0..(n - 1) : x \in PlacesAt(side, labels, o, a, c)
    BY DEF PlacesTo
  <2> HIDE DEF before
  <2> QED
    BY <2>1, <2>2, <2>3
<1>3. Len(list) \in Nat /\ DOMAIN list = 1..Len(list)
  OBVIOUS
<1>4. IsFiniteSet({n} \X K) /\ Cardinality({n} \X K) = Cardinality(K)
  <2>1. K \subseteq 1..Len(list)
    BY <1>3
  <2> HIDE DEF K, list
  <2> QED
    BY <1>3, <2>1, CountPaired
<1>5. IsFiniteSet(here) /\ Cardinality(here) = IF a \in ToSet(labels[n]) THEN Cardinality(K) ELSE 0
  <2>1. here = IF a \in ToSet(labels[n]) THEN {n} \X K ELSE {}
    BY DEF PlacesAt
  <2> HIDE DEF here, K
  <2> QED
    BY <1>4, <2>1, FS_EmptySet
<1>6. DegreeOf(list)[c] = Cardinality(K)
  BY DEF DegreeOf
<1> HIDE DEF before, here, K, list
<1>7. IsFiniteSet(before) /\ IsFiniteSet(here) /\ before \cap here = {}
  BY <1>2, <1>5 DEF before
<1>8. IsFiniteSet(before \cup here) /\ Cardinality(before \cup here) = Cardinality(before) + Cardinality(here)
  BY <1>7, CountOfUnion, FS_Union
<1> QED
  BY <1>1, <1>5, <1>6, <1>8 DEF before, list

(* The vertices up to the next one, which counts if it has both labels. *)
LEMMA VerticesMore ==
  ASSUME NEW side, NEW labels, NEW n \in Nat, NEW a \in Nat, NEW c \in Nat
  PROVE  /\ Cardinality(VerticesTo(side, labels, n, a, c)) \in Nat
         /\ Cardinality(VerticesTo(side, labels, n + 1, a, c))
               = Cardinality(VerticesTo(side, labels, n, a, c))
                 + (IF a \in ToSet(labels[n]) /\ c \in ToSet(EdgeLabelsAt(side, n)) THEN 1 ELSE 0)
<1> DEFINE before == VerticesTo(side, labels, n, a, c)
           after == VerticesTo(side, labels, n + 1, a, c)
           Has(o) == a \in ToSet(labels[o]) /\ c \in ToSet(EdgeLabelsAt(side, o))
<1>1. \A o : o \in 0..((n + 1) - 1) <=> o \in 0..(n - 1) \/ o = n
  OBVIOUS
<1>2. before = {o \in 0..(n - 1) : Has(o)} /\ after = {o \in 0..((n + 1) - 1) : Has(o)}
  BY DEF VerticesTo
<1> HIDE DEF before, after, Has
<1>3. after = IF Has(n) THEN before \cup {n} ELSE before
  BY <1>1, <1>2
<1>4. n \notin before
  BY <1>2
<1>5. IsFiniteSet(before)
  <2>1. IsFiniteSet(0..(n - 1)) /\ before \subseteq 0..(n - 1)
    BY <1>2, FS_Interval
  <2> QED
    BY <2>1, FS_Subset
<1>6. Cardinality(before) \in Nat
  BY <1>5, FS_CardinalityType
<1>7. Cardinality(before \cup {n}) = Cardinality(before) + 1
  BY <1>4, <1>5, FS_AddElement
<1>8. Cardinality(after) = Cardinality(before) + (IF Has(n) THEN 1 ELSE 0)
  BY <1>3, <1>6, <1>7
<1> QED
  BY <1>6, <1>8 DEF before, after, Has

(* The statistics with the edges of one direction counted up to an ordinal; or none. *)
CountedTo(new, old, side, labels, n, way) ==
  /\ new \in Stats
  /\ new.has =>
        /\ old.has
        /\ \A a, c \in Nat, w \in Ways :
              /\ EdgesIn(new, a, c, w)
                     = EdgesIn(old, a, c, w) + (IF w = way THEN Cardinality(PlacesTo(side, labels, n, a, c)) ELSE 0)
              /\ VerticesIn(new, a, c, w)
                     = VerticesIn(old, a, c, w) + (IF w = way THEN Cardinality(VerticesTo(side, labels, n, a, c)) ELSE 0)

(* Before the first vertex nothing is counted. *)
LEMMA CountedNone ==
  ASSUME NEW stats \in Stats, NEW side, NEW labels, NEW way
  PROVE  /\ CountedTo(stats, stats, side, labels, 0, way)
         /\ \A a, c \in Nat : IsFiniteSet(PlacesTo(side, labels, 0, a, c))
<1>1. \A a, c : PlacesTo(side, labels, 0, a, c) = {} /\ VerticesTo(side, labels, 0, a, c) = {}
  <2>1. 0..(0 - 1) = {}
    OBVIOUS
  <2> QED
    BY <2>1, Zenon DEF PlacesTo, VerticesTo
<1>2. \A a, c : /\ IsFiniteSet(PlacesTo(side, labels, 0, a, c))
                /\ Cardinality(PlacesTo(side, labels, 0, a, c)) = 0 /\ Cardinality(VerticesTo(side, labels, 0, a, c)) = 0
  BY <1>1, FS_EmptySet
<1>3. \A a, c \in Nat, w \in Ways : EdgesIn(stats, a, c, w) \in Nat /\ VerticesIn(stats, a, c, w) \in Nat
  BY InTyped
<1>4. ASSUME NEW a \in Nat, NEW c \in Nat, NEW w \in Ways
      PROVE  /\ EdgesIn(stats, a, c, w)
                    = EdgesIn(stats, a, c, w) + (IF w = way THEN Cardinality(PlacesTo(side, labels, 0, a, c)) ELSE 0)
             /\ VerticesIn(stats, a, c, w)
                    = VerticesIn(stats, a, c, w) + (IF w = way THEN Cardinality(VerticesTo(side, labels, 0, a, c)) ELSE 0)
  <2>1. Cardinality(PlacesTo(side, labels, 0, a, c)) = 0 /\ Cardinality(VerticesTo(side, labels, 0, a, c)) = 0
    BY <1>2
  <2>2. EdgesIn(stats, a, c, w) \in Nat /\ VerticesIn(stats, a, c, w) \in Nat
    BY <1>3
  <2> QED
    BY ONLY <2>1, <2>2
<1>5. CountedTo(stats, stats, side, labels, 0, way)
  BY <1>4, Zenon DEF CountedTo
<1> QED
  BY <1>2, <1>5

(* Counting one vertex more. *)
LEMMA CountedMore ==
  ASSUME NEW x \in Stats, NEW y \in Stats, NEW z, NEW side, NEW labels, NEW n \in Nat, NEW way \in Ways,
         CountedTo(y, x, side, labels, n, way), EdgeLabelsAt(side, n) \in Seq(Nat),
         \A a, c \in Nat : IsFiniteSet(PlacesTo(side, labels, n, a, c)),
         Adds(z, y, ToSet(labels[n]) \X ToSet(EdgeLabelsAt(side, n)), DegreeOf(EdgeLabelsAt(side, n)), way)
  PROVE  /\ CountedTo(z, x, side, labels, n + 1, way)
         /\ \A a, c \in Nat : IsFiniteSet(PlacesTo(side, labels, n + 1, a, c))
<1> DEFINE list == EdgeLabelsAt(side, n)
           P == ToSet(labels[n]) \X ToSet(list)
           degree == DegreeOf(list)
<1>1. \A c \in Nat : c \notin ToSet(list) => degree[c] = 0
  <2> SUFFICES ASSUME NEW c \in Nat, c \notin ToSet(list) PROVE degree[c] = 0
    OBVIOUS
  <2>1. {k \in DOMAIN list : list[k] = c} = {}
    BY DEF ToSet
  <2> QED
    BY <2>1, FS_EmptySet DEF DegreeOf
<1>2. degree \in [Nat -> Nat]
  BY DegreeTyped
<1>3. Adds(z, y, P, degree, way)
  OBVIOUS
<1>4. \A a, c \in Nat : /\ IsFiniteSet(PlacesTo(side, labels, n + 1, a, c))
                        /\ Cardinality(PlacesTo(side, labels, n + 1, a, c))
                              = Cardinality(PlacesTo(side, labels, n, a, c)) + (IF a \in ToSet(labels[n]) THEN degree[c] ELSE 0)
  <2> SUFFICES ASSUME NEW a \in Nat, NEW c \in Nat
               PROVE  /\ IsFiniteSet(PlacesTo(side, labels, n + 1, a, c))
                      /\ Cardinality(PlacesTo(side, labels, n + 1, a, c))
                            = Cardinality(PlacesTo(side, labels, n, a, c)) + (IF a \in ToSet(labels[n]) THEN degree[c] ELSE 0)
    OBVIOUS
  <2>1. IsFiniteSet(PlacesTo(side, labels, n, a, c))
    OBVIOUS
  <2> QED
    BY ONLY <2>1, n \in Nat, EdgeLabelsAt(side, n) \in Seq(Nat), PlacesMore, a \in Nat, c \in Nat DEF degree, list
<1>5. \A a, c \in Nat : /\ Cardinality(VerticesTo(side, labels, n, a, c)) \in Nat
                        /\ Cardinality(VerticesTo(side, labels, n + 1, a, c))
                              = Cardinality(VerticesTo(side, labels, n, a, c))
                                + (IF a \in ToSet(labels[n]) /\ c \in ToSet(list) THEN 1 ELSE 0)
  BY VerticesMore
<1>6. \A a, c \in Nat : Cardinality(PlacesTo(side, labels, n, a, c)) \in Nat
  BY FS_CardinalityType
<1>7. \A a, c : <<a, c>> \in P <=> a \in ToSet(labels[n]) /\ c \in ToSet(list)
  OBVIOUS
<1> HIDE DEF P, degree, list
<1>8. ASSUME NEW a \in Nat, NEW c \in Nat, NEW w \in Ways, z.has
      PROVE  /\ x.has
             /\ EdgesIn(z, a, c, w)
                     = EdgesIn(x, a, c, w) + (IF w = way THEN Cardinality(PlacesTo(side, labels, n + 1, a, c)) ELSE 0)
             /\ VerticesIn(z, a, c, w)
                     = VerticesIn(x, a, c, w) + (IF w = way THEN Cardinality(VerticesTo(side, labels, n + 1, a, c)) ELSE 0)
  <2> DEFINE pair == <<a, c>>
             p == Cardinality(PlacesTo(side, labels, n, a, c))
             q == Cardinality(PlacesTo(side, labels, n + 1, a, c))
             v == Cardinality(VerticesTo(side, labels, n, a, c))
             u == Cardinality(VerticesTo(side, labels, n + 1, a, c))
  <2>1. /\ y.has
        /\ EdgesIn(z, a, c, w) = EdgesIn(y, a, c, w) + (IF pair \in P /\ w = way THEN degree[c] ELSE 0)
        /\ VerticesIn(z, a, c, w) = VerticesIn(y, a, c, w) + (IF pair \in P /\ w = way THEN 1 ELSE 0)
    BY <1>3, <1>8 DEF Adds
  <2>2. /\ x.has
        /\ EdgesIn(y, a, c, w) = EdgesIn(x, a, c, w) + (IF w = way THEN p ELSE 0)
        /\ VerticesIn(y, a, c, w) = VerticesIn(x, a, c, w) + (IF w = way THEN v ELSE 0)
    BY <2>1 DEF CountedTo
  <2>3. EdgesIn(x, a, c, w) \in Nat /\ VerticesIn(x, a, c, w) \in Nat /\ degree[c] \in Nat
    BY <1>2, InTyped
  <2>4. pair \in P <=> a \in ToSet(labels[n]) /\ c \in ToSet(list)
    BY <1>7
  <2>5. c \notin ToSet(list) => degree[c] = 0
    BY <1>1
  <2>6. p \in Nat /\ q = p + (IF a \in ToSet(labels[n]) THEN degree[c] ELSE 0)
    BY <1>4, <1>6
  <2>7. v \in Nat /\ u = v + (IF a \in ToSet(labels[n]) /\ c \in ToSet(list) THEN 1 ELSE 0)
    BY <1>5
  <2> HIDE DEF pair, p, q, u, v
  <2>8. /\ EdgesIn(z, a, c, w) = EdgesIn(x, a, c, w) + (IF w = way THEN q ELSE 0)
        /\ VerticesIn(z, a, c, w) = VerticesIn(x, a, c, w) + (IF w = way THEN u ELSE 0)
    BY ONLY <2>1, <2>2, <2>3, <2>4, <2>5, <2>6, <2>7
  <2> QED
    BY <2>2, <2>8 DEF q, u
<1>9. z \in Stats
  BY <1>3 DEF Adds
<1>10. CountedTo(z, x, side, labels, n + 1, way)
  <2>1. 0 \in Nat /\ way \in Ways
    OBVIOUS
  <2> QED
    BY <1>8, <1>9, <2>1 DEF CountedTo
<1> QED
  BY <1>4, <1>10

(* What a direction gives the statistics to count. *)
IsCountable(side, labels, size) ==
  /\ DOMAIN labels = 0..(size - 1)
  /\ \A o \in 0..(size - 1) : Once(labels[o]) /\ EdgeLabelsAt(side, o) \in Seq(Nat)

(* All edges of one direction. *)
LEMMA CollectFanoutExact ==
  ASSUME NEW stats \in Stats, NEW side, NEW labels, NEW size \in Nat, IsCountable(side, labels, size), NEW way \in Ways
  PROVE  /\ CountedTo(CollectFanout(stats, side, labels, way), stats, side, labels, size, way)
         /\ \A a, c \in Nat : IsFiniteSet(PlacesTo(side, labels, size, a, c))
<1> DEFINE n == size
           order == [i \in 1..Cardinality(DOMAIN labels) |-> i - 1]
           T == Stats
           base == stats
           Put(s, k) == CountVertex(s, labels[order[k]],
                                    Slice(side.labels, side.offsets[order[k]], side.offsets[order[k] + 1]), way)
           step == [k \in 1..n |-> [s \in T |-> Put(s, k)]]
           F(it) == it = [S \in SUBSET (DOMAIN order) |->
                            IF S = {} THEN base ELSE Put(it[S \ {Max(S)}], Max(S))]
           it == CHOOSE it : F(it)
           Ready(s, k) == /\ CountedTo(s, stats, side, labels, k, way)
                          /\ \A a, c \in Nat : IsFiniteSet(PlacesTo(side, labels, k, a, c))
<1>2. CollectFanout(stats, side, labels, way) = it[DOMAIN order]
  BY Zenon DEF CollectFanout, FoldLeft, MapThenFoldSet
<1>0. n \in Nat
  OBVIOUS
<1>21. Cardinality(DOMAIN labels) = size
  <2>1. DOMAIN labels = 0..(size - 1)
    BY DEF IsCountable
  <2>2. Cardinality(0..(size - 1)) = size
    BY FS_Interval
  <2> QED
    BY <2>1, <2>2
<1>1. n \in Nat /\ DOMAIN order = 1..n /\ \A k \in 1..n : order[k] = k - 1 /\ order[k] \in 0..(size - 1)
  BY <1>21
<1> HIDE DEF order
<1>22. \A o \in 0..(size - 1) : Once(labels[o]) /\ EdgeLabelsAt(side, o) \in Seq(Nat)
  BY DEF IsCountable
<1>3. ASSUME NEW s \in T, NEW k \in 1..n
      PROVE  Adds(Put(s, k), s, ToSet(labels[k - 1]) \X ToSet(EdgeLabelsAt(side, k - 1)),
                  DegreeOf(EdgeLabelsAt(side, k - 1)), way)
  <2>1. order[k] = k - 1 /\ Once(labels[k - 1]) /\ EdgeLabelsAt(side, k - 1) \in Seq(Nat)
    BY <1>1, <1>22
  <2>2. Put(s, k) = CountVertex(s, labels[k - 1], EdgeLabelsAt(side, k - 1), way)
    BY <2>1, Zenon DEF EdgeLabelsAt
  <2>3. Adds(CountVertex(s, labels[k - 1], EdgeLabelsAt(side, k - 1), way), s,
             ToSet(labels[k - 1]) \X ToSet(EdgeLabelsAt(side, k - 1)), DegreeOf(EdgeLabelsAt(side, k - 1)), way)
    BY ONLY <2>1, s \in T, way \in Ways, CountVertexExact, Zenon DEF T
  <2> QED
    BY <2>2, <2>3, Zenon
<1>4. base \in T
  OBVIOUS
<1>5. \A s \in T, k \in 1..n : Put(s, k) \in T
  <2> HIDE DEF Put
  <2> QED
    BY <1>3 DEF Adds
<1> HIDE DEF n
<1>6. step \in [1..n -> [T -> T]]
  <2> HIDE DEF T, Put
  <2> QED
    BY <1>1, <1>5
<1>7. PICK fold : IsFold(fold, n, T, base, step)
  <2> HIDE DEF T, base, step
  <2> QED
    BY <1>0, <1>4, <1>6, FoldRuns
<1>8. \A S \in SUBSET (1..n) : S # {} => Max(S) \in 1..n /\ S \ {Max(S)} \in SUBSET (1..n)
  BY <1>0, MaxOf
<1>9. /\ fold \in [SUBSET (1..n) -> T]
      /\ \A S \in SUBSET (1..n) :
            fold[S] = IF S = {} THEN base ELSE step[Max(S)][fold[S \ {Max(S)}]]
  <2> HIDE DEF T, base, step
  <2> QED
    BY <1>7 DEF IsFold
<1>10. \A S \in SUBSET (1..n) :
         fold[S] = IF S = {} THEN base ELSE Put(fold[S \ {Max(S)}], Max(S))
  <2> SUFFICES ASSUME NEW S \in SUBSET (1..n), S # {}
               PROVE  step[Max(S)][fold[S \ {Max(S)}]] = Put(fold[S \ {Max(S)}], Max(S))
    <3> HIDE DEF T, base, step, Put
    <3> QED
      BY <1>9
  <2>1. Max(S) \in 1..n /\ fold[S \ {Max(S)}] \in T
    <3> HIDE DEF T, base, step
    <3> QED
      BY <1>8, <1>9
  <2> HIDE DEF T, base, Put
  <2> QED
    BY <2>1, <1>1
<1>11. F(fold)
  <2> HIDE DEF T, base, step, Put
  <2> QED
    BY <1>9, <1>10, <1>1
<1>12. F(it)
  <2> HIDE DEF base, Put
  <2> QED
    BY <1>11, Zenon
<1>13. \A S \in SUBSET (1..n) : it[S] = IF S = {} THEN base ELSE Put(it[S \ {Max(S)}], Max(S))
  <2> HIDE DEF base, Put, it
  <2> QED
    BY <1>12, <1>1
<1>14. PICK run : IsRun(run, n, T, base, step) /\ run[n] = it[1..n]
  <2>1. it[{}] = base
    <3> HIDE DEF base, Put, it
    <3> QED
      BY <1>13
  <2>2. ASSUME NEW S \in SUBSET (1..n), S # {}, it[S \ {Max(S)}] \in T
        PROVE  it[S] = step[Max(S)][it[S \ {Max(S)}]]
    <3>1. it[S] = Put(it[S \ {Max(S)}], Max(S)) /\ Max(S) \in 1..n
      <4> HIDE DEF base, Put, it
      <4> QED
        BY <1>8, <1>13, <2>2
    <3> HIDE DEF T, Put, it
    <3> QED
      BY <3>1, <2>2, <1>1
  <2> HIDE DEF T, base, step, it
  <2>3. IsChain(it, n, T, base, step)
    BY <2>1, <2>2 DEF IsChain
  <2>4. IsFolding(it, n, T, base, step)
    BY <2>3, <1>6, <1>0, <1>4 DEF IsFolding
  <2>5. HasRun(it, n, T, base, step)
    BY <2>4, FoldingRuns
  <2> QED
    BY <2>5 DEF HasRun
<1>15. run \in [0..n -> T] /\ run[0] = base /\ \A k \in 1..n : run[k] = Put(run[k - 1], k)
  <2>1. run \in [0..n -> T] /\ run[0] = base /\ \A k \in 1..n : run[k] = step[k][run[k - 1]]
    <3> HIDE DEF T, base, step
    <3> QED
      BY <1>14 DEF IsRun
  <2>2. \A k \in 1..n : run[k - 1] \in T
    <3>1. \A k \in 1..n : k - 1 \in 0..n
      BY <1>0
    <3> HIDE DEF T, base, step
    <3> QED
      BY <2>1, <3>1
  <2> HIDE DEF T, base, Put
  <2> QED
    BY <2>1, <2>2
<1>16. CollectFanout(stats, side, labels, way) = run[n]
  <2> HIDE DEF it
  <2> QED
    BY <1>1, <1>2, <1>14
<1> HIDE DEF it, F, step
<1> DEFINE Holds == {k \in 0..n : Ready(run[k], k)}
<1>17. 0 \in Holds
  <2>1. Ready(stats, 0)
    BY CountedNone
  <2>2. run[0] = stats /\ 0 \in 0..n
    BY <1>0, <1>15
  <2> HIDE DEF T, Put, Ready
  <2> QED
    BY <2>1, <2>2
<1>18. ASSUME NEW k \in 0..(n - 1), k \in Holds PROVE k + 1 \in Holds
  <2> DEFINE m == k + 1
  <2>1. m \in 1..n /\ m \in 0..n /\ m - 1 = k /\ k \in 0..n /\ k \in Nat /\ k \in 0..(size - 1)
    BY <1>1 DEF n
  <2>2. run[m] = Put(run[k], m) /\ run[k] \in T
    <3> HIDE DEF T, Put, base, m
    <3> QED
      BY <1>15, <2>1
  <2>3. Adds(run[m], run[k], ToSet(labels[k]) \X ToSet(EdgeLabelsAt(side, k)), DegreeOf(EdgeLabelsAt(side, k)), way)
    <3>1. Adds(Put(run[k], m), run[k], ToSet(labels[m - 1]) \X ToSet(EdgeLabelsAt(side, m - 1)),
               DegreeOf(EdgeLabelsAt(side, m - 1)), way)
      <4> HIDE DEF T, Put, m
      <4> QED
        BY <1>3, <2>1, <2>2
    <3> HIDE DEF Put, m, T
    <3> QED
      BY <2>1, <2>2, <3>1
  <2>4. Ready(run[k], k)
    BY <1>18
  <2>5. EdgeLabelsAt(side, k) \in Seq(Nat)
    BY <1>22, <2>1
  <2>6. Ready(run[m], k + 1)
    <3> HIDE DEF m, Put
    <3> QED
      BY ONLY <2>1, <2>2, <2>3, <2>4, <2>5, CountedMore, stats \in Stats, way \in Ways DEF T, Ready
  <2> HIDE DEF Ready
  <2> QED
    BY <2>1, <2>6
<1>19. 0..n \subseteq Holds
  <2> HIDE DEF Holds
  <2> QED
    BY <1>1, <1>17, <1>18, NumberSteps
<1>20. Ready(run[n], n)
  <2>1. n \in 0..n
    BY <1>0
  <2> HIDE DEF Ready, T, Put
  <2> QED
    BY <1>19, <2>1
<1> QED
  BY <1>16, <1>20 DEF n

(* Two sets matched one to one are equally large. *)
IsMatching(S, T, R) ==
  /\ \A x \in S : \E y \in T : <<x, y>> \in R
  /\ \A y \in T : \E x \in S : <<x, y>> \in R
  /\ \A x, z \in S, y \in T : <<x, y>> \in R /\ <<z, y>> \in R => x = z
  /\ \A x \in S, y, z \in T : <<x, y>> \in R /\ <<x, z>> \in R => y = z

(* Sets whose elements match one to one are equally large. *)
LEMMA CountMatched ==
  ASSUME NEW S, NEW T, NEW R, IsFiniteSet(S), IsMatching(S, T, R)
  PROVE  IsFiniteSet(T) /\ Cardinality(T) = Cardinality(S)
<1> DEFINE f == [x \in S |-> CHOOSE y \in T : <<x, y>> \in R]
<1>1. \A x \in S : (CHOOSE y \in T : <<x, y>> \in R) \in T /\ <<x, CHOOSE y \in T : <<x, y>> \in R>> \in R
  <2> SUFFICES ASSUME NEW x \in S
               PROVE  (CHOOSE y \in T : <<x, y>> \in R) \in T /\ <<x, CHOOSE y \in T : <<x, y>> \in R>> \in R
    OBVIOUS
  <2>1. \E y \in T : <<x, y>> \in R
    BY DEF IsMatching
  <2> QED
    BY <2>1
<1>2. f \in [S -> T] /\ DOMAIN f = S /\ \A x \in S : f[x] \in T /\ <<x, f[x]>> \in R
  BY <1>1
<1> HIDE DEF f
<1>3. ASSUME NEW x \in S, NEW z \in S, f[x] = f[z] PROVE x = z
  <2>1. f[x] \in T /\ <<x, f[x]>> \in R /\ <<z, f[x]>> \in R
    BY <1>2, <1>3
  <2> QED
    BY <2>1 DEF IsMatching
<1>4. ASSUME NEW y \in T PROVE \E x \in S : f[x] = y
  <2>1. PICK x \in S : <<x, y>> \in R
    BY DEF IsMatching
  <2>2. f[x] \in T /\ <<x, f[x]>> \in R
    BY <1>2
  <2>3. f[x] = y
    BY <2>1, <2>2 DEF IsMatching
  <2> QED
    BY <2>3
<1>5. f \in Bijection(S, T)
  BY <1>2, <1>3, <1>4 DEF Bijection, Injection, Surjection, IsInjective
<1>6. ExistsBijection(S, T)
  BY <1>5 DEF ExistsBijection
<1> QED
  BY <1>6, FS_Bijection

(* The edges of a label at the vertices of a label. *)
Among(vertices, edges, a, c, outgoing) ==
  {e \in edges : e.label = c /\ \E v \in vertices : v.id = Near(e, outgoing) /\ Known(v.labels, a)}

(* One direction of a snapshot, with the labels of its vertices. *)
IsSide(side, labels, size, ids, dict, vertices, edges, outgoing) ==
  /\ size \in Nat /\ AscendingIds(ids, size) /\ IsDict(dict)
  /\ \A v, w \in vertices : v.id = w.id => v = w
  /\ \A e, f \in edges : e.id = f.id => e = f
  /\ \A e \in edges : \E o \in 0..(size - 1) : ids[o] = Near(e, outgoing)
  /\ DOMAIN labels = 0..(size - 1)
  /\ \A o \in 0..(size - 1) : \E v \in vertices : v.id = ids[o] /\ LabelledAs(labels[o], v.labels, dict)
  /\ \A o \in 0..(size - 1) : ListsAt(RangeOf(side, o), edges, ids[o], dict, ids, outgoing)

(* The elements of a list are those found in it. *)
LEMMA ToSetKnown ==
  ASSUME NEW X, NEW s \in Seq(X), NEW x
  PROVE  x \in ToSet(s) <=> Known(s, x)
BY DEF ToSet, Known

(* The labels of the edges of a vertex are those of its range. *)
LEMMA EdgeLabelsListed ==
  ASSUME NEW side, NEW o, NEW edges, NEW id, NEW dict, IsDict(dict), NEW ids, NEW outgoing,
         ListsAt(RangeOf(side, o), edges, id, dict, ids, outgoing)
  PROVE  /\ EdgeLabelsAt(side, o) \in Seq(Nat)
         /\ DOMAIN EdgeLabelsAt(side, o) = DOMAIN RangeOf(side, o)
         /\ \A i \in DOMAIN RangeOf(side, o) :
               /\ EdgeLabelsAt(side, o)[i] = RangeOf(side, o)[i].label
               /\ EdgeLabelsAt(side, o)[i] \in 1..Len(dict)
<1> DEFINE list == RangeOf(side, o)
           n == Len(list)
           labels == EdgeLabelsAt(side, o)
<1>1. n \in Nat /\ DOMAIN list = 1..n /\ \A i \in 1..n : list[i].label \in 1..Len(dict)
  BY DEF ListsAt, IsEntry
<1>2. DOMAIN labels = DOMAIN list /\ \A i \in DOMAIN list : labels[i] = list[i].label
  BY DEF EdgeLabelsAt, Slice, RangeOf
<1>3. labels = [i \in DOMAIN labels |-> labels[i]]
  BY DEF EdgeLabelsAt, Slice
<1>4. Len(dict) \in Nat
  BY DEF IsDict
<1> HIDE DEF list, n, labels
<1>5. \A i \in 1..n : labels[i] \in Nat
  BY <1>1, <1>2, <1>4
<1>6. labels \in Seq(Nat)
  BY <1>1, <1>2, <1>3, <1>5
<1> QED
  BY <1>1, <1>2, <1>6 DEF labels, list

(* The places counted and the edges kept name each other. *)
HaveEdges(side, labels, size, ids, a, c, kept, outgoing) ==
  /\ \A o \in 0..(size - 1) : \A i \in DOMAIN RangeOf(side, o) :
        a \in ToSet(labels[o]) /\ RangeOf(side, o)[i].label = c =>
           \E e \in kept : Near(e, outgoing) = ids[o] /\ e.id = RangeOf(side, o)[i].id
  /\ \A e \in kept :
        \E o \in 0..(size - 1) : \E i \in DOMAIN RangeOf(side, o) :
           /\ a \in ToSet(labels[o]) /\ RangeOf(side, o)[i].label = c
           /\ Near(e, outgoing) = ids[o] /\ e.id = RangeOf(side, o)[i].id

(* Places and edges: each edge counted at a vertex is one of the table, and each of the
   table is counted at one place. *)
LEMMA PlacesAreEdges ==
  ASSUME NEW side, NEW labels, NEW size, NEW ids, NEW dict, NEW vertices, NEW edges, NEW outgoing,
         IsSide(side, labels, size, ids, dict, vertices, edges, outgoing),
         NEW a \in 1..Len(dict), NEW c \in 1..Len(dict)
  PROVE  HaveEdges(side, labels, size, ids, a, c, Among(vertices, edges, dict[a], dict[c], outgoing), outgoing)
<1> DEFINE Kept == Among(vertices, edges, dict[a], dict[c], outgoing)
<1>1. \A i, j \in 1..Len(dict) : dict[i] = dict[j] => i = j
  BY DEF IsSide, IsDict
<1>2. ASSUME NEW o \in 0..(size - 1)
      PROVE  /\ \E v \in vertices : /\ v.id = ids[o]
                                    /\ a \in ToSet(labels[o]) <=> Known(v.labels, dict[a])
             /\ ListsAt(RangeOf(side, o), edges, ids[o], dict, ids, outgoing)
  <2>1. PICK v \in vertices : v.id = ids[o] /\ LabelledAs(labels[o], v.labels, dict)
    BY DEF IsSide
  <2>2. labels[o] \in Seq(1..Len(dict))
    BY <2>1 DEF LabelledAs, IsIds
  <2>3. a \in ToSet(labels[o]) <=> Known(labels[o], a)
    BY <2>2, ToSetKnown
  <2>4. Known(v.labels, dict[a]) <=> \E id \in 1..Len(dict) : dict[id] = dict[a] /\ Known(labels[o], id)
    BY <2>1 DEF LabelledAs
  <2>5. Known(v.labels, dict[a]) <=> Known(labels[o], a)
    BY <1>1, <2>4
  <2>6. ListsAt(RangeOf(side, o), edges, ids[o], dict, ids, outgoing)
    BY DEF IsSide
  <2> QED
    BY <2>1, <2>3, <2>5, <2>6
<1>3. ASSUME NEW o \in 0..(size - 1), NEW i \in DOMAIN RangeOf(side, o), a \in ToSet(labels[o]), RangeOf(side, o)[i].label = c
      PROVE  \E e \in Kept : Near(e, outgoing) = ids[o] /\ e.id = RangeOf(side, o)[i].id
  <2> DEFINE list == RangeOf(side, o)
  <2>1. DOMAIN list = 1..Len(list) /\ \A j \in 1..Len(list) :
           \E row \in edges : Near(row, outgoing) = ids[o] /\ IsEntry(list[j], row, dict, ids, outgoing)
    BY <1>2 DEF ListsAt
  <2>2. PICK e \in edges : Near(e, outgoing) = ids[o] /\ IsEntry(list[i], e, dict, ids, outgoing)
    <3> HIDE DEF list
    <3> QED
      BY <2>1 DEF list
  <2>3. e.id = list[i].id /\ e.label = dict[c]
    BY <1>3, <2>2 DEF IsEntry
  <2>4. PICK v \in vertices : v.id = ids[o] /\ Known(v.labels, dict[a])
    BY <1>2, <1>3
  <2>5. e \in Kept
    BY <2>2, <2>3, <2>4 DEF Among
  <2> QED
    BY <2>2, <2>3, <2>5
<1>4. ASSUME NEW e \in Kept
      PROVE  \E o \in 0..(size - 1) : \E i \in DOMAIN RangeOf(side, o) :
                  /\ a \in ToSet(labels[o]) /\ RangeOf(side, o)[i].label = c
                  /\ Near(e, outgoing) = ids[o] /\ e.id = RangeOf(side, o)[i].id
  <2>1. e \in edges /\ e.label = dict[c]
    BY DEF Among
  <2>2. PICK w \in vertices : w.id = Near(e, outgoing) /\ Known(w.labels, dict[a])
    BY DEF Among
  <2>3. PICK o \in 0..(size - 1) : ids[o] = Near(e, outgoing)
    BY <2>1 DEF IsSide
  <2> DEFINE list == RangeOf(side, o)
  <2>4. PICK v \in vertices : v.id = ids[o] /\ (a \in ToSet(labels[o]) <=> Known(v.labels, dict[a]))
    BY <1>2
  <2>5. v = w
    BY <2>2, <2>3, <2>4 DEF IsSide
  <2>6. ListsAt(list, edges, ids[o], dict, ids, outgoing)
    BY <1>2
  <2> HIDE DEF list
  <2>7. PICK i \in 1..Len(list) : IsEntry(list[i], e, dict, ids, outgoing)
    BY <2>1, <2>3, <2>6 DEF ListsAt
  <2>8. i \in DOMAIN list /\ e.id = list[i].id /\ list[i].label \in 1..Len(dict) /\ dict[list[i].label] = dict[c]
    BY <2>1, <2>6, <2>7 DEF ListsAt, IsEntry
  <2>9. list[i].label = c
    BY <1>1, <2>8
  <2> QED
    BY <2>2, <2>3, <2>4, <2>5, <2>8, <2>9 DEF list
<1> HIDE DEF Kept
<1>5. HaveEdges(side, labels, size, ids, a, c, Kept, outgoing)
  BY <1>3, <1>4 DEF HaveEdges
<1> QED
  BY <1>5 DEF Kept

(* A side holds as many edges between these labels as the graph has, and at as many vertices. *)
SideCounts(side, labels, size, dict, vertices, edges, a, c, outgoing) ==
  LET among == Among(vertices, edges, dict[a], dict[c], outgoing)
  IN  /\ Cardinality(PlacesTo(side, labels, size, a, c)) = Cardinality(among)
      /\ Cardinality(VerticesTo(side, labels, size, a, c)) = Cardinality({Near(e, outgoing) : e \in among})

(* So there are as many places as edges, and as many vertices counted as have one. *)
LEMMA SideCounted ==
  ASSUME NEW side, NEW labels, NEW size, NEW ids, NEW dict, NEW vertices, NEW edges, NEW outgoing,
         IsSide(side, labels, size, ids, dict, vertices, edges, outgoing),
         NEW a \in 1..Len(dict), NEW c \in 1..Len(dict), IsFiniteSet(PlacesTo(side, labels, size, a, c))
  PROVE  SideCounts(side, labels, size, dict, vertices, edges, a, c, outgoing)
<1> DEFINE Kept == Among(vertices, edges, dict[a], dict[c], outgoing)
           Ends == {Near(e, outgoing) : e \in Kept}
           P == PlacesTo(side, labels, size, a, c)
           V == VerticesTo(side, labels, size, a, c)
           R == {y \in P \X Kept : Near(y[2], outgoing) = ids[y[1][1]] /\ y[2].id = RangeOf(side, y[1][1])[y[1][2]].id}
           Q == {y \in V \X Ends : y[2] = ids[y[1]]}
<1>1. \A o \in 0..(size - 1) : ListsAt(RangeOf(side, o), edges, ids[o], dict, ids, outgoing)
  BY DEF IsSide
<1>2. \A o \in 0..(size - 1) :
         /\ DOMAIN EdgeLabelsAt(side, o) = DOMAIN RangeOf(side, o)
         /\ \A i \in DOMAIN RangeOf(side, o) : EdgeLabelsAt(side, o)[i] = RangeOf(side, o)[i].label
  <2>1. IsDict(dict)
    BY DEF IsSide
  <2> QED
    BY <1>1, <2>1, EdgeLabelsListed
<1>3. \A o, p \in 0..(size - 1) : ids[o] = ids[p] => o = p
  <2>1. size \in Nat /\ ids \in [0..(size - 1) -> Nat] /\ \A i, j \in 0..(size - 1) : i < j => ids[i] < ids[j]
    BY DEF IsSide, AscendingIds
  <2> SUFFICES ASSUME NEW o \in 0..(size - 1), NEW p \in 0..(size - 1), ids[o] = ids[p] PROVE o = p
    OBVIOUS
  <2>2. ids[o] \in Nat /\ ids[p] \in Nat
    BY <2>1
  <2>3. ~(o < p) /\ ~(p < o)
    BY <2>1, <2>2
  <2> QED
    BY <2>1, <2>3
<1>4. /\ \A o \in 0..(size - 1) : \A i \in DOMAIN RangeOf(side, o) :
            a \in ToSet(labels[o]) /\ RangeOf(side, o)[i].label = c =>
               \E e \in Kept : Near(e, outgoing) = ids[o] /\ e.id = RangeOf(side, o)[i].id
      /\ \A e \in Kept :
            \E o \in 0..(size - 1) : \E i \in DOMAIN RangeOf(side, o) :
               /\ a \in ToSet(labels[o]) /\ RangeOf(side, o)[i].label = c
               /\ Near(e, outgoing) = ids[o] /\ e.id = RangeOf(side, o)[i].id
  <2>1. HaveEdges(side, labels, size, ids, a, c, Kept, outgoing)
    BY PlacesAreEdges
  <2> HIDE DEF Kept
  <2> QED
    BY <2>1 DEF HaveEdges
<1>5. \A e, f \in Kept : e.id = f.id => e = f
  BY DEF Among, IsSide
<1>6. \A x \in P : /\ x[1] \in 0..(size - 1) /\ x[2] \in DOMAIN RangeOf(side, x[1]) /\ x = <<x[1], x[2]>>
                   /\ a \in ToSet(labels[x[1]]) /\ RangeOf(side, x[1])[x[2]].label = c
  <2> SUFFICES ASSUME NEW x \in P
               PROVE  /\ x[1] \in 0..(size - 1) /\ x[2] \in DOMAIN RangeOf(side, x[1]) /\ x = <<x[1], x[2]>>
                      /\ a \in ToSet(labels[x[1]]) /\ RangeOf(side, x[1])[x[2]].label = c
    OBVIOUS
  <2>1. PICK o \in 0..(size - 1) : x \in PlacesAt(side, labels, o, a, c)
    BY DEF PlacesTo
  <2>2. /\ a \in ToSet(labels[o]) /\ x[1] = o /\ x[2] \in DOMAIN EdgeLabelsAt(side, o) /\ x = <<x[1], x[2]>>
        /\ EdgeLabelsAt(side, o)[x[2]] = c
    BY <2>1 DEF PlacesAt
  <2> QED
    BY <1>2, <2>2
<1>7. \A o \in 0..(size - 1) : \A i \in DOMAIN RangeOf(side, o) :
         a \in ToSet(labels[o]) /\ RangeOf(side, o)[i].label = c => <<o, i>> \in P
  <2> SUFFICES ASSUME NEW o \in 0..(size - 1), NEW i \in DOMAIN RangeOf(side, o),
                      a \in ToSet(labels[o]), RangeOf(side, o)[i].label = c
               PROVE  <<o, i>> \in P
    OBVIOUS
  <2>1. i \in DOMAIN EdgeLabelsAt(side, o) /\ EdgeLabelsAt(side, o)[i] = c
    BY <1>2
  <2>2. <<o, i>> \in PlacesAt(side, labels, o, a, c)
    BY <2>1 DEF PlacesAt
  <2> QED
    BY <2>2 DEF PlacesTo
<1>8. \A o : o \in V <=> /\ o \in 0..(size - 1) /\ a \in ToSet(labels[o])
                         /\ \E i \in DOMAIN RangeOf(side, o) : RangeOf(side, o)[i].label = c
  <2> SUFFICES ASSUME NEW o \in 0..(size - 1)
               PROVE  c \in ToSet(EdgeLabelsAt(side, o)) <=> \E i \in DOMAIN RangeOf(side, o) : RangeOf(side, o)[i].label = c
    BY DEF VerticesTo
  <2> QED
    BY <1>2 DEF ToSet
<1>9. IsFiniteSet(V) /\ IsFiniteSet(P)
  <2>1. V \subseteq 0..(size - 1)
    BY DEF VerticesTo
  <2>2. IsFiniteSet(0..(size - 1))
    BY FS_Interval DEF IsSide
  <2> QED
    BY <2>1, <2>2, FS_Subset
<1> HIDE DEF P, V, Kept
<1>10. \A x \in P, e \in Kept :
          <<x, e>> \in R <=> Near(e, outgoing) = ids[x[1]] /\ e.id = RangeOf(side, x[1])[x[2]].id
  OBVIOUS
<1>11. \A o \in V, id \in Ends : <<o, id>> \in Q <=> id = ids[o]
  <2> HIDE DEF Ends
  <2> QED
    OBVIOUS
<1>12. \A id : id \in Ends <=> \E e \in Kept : Near(e, outgoing) = id
  OBVIOUS
<1> HIDE DEF R, Q, Ends
<1>13. IsMatching(P, Kept, R)
  <2>1. \A x \in P : \E e \in Kept : <<x, e>> \in R
    BY <1>4, <1>6, <1>10
  <2>2. ASSUME NEW e \in Kept PROVE \E x \in P : <<x, e>> \in R
    <3>1. PICK o \in 0..(size - 1) : \E i \in DOMAIN RangeOf(side, o) :
               /\ a \in ToSet(labels[o]) /\ RangeOf(side, o)[i].label = c
               /\ Near(e, outgoing) = ids[o] /\ e.id = RangeOf(side, o)[i].id
      BY <1>4
    <3>2. PICK i \in DOMAIN RangeOf(side, o) :
               /\ a \in ToSet(labels[o]) /\ RangeOf(side, o)[i].label = c
               /\ Near(e, outgoing) = ids[o] /\ e.id = RangeOf(side, o)[i].id
      BY <3>1
    <3>3. <<o, i>> \in P /\ <<o, i>>[1] = o /\ <<o, i>>[2] = i
      BY <1>7, <3>2
    <3> QED
      BY <1>10, <3>2, <3>3
  <2>3. ASSUME NEW x \in P, NEW z \in P, NEW e \in Kept, <<x, e>> \in R, <<z, e>> \in R PROVE x = z
    <3>1. x[1] = z[1]
      BY <1>3, <1>6, <1>10, <2>3
    <3>2. RangeOf(side, x[1])[x[2]].id = RangeOf(side, x[1])[z[2]].id
      BY <1>10, <2>3, <3>1
    <3>3. x[2] = z[2]
      <4> DEFINE list == RangeOf(side, x[1])
      <4>1. x[1] \in 0..(size - 1) /\ x[2] \in DOMAIN list /\ z[2] \in DOMAIN list
        BY <1>6, <3>1
      <4>2. DOMAIN list = 1..Len(list) /\ \A i, j \in 1..Len(list) : list[i].id = list[j].id => i = j
        BY <1>1, <4>1 DEF ListsAt
      <4> HIDE DEF list
      <4>3. list[x[2]].id = list[z[2]].id
        BY <3>2 DEF list
      <4> QED
        BY <4>1, <4>2, <4>3
    <3> QED
      BY <1>6, <3>1, <3>3
  <2>4. \A x \in P, y, z \in Kept : <<x, y>> \in R /\ <<x, z>> \in R => y = z
    BY <1>5, <1>10
  <2> QED
    BY <2>1, <2>2, <2>3, <2>4 DEF IsMatching
<1>14. IsMatching(V, Ends, Q)
  <2>1. ASSUME NEW o \in V PROVE \E id \in Ends : <<o, id>> \in Q
    <3>1. PICK i \in DOMAIN RangeOf(side, o) : RangeOf(side, o)[i].label = c
      BY <1>8
    <3>2. PICK e \in Kept : Near(e, outgoing) = ids[o]
      BY <1>4, <1>8, <3>1
    <3> QED
      BY <1>11, <1>12, <3>2
  <2>2. ASSUME NEW id \in Ends PROVE \E o \in V : <<o, id>> \in Q
    <3>1. PICK e \in Kept : Near(e, outgoing) = id
      BY <1>12
    <3>2. PICK o \in 0..(size - 1) : \E i \in DOMAIN RangeOf(side, o) :
               /\ a \in ToSet(labels[o]) /\ RangeOf(side, o)[i].label = c
               /\ Near(e, outgoing) = ids[o] /\ e.id = RangeOf(side, o)[i].id
      BY <1>4
    <3>3. o \in V
      BY <1>8, <3>2
    <3> QED
      BY <1>11, <3>1, <3>2, <3>3
  <2>3. \A o, p \in V, id \in Ends : <<o, id>> \in Q /\ <<p, id>> \in Q => o = p
    BY <1>3, <1>8, <1>11
  <2>4. \A o \in V, x, y \in Ends : <<o, x>> \in Q /\ <<o, y>> \in Q => x = y
    BY <1>11
  <2> QED
    BY <2>1, <2>2, <2>3, <2>4 DEF IsMatching
<1>15. Cardinality(Kept) = Cardinality(P) /\ Cardinality(Ends) = Cardinality(V)
  BY <1>9, <1>13, <1>14, CountMatched
<1> QED
  BY <1>15, Zenon DEF P, V, Kept, Ends, SideCounts

(* The statistics of a snapshot count the edges of a label at the vertices of a label, and
   these vertices, in both directions; or there are none. *)
FanoutOf(snapshot, vertices, edges) ==
  /\ snapshot.fanout \in Stats
  /\ snapshot.fanout.has =>
        \A a, c \in 1..Len(snapshot.dict), way \in Ways :
           LET among == Among(vertices, edges, snapshot.dict[a], snapshot.dict[c], way = "out")
           IN  /\ EdgesIn(snapshot.fanout, a, c, way) = Cardinality(among)
               /\ VerticesIn(snapshot.fanout, a, c, way) = Cardinality({Near(e, way = "out") : e \in among})

(* The statistics CollectFanout starts from. *)
NothingCounted == [has |-> TRUE, pairs |-> NoPairs]

(* They count nothing. *)
LEMMA NothingTyped ==
  /\ NothingCounted \in Stats
  /\ \A a, c, way : way \in Ways => EdgesIn(NothingCounted, a, c, way) = 0 /\ VerticesIn(NothingCounted, a, c, way) = 0
<1>1. NoPairs \in [{} -> Counts] /\ {} \in SUBSET LabelPairs /\ DOMAIN NoPairs = {}
  BY DEF NoPairs
<1>2. NothingCounted \in Stats
  BY <1>1 DEF NothingCounted, Stats
<1>3. \A a, c : CountsOf(NothingCounted, a, c) = NoCounts
  BY <1>1 DEF NothingCounted, CountsOf
<1> QED
  BY <1>2, <1>3, NoCountsTyped DEF EdgesIn, VerticesIn

(* Both directions of a snapshot of some tables are such sides. *)
LEMMA SidesOfSnapshot ==
  ASSUME NEW vertices, NEW edges, IsTables(vertices, edges), NEW snapshot, SnapshotOf(snapshot, vertices, edges),
         DOMAIN snapshot.vertexLabels = 0..(snapshot.size - 1), NEW outgoing \in BOOLEAN
  PROVE  IsSide(SideOf(snapshot, outgoing), snapshot.vertexLabels, snapshot.size, snapshot.ids, snapshot.dict,
                ToSet(vertices), ToSet(edges), outgoing)
<1>1. /\ DOMAIN vertices = 1..Len(vertices) /\ DOMAIN edges = 1..Len(edges)
      /\ \A i, j \in 1..Len(vertices) : vertices[i].id = vertices[j].id => i = j
      /\ \A i, j \in 1..Len(edges) : edges[i].id = edges[j].id => i = j
      /\ \A k \in 1..Len(edges) :
            {edges[k].source, edges[k].target} \subseteq {vertices[i].id : i \in 1..Len(vertices)}
  BY TablesTyped
<1>2. \A v, w \in ToSet(vertices) : v.id = w.id => v = w
  BY <1>1 DEF ToSet
<1>3. \A e, f \in ToSet(edges) : e.id = f.id => e = f
  BY <1>1 DEF ToSet
<1>4. ASSUME NEW e \in ToSet(edges) PROVE \E o \in 0..(snapshot.size - 1) : snapshot.ids[o] = Near(e, outgoing)
  <2>1. PICK k \in 1..Len(edges) : e = edges[k]
    BY <1>1 DEF ToSet
  <2>2. Near(e, outgoing) \in {vertices[i].id : i \in 1..Len(vertices)}
    BY <1>1, <2>1 DEF Near
  <2>3. \E v \in ToSet(vertices) : v.id = Near(e, outgoing)
    BY <1>1, <2>2 DEF ToSet
  <2> QED
    BY <2>3 DEF SnapshotOf
<1>5. /\ snapshot.size \in Nat /\ AscendingIds(snapshot.ids, snapshot.size) /\ IsDict(snapshot.dict)
      /\ \A o \in 0..(snapshot.size - 1) :
            \E v \in ToSet(vertices) : v.id = snapshot.ids[o] /\ LabelledAs(snapshot.vertexLabels[o], v.labels, snapshot.dict)
      /\ \A o \in 0..(snapshot.size - 1) :
            ListsAt(RangeOf(SideOf(snapshot, outgoing), o), ToSet(edges), snapshot.ids[o], snapshot.dict,
                    snapshot.ids, outgoing)
  BY DEF SnapshotOf
<1> QED
  BY <1>2, <1>3, <1>4, <1>5, Zenon DEF IsSide

(* A list of elements of a set is one of a greater set. *)
LEMMA SeqGrows ==
  ASSUME NEW X, NEW Y, X \subseteq Y, NEW s \in Seq(X)
  PROVE  s \in Seq(Y)
<1>1. s \in [1..Len(s) -> X] /\ Len(s) \in Nat
  OBVIOUS
<1>2. s \in [1..Len(s) -> Y]
  BY <1>1
<1> QED
  BY <1>1, <1>2

(* CollectFanout can count such a side. *)
LEMMA SideCountable ==
  ASSUME NEW side, NEW labels, NEW size, NEW ids, NEW dict, NEW vertices, NEW edges, NEW outgoing,
         IsSide(side, labels, size, ids, dict, vertices, edges, outgoing)
  PROVE  IsCountable(side, labels, size)
<1>1. DOMAIN labels = 0..(size - 1) /\ IsDict(dict) /\ Len(dict) \in Nat
  BY DEF IsSide, IsDict
<1>2. ASSUME NEW o \in 0..(size - 1) PROVE Once(labels[o]) /\ EdgeLabelsAt(side, o) \in Seq(Nat)
  <2>1. ListsAt(RangeOf(side, o), edges, ids[o], dict, ids, outgoing)
    BY DEF IsSide
  <2>2. EdgeLabelsAt(side, o) \in Seq(Nat)
    BY <1>1, <2>1, EdgeLabelsListed
  <2>3. PICK v \in vertices : LabelledAs(labels[o], v.labels, dict)
    BY DEF IsSide
  <2>4. labels[o] \in Seq(1..Len(dict)) /\ \A i, j \in 1..Len(labels[o]) : labels[o][i] = labels[o][j] => i = j
    BY <2>3 DEF LabelledAs, IsIds
  <2>5. labels[o] \in Seq(Nat)
    <3>1. 1..Len(dict) \subseteq Nat
      BY <1>1
    <3> QED
      BY <2>4, <3>1, SeqGrows, Zenon
  <2> QED
    BY <2>2, <2>4, <2>5 DEF Once
<1> QED
  BY <1>1, <1>2 DEF IsCountable

(* The statistics BuildTableSnapshot collects, the edges that leave a vertex first. *)
LEMMA BuiltFanout ==
  ASSUME NEW vertices, NEW edges, IsTables(vertices, edges)
  PROVE  FanoutOf(BuildTableSnapshot(vertices, edges), ToSet(vertices), ToSet(edges))
<1> DEFINE snapshot == BuildTableSnapshot(vertices, edges)
           labels == snapshot.vertexLabels
           size == snapshot.size
           dict == snapshot.dict
           first == CollectFanout(NothingCounted, snapshot.out, labels, "out")
           stats == CollectFanout(first, snapshot.in, labels, "in")
           Kept(a, c, way) == Among(ToSet(vertices), ToSet(edges), dict[a], dict[c], way = "out")
<1>1. snapshot.fanout = stats
  BY Zenon DEF BuildTableSnapshot, NothingCounted
<1>2. DOMAIN labels = 0..(size - 1)
  <2> DEFINE sorted == OrderedById(vertices)
  <2>1. /\ size = Len(sorted)
        /\ labels = [o \in 0..(Len(sorted) - 1) |-> LabelIdsOf(VertexDict(sorted), sorted[o + 1].labels)]
    BY DEF BuildTableSnapshot
  <2> HIDE DEF sorted, snapshot
  <2> QED
    BY <2>1
<1>3. SnapshotOf(snapshot, vertices, edges)
  BY SnapshotExact
<1>4. size \in Nat /\ IsDict(dict) /\ Len(dict) \in Nat
  BY <1>3 DEF SnapshotOf, IsDict
<1> HIDE DEF snapshot
<1>5. /\ IsSide(snapshot.out, labels, size, snapshot.ids, dict, ToSet(vertices), ToSet(edges), TRUE)
      /\ IsSide(snapshot.in, labels, size, snapshot.ids, dict, ToSet(vertices), ToSet(edges), FALSE)
  <2>1. SideOf(snapshot, TRUE) = snapshot.out /\ SideOf(snapshot, FALSE) = snapshot.in
    BY DEF SideOf
  <2>2. \A outgoing \in BOOLEAN :
           IsSide(SideOf(snapshot, outgoing), labels, size, snapshot.ids, dict, ToSet(vertices), ToSet(edges), outgoing)
    BY <1>2, <1>3, SidesOfSnapshot
  <2> QED
    BY <2>1, <2>2
<1>6. IsCountable(snapshot.out, labels, size) /\ IsCountable(snapshot.in, labels, size)
  BY <1>5, SideCountable
<1> HIDE DEF labels, size, dict
<1>7. "out" \in Ways /\ "in" \in Ways /\ "out" # "in" /\ \A way \in Ways : way = "out" \/ way = "in"
  BY DEF Ways
<1>8. /\ CountedTo(first, NothingCounted, snapshot.out, labels, size, "out")
      /\ \A a, c \in Nat : IsFiniteSet(PlacesTo(snapshot.out, labels, size, a, c))
  BY <1>4, <1>6, <1>7, NothingTyped, CollectFanoutExact
<1>9. /\ CountedTo(stats, first, snapshot.in, labels, size, "in")
      /\ \A a, c \in Nat : IsFiniteSet(PlacesTo(snapshot.in, labels, size, a, c))
  <2>1. first \in Stats
    BY <1>8 DEF CountedTo
  <2> HIDE DEF first
  <2> QED
    BY <1>4, <1>6, <1>7, <2>1, CollectFanoutExact
<1> HIDE DEF first, stats
<1>10. ASSUME stats.has, NEW a \in 1..Len(dict), NEW c \in 1..Len(dict)
       PROVE  /\ EdgesIn(stats, a, c, "out") = Cardinality(Kept(a, c, "out"))
              /\ VerticesIn(stats, a, c, "out") = Cardinality({Near(e, TRUE) : e \in Kept(a, c, "out")})
              /\ EdgesIn(stats, a, c, "in") = Cardinality(Kept(a, c, "in"))
              /\ VerticesIn(stats, a, c, "in") = Cardinality({Near(e, FALSE) : e \in Kept(a, c, "in")})
  <2>1. a \in Nat /\ c \in Nat
    BY <1>4
  <2> DEFINE p == Cardinality(PlacesTo(snapshot.out, labels, size, a, c))
             q == Cardinality(PlacesTo(snapshot.in, labels, size, a, c))
             v == Cardinality(VerticesTo(snapshot.out, labels, size, a, c))
             u == Cardinality(VerticesTo(snapshot.in, labels, size, a, c))
  <2>2. ("out" = "out") = TRUE /\ ("in" = "out") = FALSE
    BY <1>7
  <2>3. /\ p = Cardinality(Kept(a, c, "out")) /\ v = Cardinality({Near(e, TRUE) : e \in Kept(a, c, "out")})
        /\ q = Cardinality(Kept(a, c, "in")) /\ u = Cardinality({Near(e, FALSE) : e \in Kept(a, c, "in")})
    <3>1. Kept(a, c, "out") = Among(ToSet(vertices), ToSet(edges), dict[a], dict[c], TRUE)
      BY <2>2
    <3>2. Kept(a, c, "in") = Among(ToSet(vertices), ToSet(edges), dict[a], dict[c], FALSE)
      BY <2>2
    <3>3. IsFiniteSet(PlacesTo(snapshot.out, labels, size, a, c)) /\ IsFiniteSet(PlacesTo(snapshot.in, labels, size, a, c))
      BY <1>8, <1>9, <2>1
    <3>4. /\ Cardinality(PlacesTo(snapshot.out, labels, size, a, c))
                 = Cardinality(Among(ToSet(vertices), ToSet(edges), dict[a], dict[c], TRUE))
          /\ Cardinality(VerticesTo(snapshot.out, labels, size, a, c))
                 = Cardinality({Near(e, TRUE) : e \in Among(ToSet(vertices), ToSet(edges), dict[a], dict[c], TRUE)})
      <4>1. SideCounts(snapshot.out, labels, size, dict, ToSet(vertices), ToSet(edges), a, c, TRUE)
        BY <1>5, <3>3, SideCounted
      <4> QED
        BY <4>1, Zenon DEF SideCounts
    <3>5. /\ Cardinality(PlacesTo(snapshot.in, labels, size, a, c))
                 = Cardinality(Among(ToSet(vertices), ToSet(edges), dict[a], dict[c], FALSE))
          /\ Cardinality(VerticesTo(snapshot.in, labels, size, a, c))
                 = Cardinality({Near(e, FALSE) : e \in Among(ToSet(vertices), ToSet(edges), dict[a], dict[c], FALSE)})
      <4>1. SideCounts(snapshot.in, labels, size, dict, ToSet(vertices), ToSet(edges), a, c, FALSE)
        BY <1>5, <3>3, SideCounted
      <4> QED
        BY <4>1, Zenon DEF SideCounts
    <3> HIDE DEF Kept
    <3> QED
      BY <3>1, <3>2, <3>4, <3>5 DEF p, q, u, v
  <2> HIDE DEF Kept
  <2>4. first.has /\ /\ EdgesIn(stats, a, c, "in") = EdgesIn(first, a, c, "in") + q
                     /\ VerticesIn(stats, a, c, "in") = VerticesIn(first, a, c, "in") + u
                     /\ EdgesIn(stats, a, c, "out") = EdgesIn(first, a, c, "out") + 0
                     /\ VerticesIn(stats, a, c, "out") = VerticesIn(first, a, c, "out") + 0
    BY <1>7, <1>9, <1>10, <2>1 DEF CountedTo
  <2>5. /\ EdgesIn(first, a, c, "out") = EdgesIn(NothingCounted, a, c, "out") + p
        /\ VerticesIn(first, a, c, "out") = VerticesIn(NothingCounted, a, c, "out") + v
        /\ EdgesIn(first, a, c, "in") = EdgesIn(NothingCounted, a, c, "in") + 0
        /\ VerticesIn(first, a, c, "in") = VerticesIn(NothingCounted, a, c, "in") + 0
    BY <1>7, <1>8, <2>1, <2>4 DEF CountedTo
  <2>6. /\ EdgesIn(NothingCounted, a, c, "out") = 0 /\ VerticesIn(NothingCounted, a, c, "out") = 0
        /\ EdgesIn(NothingCounted, a, c, "in") = 0 /\ VerticesIn(NothingCounted, a, c, "in") = 0
    BY <1>7, NothingTyped
  <2>7. p \in Nat /\ q \in Nat
    BY <1>8, <1>9, <2>1, FS_CardinalityType
  <2>8. u \in Nat /\ v \in Nat
    BY <1>4, <2>1, VerticesMore
  <2> HIDE DEF p, q, u, v
  <2>9. /\ EdgesIn(stats, a, c, "out") = p /\ VerticesIn(stats, a, c, "out") = v
        /\ EdgesIn(stats, a, c, "in") = q /\ VerticesIn(stats, a, c, "in") = u
    BY ONLY <2>4, <2>5, <2>6, <2>7, <2>8
  <2> QED
    BY <2>3, <2>9
<1>11. stats \in Stats
  BY <1>9 DEF CountedTo
<1>12. stats.has =>
         \A a, c \in 1..Len(dict), way \in Ways :
            /\ EdgesIn(stats, a, c, way) = Cardinality(Kept(a, c, way))
            /\ VerticesIn(stats, a, c, way) = Cardinality({Near(e, way = "out") : e \in Kept(a, c, way)})
  <2> SUFFICES ASSUME stats.has, NEW a \in 1..Len(dict), NEW c \in 1..Len(dict), NEW way \in Ways
               PROVE  /\ EdgesIn(stats, a, c, way) = Cardinality(Kept(a, c, way))
                      /\ VerticesIn(stats, a, c, way) = Cardinality({Near(e, way = "out") : e \in Kept(a, c, way)})
    OBVIOUS
  <2> HIDE DEF Kept
  <2>1. CASE way = "out"
    <3>1. {Near(e, way = "out") : e \in Kept(a, c, way)} = {Near(e, TRUE) : e \in Kept(a, c, "out")}
      <4>1. \A e : Near(e, way = "out") = Near(e, TRUE)
        BY <2>1 DEF Near
      <4> QED
        BY <2>1, <4>1
    <3> QED
      BY <1>10, <2>1, <3>1
  <2>2. CASE way = "in"
    <3>1. {Near(e, way = "out") : e \in Kept(a, c, way)} = {Near(e, FALSE) : e \in Kept(a, c, "in")}
      <4>1. \A e : Near(e, way = "out") = Near(e, FALSE)
        BY <1>7, <2>2 DEF Near
      <4> QED
        BY <2>2, <4>1
    <3> QED
      BY <1>10, <2>2, <3>1
  <2> QED
    BY <1>7, <2>1, <2>2
<1> QED
  BY <1>1, <1>11, <1>12 DEF FanoutOf, snapshot, dict

(* An empty delta adds rows only when there are none to add. *)
LEMMA NothingAdded ==
  ASSUME NEW g, IsGraph(g), NEW snapshot,
         SnapshotOf(snapshot, SubSeq(g.vertices, 1, g.old.vertices), SubSeq(g.edges, 1, g.old.edges)),
         AddsRest(snapshot, NoDelta, g.vertices, g.old.vertices, g.edges, g.old.edges)
  PROVE  SubSeq(g.edges, 1, g.old.edges) = g.edges
<1> DEFINE vertices == g.vertices
           edges == g.edges
           old == g.old.vertices
           from == g.old.edges
           first == SubSeq(vertices, 1, old)
           ids == AllIds(snapshot, NoDelta)
           rest == {edges[from + j] : j \in 1..(Len(edges) - from)}
<1>1. /\ vertices \in Seq(VertexRow) /\ edges \in Seq(EdgeRow) /\ Len(vertices) \in Nat /\ Len(edges) \in Nat
      /\ \A k \in 1..Len(edges) :
            {edges[k].source, edges[k].target} \subseteq {vertices[i].id : i \in 1..Len(vertices)}
      /\ old \in 0..Len(vertices) /\ from \in 0..Len(edges)
  <2>1. IsTables(vertices, edges) /\ old \in 0..Len(vertices) /\ from \in 0..Len(edges)
    BY DEF IsGraph
  <2> HIDE DEF vertices, edges, old, from
  <2> QED
    BY <2>1, TablesTyped
<1>2. Len(NoDelta.ids) = 0 /\ At(NoDelta.out, 0) = <<>> /\ \A o : DeltaList(NoDelta, o, TRUE) = <<>>
  BY DEF NoDelta, At, DeltaList
<1>3. /\ Len(NoDelta.ids) = Len(vertices) - old
      /\ \A o \in DOMAIN ids :
            ListsAt(DeltaList(NoDelta, o, TRUE), rest, ids[o], snapshot.dict, ids, TRUE)
  BY DEF AddsRest, AddsEdges
<1>4. snapshot.size \in Nat /\ \A v \in ToSet(first) : \E o \in 0..(snapshot.size - 1) : snapshot.ids[o] = v.id
  BY DEF SnapshotOf
<1>5. \A o \in 0..(snapshot.size - 1) : o \in DOMAIN ids /\ ids[o] = snapshot.ids[o]
  BY <1>2, <1>4, AllIdsExact
<1> HIDE DEF vertices, edges, old, from
<1>6. first = vertices
  <2>1. old = Len(vertices)
    BY <1>1, <1>2, <1>3
  <2> QED
    BY <1>1, <2>1
<1> HIDE DEF first, ids, rest
<1>7. from = Len(edges)
  <2> SUFFICES ASSUME from # Len(edges) PROVE FALSE
    OBVIOUS
  <2> DEFINE e == edges[from + 1]
  <2>1. from + 1 \in 1..Len(edges) /\ 1 \in 1..(Len(edges) - from)
    BY <1>1
  <2>2. e \in rest
    BY <2>1 DEF rest
  <2>3. PICK i \in 1..Len(vertices) : vertices[i].id = e.source
    BY <1>1, <2>1
  <2>4. DOMAIN vertices = 1..Len(vertices)
    BY <1>1
  <2>5. vertices[i] \in ToSet(first)
    BY <1>6, <2>4 DEF ToSet
  <2>6. PICK o \in 0..(snapshot.size - 1) : snapshot.ids[o] = e.source
    BY <1>4, <2>3, <2>5
  <2>7. o \in DOMAIN ids /\ ids[o] = e.source /\ Near(e, TRUE) = e.source
    BY <1>5, <2>6 DEF Near
  <2>8. ListsAt(<<>>, rest, ids[o], snapshot.dict, ids, TRUE)
    BY <1>2, <1>3, <2>7
  <2> HIDE DEF e
  <2>9. PICK j \in 1..Len(<<>>) : IsEntry(<<>>[j], e, snapshot.dict, ids, TRUE)
    BY <2>2, <2>7, <2>8 DEF ListsAt
  <2>10. 1..Len(<<>>) = {}
    OBVIOUS
  <2> QED
    BY <2>9, <2>10
<1>8. SubSeq(edges, 1, from) = edges
  BY <1>1, <1>7
<1> QED
  BY <1>8 DEF edges, from

(* The rows a snapshot was built from. *)
BuiltFrom(g, held) == IF held.delta = NoDelta THEN ToSet(g.edges) ELSE ToSet(SubSeq(g.edges, 1, g.old.edges))

(* The snapshot of a lease was built from these, and from vertices the graph still has. *)
BuiltOf(g, held, vertices, edges) ==
  /\ IsTables(vertices, edges)
  /\ held.snapshot = BuildTableSnapshot(vertices, edges)
  /\ ToSet(vertices) \subseteq ToSet(g.vertices)
  /\ BuiltFrom(g, held) = ToSet(edges)

(* Whether a delta catches it up or it is built anew. *)
LEMMA LeaseBuilt ==
  ASSUME NEW g, IsGraph(g)
  PROVE  \E vertices, edges : BuiltOf(g, LeaseOf(g), vertices, edges)
<1> DEFINE first == SubSeq(g.vertices, 1, g.old.vertices)
           prior == SubSeq(g.edges, 1, g.old.edges)
           old == BuildTableSnapshot(first, prior)
           caughtUp == ScanCsrDelta(old, g)
           d == CHOOSE d \in caughtUp : TRUE
           held == LeaseOf(g)
<1>1. /\ IsTables(g.vertices, g.edges) /\ IsTables(first, prior)
      /\ g.old.vertices \in 0..Len(g.vertices) /\ g.old.edges \in 0..Len(g.edges)
  BY DEF IsGraph
<1>2. held = IF caughtUp # {} THEN [snapshot |-> old, delta |-> d]
             ELSE [snapshot |-> BuildTableSnapshot(g.vertices, g.edges), delta |-> NoDelta]
  BY DEF LeaseOf
<1>3. CASE caughtUp # {}
  <2>1. held.snapshot = old /\ held.delta = d
    BY <1>2, <1>3
  <2>2. ToSet(first) \subseteq ToSet(g.vertices)
    <3>1. g.vertices \in Seq(VertexRow)
      BY <1>1, TablesTyped
    <3>2. DOMAIN first = 1..g.old.vertices /\ DOMAIN g.vertices = 1..Len(g.vertices) /\ Len(g.vertices) \in Nat
          /\ \A k \in 1..g.old.vertices : first[k] = g.vertices[k]
      BY <1>1, <3>1
    <3>3. \A k \in 1..g.old.vertices : k \in 1..Len(g.vertices)
      BY <1>1, <3>2
    <3> HIDE DEF first
    <3> QED
      BY <3>2, <3>3 DEF ToSet
  <2>3. d = NoDelta => prior = g.edges
    <3> SUFFICES ASSUME d = NoDelta PROVE prior = g.edges
      OBVIOUS
    <3>1. d \in ScanCsrDelta(old, g)
      BY <1>3
    <3>2. SnapshotOf(old, first, prior)
      BY <1>1, SnapshotExact
    <3> HIDE DEF d, old
    <3>3. AddsRest(old, d, g.vertices, g.old.vertices, g.edges, g.old.edges)
      BY <3>1, <3>2, ScanCsrDeltaExact
    <3>4. AddsRest(old, NoDelta, g.vertices, g.old.vertices, g.edges, g.old.edges)
      BY <3>3
    <3> QED
      BY <3>2, <3>4, NothingAdded
  <2> HIDE DEF held, d, caughtUp
  <2>4. BuiltFrom(g, held) = ToSet(prior)
    BY <2>1, <2>3, Zenon DEF BuiltFrom
  <2>5. BuiltOf(g, held, first, prior)
    <3> HIDE DEF first, prior
    <3> QED
      BY <1>1, <2>1, <2>2, <2>4 DEF BuiltOf
  <2> QED
    BY <2>5 DEF held
<1>4. CASE caughtUp = {}
  <2>1. held.snapshot = BuildTableSnapshot(g.vertices, g.edges) /\ held.delta = NoDelta
    BY <1>2, <1>4
  <2> HIDE DEF held
  <2>2. BuiltOf(g, held, g.vertices, g.edges)
    BY <1>1, <2>1 DEF BuiltOf, BuiltFrom
  <2> QED
    BY <2>2 DEF held
<1> QED
  BY <1>3, <1>4

(* The edges of a label at the vertices that have a label, among the rows of the graph. *)
Having(g, edges, a, c, outgoing) ==
  {e \in edges : /\ e.label = c
                 /\ a \in UNION {ToSet(v.labels) : v \in {v \in ToSet(g.vertices) : v.id = Near(e, outgoing)}}}

(* The ends of these edges are vertices the snapshot has, and a vertex keeps its labels:
   the labels the graph has for them now are those they were counted with. *)
LEMMA AmongHaving ==
  ASSUME NEW g, IsGraph(g), NEW vertices, NEW edges, IsTables(vertices, edges),
         ToSet(vertices) \subseteq ToSet(g.vertices), NEW a, NEW c, NEW outgoing \in BOOLEAN
  PROVE  Among(ToSet(vertices), ToSet(edges), a, c, outgoing) = Having(g, ToSet(edges), a, c, outgoing)
<1> DEFINE all == ToSet(g.vertices)
           olds == ToSet(vertices)
<1>1. /\ \A v, w \in all : v.id = w.id => v = w
      /\ \A v \in all : v.labels \in Seq(STRING)
  <2>1. IsTables(g.vertices, g.edges)
    BY DEF IsGraph
  <2>2. /\ g.vertices \in Seq(VertexRow)
        /\ DOMAIN g.vertices = 1..Len(g.vertices)
        /\ \A i, j \in 1..Len(g.vertices) : g.vertices[i].id = g.vertices[j].id => i = j
    BY <2>1, TablesTyped
  <2>3. \A k \in DOMAIN g.vertices : g.vertices[k].labels \in Seq(STRING)
    <3>1. \A k \in DOMAIN g.vertices : g.vertices[k] \in VertexRow
      BY <2>2
    <3> QED
      BY <3>1 DEF VertexRow
  <2>4. all = {g.vertices[k] : k \in DOMAIN g.vertices}
    BY DEF ToSet
  <2> QED
    BY <2>2, <2>3, <2>4
<1>2. \A v \in all : a \in ToSet(v.labels) <=> Known(v.labels, a)
  BY <1>1, ToSetKnown
<1>3. ASSUME NEW e \in ToSet(edges) PROVE \E v \in olds : v.id = Near(e, outgoing)
  <2>1. /\ DOMAIN vertices = 1..Len(vertices) /\ DOMAIN edges = 1..Len(edges)
        /\ \A k \in 1..Len(edges) :
              {edges[k].source, edges[k].target} \subseteq {vertices[i].id : i \in 1..Len(vertices)}
    BY TablesTyped
  <2>2. PICK k \in 1..Len(edges) : e = edges[k]
    BY <2>1 DEF ToSet
  <2>3. Near(e, outgoing) \in {vertices[i].id : i \in 1..Len(vertices)}
    BY <2>1, <2>2 DEF Near
  <2> QED
    BY <2>1, <2>3 DEF ToSet
<1>4. olds \subseteq all
  OBVIOUS
<1> HIDE DEF all, olds
<1>5. ASSUME NEW e \in ToSet(edges)
      PROVE  (\E v \in olds : v.id = Near(e, outgoing) /\ Known(v.labels, a))
                 <=> a \in UNION {ToSet(v.labels) : v \in {v \in all : v.id = Near(e, outgoing)}}
  <2>1. PICK w \in olds : w.id = Near(e, outgoing)
    BY <1>3
  <2>2. {v \in all : v.id = Near(e, outgoing)} = {w}
    BY <1>1, <1>4, <2>1
  <2>3. UNION {ToSet(v.labels) : v \in {v \in all : v.id = Near(e, outgoing)}} = ToSet(w.labels)
    BY <2>2
  <2>4. (\E v \in olds : v.id = Near(e, outgoing) /\ Known(v.labels, a)) <=> Known(w.labels, a)
    BY <1>1, <1>4, <2>1
  <2> QED
    BY <1>2, <1>4, <2>1, <2>3, <2>4
<1> QED
  BY <1>5 DEF Among, Having, all, olds

(* The statistics of a lease say how many of the edges its snapshot was built from the
   vertices of a label have, and how many of the vertices have one; or there are none. *)
FanoutShows(g, held) ==
  /\ IsDict(held.snapshot.dict)
  /\ held.snapshot.fanout \in Stats
  /\ held.snapshot.fanout.has =>
        \A a, c \in 1..Len(held.snapshot.dict), way \in Ways :
           LET having == Having(g, BuiltFrom(g, held), held.snapshot.dict[a], held.snapshot.dict[c], way = "out")
           IN  /\ EdgesIn(held.snapshot.fanout, a, c, way) = Cardinality(having)
               /\ VerticesIn(held.snapshot.fanout, a, c, way)
                      = Cardinality({Near(e, way = "out") : e \in having})

(* CollectFanout, whatever part of the graph is in the delta (collect_degree_stats). *)
THEOREM FanoutExact ==
  ASSUME NEW g, IsGraph(g)
  PROVE  FanoutShows(g, LeaseOf(g))
<1> DEFINE held == LeaseOf(g)
           snapshot == held.snapshot
           dict == snapshot.dict
           fanout == snapshot.fanout
<1>1. PICK vertices, edges : BuiltOf(g, held, vertices, edges)
  BY LeaseBuilt
<1> HIDE DEF held
<1>2. /\ IsTables(vertices, edges) /\ snapshot = BuildTableSnapshot(vertices, edges)
      /\ ToSet(vertices) \subseteq ToSet(g.vertices) /\ BuiltFrom(g, held) = ToSet(edges)
  BY <1>1 DEF BuiltOf
<1>3. SnapshotOf(snapshot, vertices, edges) /\ FanoutOf(snapshot, ToSet(vertices), ToSet(edges))
  BY <1>2, SnapshotExact, BuiltFanout
<1>4. IsDict(dict) /\ fanout \in Stats
  BY <1>3 DEF SnapshotOf, FanoutOf
<1>5. ASSUME fanout.has, NEW a \in 1..Len(dict), NEW c \in 1..Len(dict), NEW way \in Ways
      PROVE  LET having == Having(g, BuiltFrom(g, held), dict[a], dict[c], way = "out")
             IN  /\ EdgesIn(fanout, a, c, way) = Cardinality(having)
                 /\ VerticesIn(fanout, a, c, way) = Cardinality({Near(e, way = "out") : e \in having})
  <2> DEFINE among == Among(ToSet(vertices), ToSet(edges), dict[a], dict[c], way = "out")
  <2>1. /\ EdgesIn(fanout, a, c, way) = Cardinality(among)
        /\ VerticesIn(fanout, a, c, way) = Cardinality({Near(e, way = "out") : e \in among})
    BY <1>3, <1>5, Zenon DEF FanoutOf
  <2>2. (way = "out") \in BOOLEAN
    OBVIOUS
  <2> HIDE DEF snapshot
  <2>3. among = Having(g, ToSet(edges), dict[a], dict[c], way = "out")
    <3>1. \A outgoing \in BOOLEAN :
             Among(ToSet(vertices), ToSet(edges), dict[a], dict[c], outgoing)
                 = Having(g, ToSet(edges), dict[a], dict[c], outgoing)
      BY <1>2, AmongHaving
    <3> QED
      BY <2>2, <3>1, Zenon DEF among
  <2>4. among = Having(g, BuiltFrom(g, held), dict[a], dict[c], way = "out")
    BY <1>2, <2>3
  <2> HIDE DEF among
  <2> QED
    BY <2>1, <2>4, Zenon
<1>6. FanoutShows(g, held)
  BY <1>4, <1>5, Zenon DEF FanoutShows
<1> QED
  BY <1>6 DEF held
=============================================================================
