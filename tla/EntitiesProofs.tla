--------------------------- MODULE EntitiesProofs ---------------------------
(* Theorems about the components that MCEntities runs side by side: the         *)
(* clusters, the persons, the smart views and the moments; and about the        *)
(* properties its run checks, which say the same of the side-by-side behaviour. *)
EXTENDS MCEntities, TLAPS, FiniteSetTheorems, FunctionTheorems, WellFoundedInduction

\* A set of naturals that is not empty has a least member, and a bounded one a greatest.
LEMMA Least == ASSUME NEW S \in SUBSET Nat, S # {} PROVE \E x \in S : \A y \in S : x <= y
<1> DEFINE R == OpToRel(<, Nat)
<1>1. IsWellFoundedOn(R, Nat)
  BY NatLessThanWellFounded
<1>2. PICK x \in S : \A y \in S : <<y, x>> \notin R
  <2> HIDE DEF R
  <2>1. S \subseteq Nat /\ S # {}
    OBVIOUS
  <2> QED BY ONLY <1>1, <2>1, WFMin, Zenon
<1>3. \A y \in S : <<y, x>> \in Nat \X Nat
  BY <1>2
<1>4. \A y \in S : ~(y < x)
  BY <1>2, <1>3 DEF OpToRel
<1> HIDE DEF R
<1> QED BY <1>2, <1>4

LEMMA Greatest ==
    ASSUME NEW n \in Nat, NEW S \in SUBSET (0..n), S # {} PROVE \E x \in S : \A y \in S : y <= x
<1> DEFINE T == {n - x : x \in S}
<1>1. \A x \in S : n - x \in Nat
  OBVIOUS
<1>2. T \in SUBSET Nat /\ T # {}
  BY <1>1
<1>3. PICK t \in T : \A u \in T : t <= u
  BY <1>2, Least
<1>4. PICK x \in S : t = n - x
  BY <1>3
<1>5. \A y \in S : n - x <= n - y
  BY <1>3, <1>4
<1> QED BY <1>4, <1>5

-----------------------------------------------------------------------------
(* The clusters.  First the arithmetic of the blocks and of the progress.      *)

LEMMA DivBounds == ASSUME NEW x \in Nat, NEW d \in Nat \ {0}
                   PROVE  /\ x \div d \in Nat /\ d * (x \div d) <= x /\ x < d * (x \div d) + d
OBVIOUS

LEMMA BlocksTile ==
    /\ workers \in Nat \ {0} /\ rowsPerWorker \in Nat \ {0} /\ workers * rowsPerWorker >= N
<1>1. workers \in Nat \ {0} /\ N + workers - 1 \in Nat
  BY FacesAreThere DEF workers
<1> DEFINE w == workers
           r == rowsPerWorker
<1>2. r \in Nat /\ N + w - 1 < w * r + w
  <2> HIDE DEF w
  <2>1. r = (N + w - 1) \div w
    BY DEF r, rowsPerWorker, w
  <2> HIDE DEF r
  <2> QED BY <1>1, <2>1, DivBounds DEF w
<1> HIDE DEF w, r
<1>3. w * r >= N
  BY <1>1, <1>2, FacesAreThere DEF w
<1>4. r # 0
  BY <1>1, <1>3, FacesAreThere DEF w
<1> QED BY <1>1, <1>2, <1>3, <1>4 DEF w, r

LEMMA BlocksMonotone == ASSUME NEW a \in Int, NEW b \in Int, a <= b, NEW r \in Nat PROVE a * r <= b * r
<1>1. (b - a) * r >= 0
  OBVIOUS
<1> QED BY <1>1

\* Every row is in one block, and in no other.
LEMMA BlocksApart ==
    ASSUME NEW v \in 1..workers, NEW w \in 1..workers, NEW i \in Lo(v)..Hi(v), i \in Lo(w)..Hi(w) PROVE v = w
<1> DEFINE r == rowsPerWorker
<1>1. r \in Nat /\ v \in Int /\ w \in Int /\ N \in Nat
  BY BlocksTile, FacesAreThere
<1>2. i \in Int /\ (v - 1) * r < i /\ i <= v * r /\ (w - 1) * r < i /\ i <= w * r
  BY <1>1, FacesAreThere DEF Lo, Hi
<1> HIDE DEF r
<1>3. v <= w - 1 => v * r <= (w - 1) * r
  BY <1>1, BlocksMonotone
<1>4. w <= v - 1 => w * r <= (v - 1) * r
  BY <1>1, BlocksMonotone
<1>5. v * r \in Int /\ w * r \in Int /\ (v - 1) * r \in Int /\ (w - 1) * r \in Int
  BY <1>1
<1> QED BY <1>1, <1>2, <1>3, <1>4, <1>5

LEMMA BlocksCover == ASSUME NEW i \in Points PROVE \E w \in 1..workers : i \in Lo(w)..Hi(w)
<1> DEFINE r == rowsPerWorker
           q == (i - 1) \div r
           w == q + 1
<1>1. r \in Nat \ {0} /\ i \in Nat /\ i - 1 \in Nat /\ i <= N /\ N \in Nat /\ workers \in Nat /\ workers * r >= N
  BY BlocksTile, FacesAreThere DEF Points
<1> HIDE DEF r
<1>2. q \in Nat /\ r * q <= i - 1 /\ i - 1 < r * q + r
  BY <1>1, DivBounds
<1> HIDE DEF q
<1>3. w \in Nat \ {0} /\ (w - 1) * r = r * q /\ w * r = r * q + r
  BY <1>1, <1>2
<1>4. w <= workers
  <2>1. SUFFICES ASSUME workers <= w - 1 PROVE FALSE
    BY <1>1, <1>3
  <2>2. workers * r <= (w - 1) * r
    BY <1>1, <1>3, <2>1, BlocksMonotone
  <2>3. workers * r \in Int /\ r * q \in Int
    BY <1>1, <1>2
  <2> QED BY <1>1, <1>2, <1>3, <2>2, <2>3
<1>5. Lo(w) <= i /\ i <= Hi(w) /\ Lo(w) \in Int /\ Hi(w) \in Int
  BY <1>1, <1>2, <1>3 DEF Lo, Hi, r
<1> QED BY <1>1, <1>3, <1>4, <1>5

LEMMA BucketsClimb ==
    ASSUME NEW a \in 0..N, NEW b \in 0..N
    PROVE  /\ bucket(a) \in Nat /\ bucket(a) <= Buckets /\ (bucket(a) = Buckets <=> a = N)
           /\ bucket(a) < bucket(b) => a < b
<1> DEFINE A == a * Buckets
           B == b * Buckets
<1>1. N \in Nat \ {0} /\ Buckets \in Nat \ {0} /\ A \in Nat /\ B \in Nat
  BY FacesAreThere
<1>2. bucket(a) = A \div N /\ bucket(b) = B \div N
  BY DEF bucket
<1>3. A <= N * Buckets
  BY FacesAreThere, BlocksMonotone
<1>4. b <= a => B <= A
  BY FacesAreThere, BlocksMonotone
<1>5. a <= N - 1 => A <= N * Buckets - Buckets
  <2>1. a <= N - 1 => A <= (N - 1) * Buckets
    BY FacesAreThere, BlocksMonotone
  <2> QED BY <1>1, <2>1
<1>6. a = N => A = N * Buckets
  OBVIOUS
<1> HIDE DEF A, B
<1> DEFINE p == A \div N
           q == B \div N
<1>7. p \in Nat /\ q \in Nat /\ N * p <= A /\ A < N * p + N /\ N * q <= B /\ B < N * q + N
  BY <1>1, DivBounds
<1> HIDE DEF p, q
<1>8. N * p \in Int /\ N * q \in Int /\ N * Buckets \in Int
  BY <1>1, <1>7
<1>9. p <= Buckets
  <2>1. SUFFICES ASSUME Buckets + 1 <= p PROVE FALSE
    BY <1>1, <1>7
  <2>2. (Buckets + 1) * N <= p * N
    BY <1>1, <1>7, <2>1, BlocksMonotone
  <2> QED BY <1>1, <1>3, <1>7, <1>8, <2>2
<1>10. a = N => p = Buckets
  <2>1. SUFFICES ASSUME a = N, p + 1 <= Buckets PROVE FALSE
    BY <1>1, <1>7, <1>9
  <2>2. (p + 1) * N <= Buckets * N
    BY <1>1, <1>7, <2>1, BlocksMonotone
  <2> QED BY <1>1, <1>6, <1>7, <1>8, <2>1, <2>2
<1>11. p = Buckets => a = N
  BY <1>1, <1>5, <1>7, <1>8
<1>12. p < q => a < b
  <2>1. SUFFICES ASSUME p + 1 <= q, B <= A PROVE FALSE
    BY <1>1, <1>4, <1>7
  <2>2. (p + 1) * N <= q * N
    BY <1>1, <1>7, <2>1, BlocksMonotone
  <2> QED BY <1>1, <1>7, <1>8, <2>1, <2>2
<1> QED BY <1>2, <1>7, <1>9, <1>10, <1>11, <1>12 DEF p, q

(* The inductive invariant of the clusters.                                    *)

FilledRows == {i \in Points : lists[i] # {0}}

ClTyped ==
    /\ near \subseteq Pairs /\ lists \in [Points -> SUBSET (0..N)]
    /\ nextRow \in [1..workers -> Int] /\ counted \in [1..workers -> 0..N] /\ completed \in Nat
    /\ reported \in Seq(Points) /\ phase \in {"lists", "label", "done"} /\ at \in 0..(N + 1)
    /\ seeds \subseteq Points /\ visited \subseteq Points /\ labels \in [Points -> Int] /\ clusterID \in Nat

\* A block is filled from its first row on, and every filled row was counted once.
RowsFill ==
    /\ \A w \in 1..workers : nextRow[w] \in {Lo(w)} \cup Lo(w)..(Hi(w) + 1)
    /\ \A w \in 1..workers : \A i \in Lo(w)..Hi(w) : lists[i] = IF i < nextRow[w] THEN regionQuery(i) ELSE {0}
    /\ completed = Cardinality(FilledRows)
    /\ phase # "lists" => \A w \in 1..workers : nextRow[w] > Hi(w) /\ counted[w] = 0

\* The progress climbs, to the last row.
Climbs ==
    /\ \A k \in 1..(Len(reported) - 1) : reported[k] < reported[k + 1]
    /\ phase # "lists" => Len(reported) > 0 /\ reported[Len(reported)] = N

\* What was visited is labelled, by the clusters begun so far, up to the loop variable.
Labels ==
    /\ \A i \in Points : labels[i] \in -1..(clusterID - 1) /\ (i \in visited <=> labels[i] # -1)
    /\ \A i \in Points : i < at => i \in visited
    /\ clusterID <= at /\ (phase # "lists" => clusterID < at)
    /\ phase = "lists" => seeds = {} /\ clusterID = 0
    /\ phase = "done" => seeds = {} /\ at = N + 1
    /\ seeds # {} => clusterID > 0

\* With one point enough: the neighbours of what was visited are in its cluster or wait
\* among the seeds of the last one, and clusters hold only what chains link.
Chains ==
    /\ seeds \cap visited = {}
    /\ \A i \in visited : \A j \in regionQuery(i) :
          (j \in visited /\ labels[j] = labels[i]) \/ (j \in seeds /\ labels[i] = clusterID - 1)
    /\ \A i, j \in visited : labels[i] = labels[j] => Linked(i, j)
    /\ \A i \in visited, s \in seeds : labels[i] = clusterID - 1 => Linked(i, s)
    /\ seeds # {} => \E i \in visited : labels[i] = clusterID - 1

ClInv == ClTyped /\ RowsFill /\ Climbs /\ Labels /\ (MinPoints = 1 => Chains)

\* Being neighbours is symmetric, so chains lead back as well as forth.
LEMMA Neighbours == ASSUME NEW i \in Points, NEW j \in Points
                    PROVE  /\ regionQuery(i) \subseteq Points /\ i \notin regionQuery(i)
                           /\ j \in regionQuery(i) => i \in regionQuery(j)
<1>1. {i, j} = {j, i}
  OBVIOUS
<1> QED BY <1>1 DEF regionQuery

LEMMA ChainsLink ==
    /\ \A i \in Points : Linked(i, i)
    /\ \A i, j \in Points : Linked(i, j) => Linked(j, i)
    /\ \A i, j, k \in Points : Linked(i, j) /\ Linked(j, k) => Linked(i, k)
    /\ \A i \in Points : \A j \in regionQuery(i) : Linked(i, j)
<1>1. \A i \in Points : Linked(i, i)
  BY DEF Linked
<1>2. ASSUME NEW i \in Points, NEW j \in Points, Linked(i, j) PROVE Linked(j, i)
  <2>1. SUFFICES ASSUME NEW S \in SUBSET Points, j \in S, Closed(S), i \notin S PROVE FALSE
    BY DEF Linked
  <2> DEFINE T == Points \ S
  <2>2. ASSUME NEW a \in T PROVE regionQuery(a) \subseteq T
    <3>1. ASSUME NEW b \in regionQuery(a), b \in S PROVE FALSE
      BY <2>1, <3>1, Neighbours DEF Closed
    <3> QED BY <2>2, <3>1, Neighbours
  <2>3. Closed(T)
    BY <2>2 DEF Closed
  <2>4. j \in T
    BY <1>2, <2>1, <2>3 DEF Linked
  <2> QED BY <2>1, <2>4
<1>3. ASSUME NEW i \in Points, NEW j \in Points, NEW k \in Points, Linked(i, j), Linked(j, k) PROVE Linked(i, k)
  BY <1>3 DEF Linked
<1>4. ASSUME NEW i \in Points, NEW j \in regionQuery(i) PROVE Linked(i, j)
  BY <1>4 DEF Linked, Closed
<1> QED BY <1>1, <1>2, <1>3, <1>4

\* When all workers ended, every list is there.
LEMMA ListsAreThere ==
    ASSUME ClTyped, RowsFill, \A w \in 1..workers : nextRow[w] > Hi(w) PROVE \A i \in Points : lists[i] = regionQuery(i)
<1>1. SUFFICES ASSUME NEW i \in Points PROVE lists[i] = regionQuery(i)
  OBVIOUS
<1>2. PICK w \in 1..workers : i \in Lo(w)..Hi(w)
  BY BlocksCover
<1>3. i < nextRow[w]
  <2>1. i \in Int /\ i <= Hi(w) /\ Hi(w) \in Int
    BY <1>2, BlocksTile, FacesAreThere DEF Hi, Points
  <2> QED BY <1>2, <2>1 DEF ClTyped
<1> QED BY <1>2, <1>3 DEF RowsFill

LEMMA FewFilled == ASSUME ClTyped PROVE IsFiniteSet(FilledRows) /\ Cardinality(FilledRows) \in 0..N
<1>1. IsFiniteSet(Points) /\ Cardinality(Points) = N
  BY FacesAreThere, FS_Interval DEF Points
<1>2. FilledRows \subseteq Points
  BY DEF FilledRows
<1>3. IsFiniteSet(FilledRows) /\ Cardinality(FilledRows) <= Cardinality(Points)
  BY <1>1, <1>2, FS_Subset
<1> QED BY <1>1, <1>3, FS_CardinalityType, FacesAreThere

LEMMA ClStarts == ClInit => ClInv
<1>1. SUFFICES ASSUME ClInit PROVE ClInv
  OBVIOUS
<1>2. N \in Nat \ {0} /\ workers \in Nat /\ rowsPerWorker \in Nat
  BY BlocksTile, FacesAreThere
<1>3. \A w \in 1..workers : Lo(w) \in Int
  BY <1>2 DEF Lo
<1>4. ClTyped
  <2>1. lists \in [Points -> SUBSET (0..N)]
    BY <1>1, <1>2 DEF ClInit
  <2> QED BY <1>1, <1>2, <1>3, <2>1 DEF ClInit, ClTyped, Points
<1>5. RowsFill
  <2>1. FilledRows = {}
    BY <1>1 DEF ClInit, FilledRows
  <2>2. completed = Cardinality(FilledRows)
    BY <1>1, <2>1, FS_EmptySet DEF ClInit
  <2>3. ASSUME NEW w \in 1..workers, NEW i \in Lo(w)..Hi(w) PROVE lists[i] = {0} /\ ~(i < nextRow[w])
    <3>1. i \in Points
      <4>1. Lo(w) >= 1 /\ Lo(w) \in Int
        <5>1. (w - 1) * rowsPerWorker >= 0 * rowsPerWorker
          BY <1>2, BlocksMonotone
        <5> QED BY <1>2, <5>1 DEF Lo
      <4>2. Hi(w) <= N /\ Hi(w) \in Int
        BY <1>2 DEF Hi
      <4> QED BY <2>3, <4>1, <4>2, <1>2 DEF Points
    <3> QED BY <1>1, <1>3, <3>1 DEF ClInit
  <2> QED BY <1>1, <2>2, <2>3 DEF ClInit, RowsFill
<1>6. Climbs
  BY <1>1 DEF ClInit, Climbs
<1>7. Labels
  BY <1>1, <1>2 DEF ClInit, Labels, Points
<1>8. Chains
  BY <1>1 DEF ClInit, Chains
<1> QED BY <1>4, <1>5, <1>6, <1>7, <1>8 DEF ClInv

\* What the workers write stays when only the progress moves.
LEMMA RowsStay ==
    ASSUME RowsFill, UNCHANGED <<near, lists, nextRow, completed>>,
           phase' # "lists" => \A w \in 1..workers : nextRow[w] > Hi(w) /\ counted'[w] = 0
    PROVE  RowsFill'
<1>1. FilledRows' = FilledRows /\ \A i : regionQuery(i)' = regionQuery(i)
  BY DEF FilledRows, regionQuery
<1> QED BY <1>1 DEF RowsFill

LEMMA ChainsStay == ASSUME Chains, UNCHANGED <<near, seeds, visited, labels, clusterID>> PROVE Chains'
<1>1. \A i : regionQuery(i)' = regionQuery(i)
  BY DEF regionQuery
<1>2. \A S : Closed(S)' = Closed(S)
  BY <1>1 DEF Closed
<1>3. \A i, j : Linked(i, j)' = Linked(i, j)
  BY <1>2 DEF Linked
<1> QED BY <1>1, <1>3 DEF Chains

\* A worker takes its next row.
LEMMA FillKeeps == ASSUME ClInv, NEW w \in 1..workers, FillRow(w) PROVE ClInv'
<1> USE DEF ClInv
<1> DEFINE r == nextRow[w]
<1>1. /\ N \in Nat \ {0} /\ rowsPerWorker \in Nat \ {0} /\ w \in Nat \ {0}
      /\ Lo(w) \in Int /\ Hi(w) \in Int /\ Lo(w) >= 1 /\ Hi(w) <= N
  <2>1. (w - 1) * rowsPerWorker >= 0 * rowsPerWorker
    BY BlocksTile, BlocksMonotone
  <2> QED BY <2>1, BlocksTile, FacesAreThere DEF Lo, Hi
<1>2. r \in Lo(w)..Hi(w) /\ r \in Points /\ counted[w] = 0 /\ phase = "lists" /\ lists[r] = {0}
  <2>1. r \in Int /\ r >= Lo(w) /\ r <= Hi(w)
    BY <1>1 DEF FillRow, RowsFill, ClTyped
  <2> QED BY <1>1, <2>1 DEF FillRow, RowsFill, ClTyped, Points
<1>3. /\ lists' = [lists EXCEPT ![r] = regionQuery(r)] /\ nextRow' = [nextRow EXCEPT ![w] = r + 1]
      /\ completed' = completed + 1 /\ counted' = [counted EXCEPT ![w] = completed + 1]
      /\ UNCHANGED <<near, reported, phase, at, seeds, visited, labels, clusterID>>
  BY DEF FillRow, ClTyped, labelling
<1>4. \A i \in Points : regionQuery(i)' = regionQuery(i) /\ regionQuery(i) \subseteq Points
  BY <1>3, Neighbours DEF regionQuery
<1> HIDE DEF r
<1>5. FilledRows' = FilledRows \cup {r} /\ r \notin FilledRows
  <2>1. regionQuery(r) # {0}
    BY <1>1, <1>2, <1>4 DEF Points
  <2> QED BY <1>2, <1>3, <2>1 DEF FilledRows, ClTyped
<1>6. completed' = Cardinality(FilledRows')
  <2>1. Cardinality(FilledRows \cup {r}) = Cardinality(FilledRows) + 1
    BY <1>5, FewFilled, FS_AddElement
  <2> QED BY <1>3, <1>5, <2>1 DEF RowsFill
<1>7. ClTyped'
  <2>1. lists' \in [Points -> SUBSET (0..N)]
    BY <1>1, <1>2, <1>3, <1>4 DEF ClTyped, Points
  <2>2. FilledRows \cup {r} \subseteq Points /\ Cardinality(FilledRows \cup {r}) <= N
    <3>1. FilledRows \cup {r} \subseteq Points
      BY <1>2 DEF FilledRows
    <3>2. Cardinality(FilledRows \cup {r}) <= Cardinality(Points) /\ Cardinality(Points) = N
      <4>1. IsFiniteSet(Points) /\ Cardinality(Points) = N
        BY <1>1, FS_Interval DEF Points
      <4> QED BY <3>1, <4>1, FS_Subset
    <3> QED BY <3>1, <3>2
  <2>3. completed + 1 \in 0..N
    BY <1>1, <1>3, <1>5, <1>6, <2>2 DEF ClTyped
  <2>4. counted' \in [1..workers -> 0..N] /\ nextRow' \in [1..workers -> Int]
    BY <1>1, <1>2, <1>3, <2>3 DEF ClTyped
  <2> QED BY <1>3, <2>1, <2>3, <2>4 DEF ClTyped
<1>8. RowsFill'
  <2>1. ASSUME NEW v \in 1..workers PROVE nextRow'[v] \in {Lo(v)} \cup Lo(v)..(Hi(v) + 1)
    <3>1. CASE v = w
      BY <1>1, <1>2, <1>3, <3>1 DEF ClTyped
    <3>2. CASE v # w
      BY <1>3, <3>2 DEF ClTyped, RowsFill
    <3> QED BY <3>1, <3>2
  <2>2. ASSUME NEW v \in 1..workers, NEW i \in Lo(v)..Hi(v)
        PROVE lists'[i] = IF i < nextRow'[v] THEN regionQuery(i) ELSE {0}
    <3>1. i \in Points /\ i \in Int
      <4>1. (v - 1) * rowsPerWorker >= 0 * rowsPerWorker
        BY BlocksTile, BlocksMonotone
      <4> QED BY <4>1, BlocksTile, FacesAreThere DEF Lo, Hi, Points
    <3>2. CASE i = r
      <4>1. v = w
        BY <1>2, <3>2, BlocksApart
      <4> QED BY <1>2, <1>3, <3>1, <3>2, <4>1 DEF ClTyped
    <3>3. CASE i # r
      <4>1. lists'[i] = lists[i]
        BY <1>3, <3>3 DEF ClTyped
      <4>2. (i < nextRow'[v]) = (i < nextRow[v])
        BY <1>2, <1>3, <3>1, <3>3 DEF ClTyped, r
      <4> QED BY <4>1, <4>2 DEF RowsFill
    <3> QED BY <3>2, <3>3
  <2>3. \A v \in 1..workers : \A i \in Lo(v)..Hi(v) : regionQuery(i)' = regionQuery(i)
    BY <1>3 DEF regionQuery
  <2>4. \A v : Lo(v)' = Lo(v) /\ Hi(v)' = Hi(v)
    BY DEF Lo, Hi, rowsPerWorker, workers
  <2> QED BY <1>2, <1>3, <1>6, <2>1, <2>2, <2>3, <2>4 DEF RowsFill
<1>9. Climbs' /\ Labels' /\ (MinPoints = 1 => Chains)'
  BY <1>3, ChainsStay DEF Climbs, Labels
<1> QED BY <1>7, <1>8, <1>9

\* A report, under the lock: only a larger bucket is announced.
LEMMA ReportKeeps == ASSUME ClInv, NEW w \in 1..workers, Report(w) PROVE ClInv'
<1> USE DEF ClInv
<1>1. counted[w] \in 1..N /\ N \in Nat \ {0} /\ phase = "lists" /\ phase' = phase
  BY FacesAreThere DEF Report, ClTyped, RowsFill
<1> DEFINE c == counted[w]
           more == bucket(c) > lastReported
<1>2. /\ reported' = IF more THEN Append(reported, c) ELSE reported
      /\ counted' = [counted EXCEPT ![w] = 0]
      /\ UNCHANGED <<near, lists, nextRow, completed, phase, at, seeds, visited, labels, clusterID>>
  BY DEF Report, labelling
<1>3. more /\ reported # <<>> => reported[Len(reported)] < c
  <2>1. SUFFICES ASSUME more, reported # <<>> PROVE reported[Len(reported)] < c
    OBVIOUS
  <2>2. reported[Len(reported)] \in Points /\ bucket(reported[Len(reported)]) < bucket(c)
    <3>1. reported[Len(reported)] \in Points
      BY <2>1 DEF ClTyped
    <3>2. bucket(reported[Len(reported)]) \in Nat /\ bucket(c) \in Nat
      BY <1>1, <3>1, BucketsClimb DEF Points
    <3> QED BY <2>1, <3>1, <3>2 DEF lastReported
  <2> QED BY <1>1, <2>2, BucketsClimb DEF Points
<1> HIDE DEF c, more
<1>4. ClTyped'
  <2>1. c \in Points
    BY <1>1 DEF c, Points
  <2> QED BY <1>1, <1>2, <2>1 DEF ClTyped
<1>5. RowsFill'
  BY <1>1, <1>2, RowsStay
<1>6. Climbs'
  <2>1. CASE ~more
    BY <1>1, <1>2, <2>1 DEF Climbs
  <2>2. CASE more
    <3>1. reported \in Seq(Points) /\ c \in Points /\ Points \subseteq Int /\ reported' = Append(reported, c)
      BY <1>1, <1>2, <2>2 DEF ClTyped, c, Points
    <3>2. Len(reported') = Len(reported) + 1 /\ reported'[Len(reported) + 1] = c
          /\ \A k \in 1..Len(reported) : reported'[k] = reported[k]
      BY <3>1
    <3>3. Len(reported) \in Nat /\ (reported # <<>> <=> Len(reported) > 0)
      BY <3>1
    <3> QED BY <1>1, <1>3, <2>2, <3>2, <3>3 DEF Climbs
  <2> QED BY <2>1, <2>2
<1>7. Labels' /\ (MinPoints = 1 => Chains)'
  BY <1>2, ChainsStay DEF Labels
<1> QED BY <1>4, <1>5, <1>6, <1>7

\* All workers ended: the trailing call is made unless the last one said it all.
LEMMA ListsDoneKeeps == ASSUME ClInv, ListsDone PROVE ClInv'
<1> USE DEF ClInv
<1>1. /\ phase = "lists" /\ phase' = "label" /\ at' = 1 /\ N \in Nat \ {0} /\ N \in Points
      /\ \A w \in 1..workers : nextRow[w] > Hi(w) /\ counted[w] = 0
      /\ reported' = IF lastReported = Buckets THEN reported ELSE Append(reported, N)
      /\ UNCHANGED <<near, lists, nextRow, counted, completed, seeds, visited, labels, clusterID>>
  BY FacesAreThere DEF ListsDone, Points
<1> DEFINE last == reported[Len(reported)]
<1>2. /\ Len(reported) \in Nat /\ (reported # <<>> <=> Len(reported) > 0)
      /\ reported # <<>> => last \in 1..N /\ (lastReported = Buckets <=> last = N)
      /\ reported = <<>> => lastReported # Buckets
  <2>1. reported \in Seq(Points)
    BY DEF ClTyped
  <2>2. reported # <<>> => last \in Points
    BY <2>1
  <2>3. reported # <<>> => lastReported = bucket(last)
    BY DEF lastReported
  <2>4. reported # <<>> => (bucket(last) = Buckets <=> last = N)
    BY <1>1, <2>2, BucketsClimb DEF Points
  <2>5. reported = <<>> => lastReported # Buckets
    BY FacesAreThere DEF lastReported
  <2> QED BY <2>1, <2>2, <2>3, <2>4, <2>5 DEF Points
<1>3. ClTyped'
  BY <1>1 DEF ClTyped
<1>4. RowsFill'
  BY <1>1, RowsStay
<1>5. Climbs'
  <2>1. CASE lastReported = Buckets
    BY <1>1, <1>2, <2>1 DEF Climbs
  <2>2. CASE lastReported # Buckets
    <3>1. reported \in Seq(Points) /\ reported' = Append(reported, N)
      BY <1>1, <2>2 DEF ClTyped
    <3>2. Len(reported') = Len(reported) + 1 /\ reported'[Len(reported) + 1] = N
          /\ \A k \in 1..Len(reported) : reported'[k] = reported[k]
      BY <1>1, <3>1
    <3>3. Len(reported) > 0 => reported[Len(reported)] < N
      BY <1>1, <1>2, <2>2
    <3> QED BY <1>1, <1>2, <3>2, <3>3 DEF Climbs
  <2> QED BY <2>1, <2>2
<1>6. Labels'
  BY <1>1 DEF Labels, Points, ClTyped
<1>7. (MinPoints = 1 => Chains)'
  BY <1>1, ChainsStay
<1> QED BY <1>3, <1>4, <1>5, <1>6, <1>7

\* The labelling changes no list and reports nothing.
LEMMA LabellingKeeps ==
    ASSUME ClInv, phase = "label", phase' # "lists",
           UNCHANGED <<near, lists, nextRow, counted, completed, reported>>
    PROVE  RowsFill' /\ Climbs'
<1>1. RowsFill'
  BY RowsStay DEF ClInv, RowsFill
<1>2. Climbs'
  BY DEF ClInv, Climbs
<1> QED BY <1>1, <1>2

LEMMA FullLists ==
    ASSUME ClInv, phase = "label", NEW i \in Points
    PROVE  /\ lists[i] = regionQuery(i) /\ regionQuery(i) \subseteq Points
           /\ Cardinality(lists[i]) \in Nat /\ (MinPoints = 1 => (Cardinality(lists[i]) >= MinPoints <=> lists[i] # {}))
<1>1. lists[i] = regionQuery(i) /\ regionQuery(i) \subseteq Points
  BY ListsAreThere, Neighbours DEF ClInv, RowsFill
<1>2. IsFiniteSet(lists[i])
  <2>1. IsFiniteSet(Points)
    BY FS_Interval, FacesAreThere DEF Points
  <2> QED BY <1>1, <2>1, FS_Subset
<1>3. Cardinality(lists[i]) \in Nat /\ (Cardinality(lists[i]) = 0 <=> lists[i] = {})
  BY <1>2, FS_EmptySet, FS_CardinalityType
<1> QED BY <1>1, <1>3

\* The next face: a new cluster with its neighbours for seeds, unless it was visited.
LEMMA NextPointKeeps == ASSUME ClInv, NextPoint PROVE ClInv'
<1> USE DEF ClInv
<1>1. /\ phase = "label" /\ phase' = "label" /\ seeds = {} /\ at \in Points /\ at' = at + 1 /\ at \in Nat
      /\ UNCHANGED <<near, lists, nextRow, counted, completed, reported>>
  BY FacesAreThere DEF NextPoint, ClTyped, Labels, RowsFill, Points
<1>2. RowsFill' /\ Climbs' /\ at' \in 0..(N + 1)
  BY <1>1, LabellingKeeps, FacesAreThere DEF Points
<1>3. CASE at \in visited
  <2>1. UNCHANGED <<seeds, visited, labels, clusterID>>
    BY <1>3 DEF NextPoint
  <2>2. ClTyped'
    BY <1>1, <1>2, <2>1 DEF ClTyped
  <2>3. Labels'
    BY <1>1, <1>3, <2>1 DEF Labels, ClTyped, Points
  <2>4. (MinPoints = 1 => Chains)'
    BY <1>1, <2>1, ChainsStay
  <2> QED BY <1>2, <2>2, <2>3, <2>4
<1>4. CASE at \notin visited
  <2>1. /\ visited' = visited \cup {at} /\ labels' = [labels EXCEPT ![at] = clusterID]
        /\ seeds' = (IF Cardinality(lists[at]) < MinPoints THEN {} ELSE lists[at]) /\ clusterID' = clusterID + 1
    BY <1>4 DEF NextPoint
  <2>2. lists[at] = regionQuery(at) /\ regionQuery(at) \subseteq Points
    BY <1>1, FullLists
  <2>3. ClTyped'
    <3>1. seeds' \subseteq Points
      BY <2>1, <2>2
    <3> QED BY <1>1, <1>2, <2>1, <3>1 DEF ClTyped
  <2>4. Labels'
    BY <1>1, <2>1 DEF Labels, ClTyped, Points
  <2>5. ASSUME MinPoints = 1 PROVE Chains'
    <3>1. seeds' = regionQuery(at)
      BY <1>1, <2>1, <2>2, <2>5, FullLists
    <3>2. labels'[at] = clusterID /\ \A i \in visited : i \in Points /\ i # at /\ labels'[i] = labels[i] /\ labels[i] < clusterID
      BY <1>1, <1>4, <2>1 DEF ClTyped, Labels
    <3>3. \A i : regionQuery(i)' = regionQuery(i)
      BY <1>1 DEF regionQuery
    <3>4. \A i, j : Linked(i, j)' = Linked(i, j)
      BY <3>3 DEF Linked, Closed
    <3>5. Chains
      BY <2>5
    <3>6. \A i \in visited : regionQuery(i) \subseteq visited /\ \A j \in regionQuery(i) : labels[j] = labels[i]
      BY <1>1, <3>5 DEF Chains
    <3>7. seeds' \cap visited' = {}
      <4>1. at \notin regionQuery(at)
        BY <1>1, Neighbours
      <4>2. ASSUME NEW j \in regionQuery(at), j \in visited PROVE FALSE
        BY <1>1, <1>4, <3>2, <3>6, <4>2, Neighbours
      <4> QED BY <2>1, <3>1, <4>1, <4>2
    <3>8. ASSUME NEW i \in visited', NEW j \in regionQuery(i)
          PROVE  (j \in visited' /\ labels'[j] = labels'[i]) \/ (j \in seeds' /\ labels'[i] = clusterID' - 1)
      <4>1. CASE i = at
        BY <2>1, <3>1, <3>2, <3>8, <4>1 DEF ClTyped
      <4>2. CASE i # at
        BY <2>1, <3>2, <3>6, <3>8, <4>2
      <4> QED BY <4>1, <4>2
    <3>9. ASSUME NEW i \in visited', NEW j \in visited', labels'[i] = labels'[j] PROVE Linked(i, j)
      <4>1. CASE i = at /\ j = at
        BY <1>1, <4>1, ChainsLink
      <4>2. CASE i \in visited /\ j \in visited
        BY <3>2, <3>5, <3>9, <4>2 DEF Chains
      <4>3. CASE i = at /\ j \in visited
        BY <3>2, <3>9, <4>3 DEF ClTyped, Labels
      <4>4. CASE i \in visited /\ j = at
        BY <3>2, <3>9, <4>4 DEF ClTyped, Labels
      <4> QED BY <2>1, <4>1, <4>2, <4>3, <4>4
    <3>10. ASSUME NEW i \in visited', NEW s \in seeds', labels'[i] = clusterID' - 1 PROVE Linked(i, s)
      <4>1. i = at
        BY <2>1, <3>2, <3>10 DEF ClTyped, Labels
      <4> QED BY <1>1, <3>1, <4>1, ChainsLink
    <3>11. \E i \in visited' : labels'[i] = clusterID' - 1
      BY <2>1, <3>2 DEF ClTyped
    <3> QED BY <3>3, <3>4, <3>7, <3>8, <3>9, <3>10, <3>11 DEF Chains
  <2> QED BY <1>2, <2>3, <2>4, <2>5
<1> QED BY <1>3, <1>4

\* A seed joins the cluster, and its own neighbours wait after it.
LEMMA SeedKeeps == ASSUME ClInv, NEW s \in Points, Seed(s) PROVE ClInv'
<1> USE DEF ClInv
<1>1. /\ phase = "label" /\ phase' = "label" /\ s \in seeds /\ clusterID \in Nat \ {0}
      /\ UNCHANGED <<near, lists, nextRow, counted, completed, reported, at, clusterID>>
      /\ visited' = visited \cup {s}
      /\ labels' = IF labels[s] = -1 THEN [labels EXCEPT ![s] = clusterID - 1] ELSE labels
      /\ seeds' = (seeds \ {s}) \cup (IF s \notin visited /\ Cardinality(lists[s]) >= MinPoints
                                      THEN lists[s] \ visited' ELSE {})
  BY DEF Seed, ClTyped, Labels
<1>2. RowsFill' /\ Climbs'
  BY <1>1, LabellingKeeps
<1>3. lists[s] = regionQuery(s) /\ regionQuery(s) \subseteq Points
  BY <1>1, FullLists
<1>4. ClTyped'
  <2>1. seeds' \subseteq Points
    BY <1>1, <1>3 DEF ClTyped
  <2>2. labels' \in [Points -> Int]
    BY <1>1 DEF ClTyped
  <2> QED BY <1>1, <2>1, <2>2 DEF ClTyped
<1>5. Labels'
  <2>1. \A i \in Points : labels'[i] = IF i = s /\ labels[s] = -1 THEN clusterID - 1 ELSE labels[i]
    BY <1>1 DEF ClTyped
  <2> QED BY <1>1, <2>1 DEF Labels, ClTyped, Points
<1>6. ASSUME MinPoints = 1 PROVE Chains'
  <2>1. Chains
    BY <1>6
  <2>2. s \notin visited /\ seeds' = (seeds \ {s}) \cup (regionQuery(s) \ visited')
    <3>1. s \notin visited
      BY <1>1, <2>1 DEF Chains
    <3> QED BY <1>1, <1>3, <1>6, <3>1, FullLists
  <2>3. labels'[s] = clusterID - 1 /\ \A i \in visited : i \in Points /\ i # s /\ labels'[i] = labels[i]
    BY <1>1, <2>2 DEF ClTyped, Labels
  <2>4. \A i : regionQuery(i)' = regionQuery(i)
    BY <1>1 DEF regionQuery
  <2>5. \A i, j : Linked(i, j)' = Linked(i, j)
    BY <2>4 DEF Linked, Closed
  <2>6. seeds' \cap visited' = {}
    BY <1>1, <2>1, <2>2 DEF Chains
  <2>7. ASSUME NEW i \in visited', NEW j \in regionQuery(i)
        PROVE  (j \in visited' /\ labels'[j] = labels'[i]) \/ (j \in seeds' /\ labels'[i] = clusterID - 1)
    <3>1. CASE i = s
      <4>1. CASE j \in visited
        <5>1. s \in regionQuery(j)
          BY <2>3, <2>7, <3>1, <4>1, Neighbours
        <5> QED BY <1>1, <2>1, <2>2, <2>3, <3>1, <4>1, <5>1 DEF Chains
      <4>2. CASE j \notin visited
        <5>1. j # s
          BY <2>7, <3>1, Neighbours
        <5> QED BY <1>1, <2>2, <2>3, <2>7, <3>1, <4>2, <5>1
      <4> QED BY <4>1, <4>2
    <3>2. CASE i \in visited
      BY <1>1, <2>1, <2>2, <2>3, <2>7, <3>2 DEF Chains
    <3> QED BY <1>1, <3>1, <3>2
  <2>8. ASSUME NEW i \in visited, labels[i] = clusterID - 1 PROVE i \in Points /\ Linked(i, s) /\ Linked(s, i)
    BY <1>1, <2>1, <2>3, <2>8, ChainsLink DEF Chains
  <2>9. ASSUME NEW i \in visited', NEW j \in visited', labels'[i] = labels'[j] PROVE Linked(i, j)
    <3>1. CASE i = s /\ j = s
      BY <3>1, ChainsLink
    <3>2. CASE i \in visited /\ j \in visited
      BY <2>1, <2>3, <2>9, <3>2 DEF Chains
    <3>3. CASE i = s /\ j \in visited
      BY <2>3, <2>8, <2>9, <3>3
    <3>4. CASE i \in visited /\ j = s
      BY <2>3, <2>8, <2>9, <3>4
    <3> QED BY <1>1, <3>1, <3>2, <3>3, <3>4
  <2>10. ASSUME NEW i \in visited', NEW t \in seeds', labels'[i] = clusterID - 1 PROVE Linked(i, t)
    <3>1. i \in Points /\ t \in Points /\ Linked(i, s)
      BY <1>1, <1>3, <1>4, <2>3, <2>8, <2>10, ChainsLink DEF ClTyped
    <3>2. CASE t \in regionQuery(s)
      BY <3>1, <3>2, ChainsLink
    <3>3. CASE t \in seeds
      <4>1. PICK k \in visited : labels[k] = clusterID - 1
        BY <1>1, <2>1 DEF Chains
      <4>2. k \in Points /\ Linked(k, t) /\ Linked(s, k)
        BY <2>1, <2>8, <3>3, <4>1 DEF Chains
      <4> QED BY <3>1, <4>2, ChainsLink
    <3> QED BY <2>2, <2>10, <3>2, <3>3
  <2>11. \E i \in visited' : labels'[i] = clusterID - 1
    BY <1>1, <2>3
  <2> QED BY <1>1, <2>4, <2>5, <2>6, <2>7, <2>9, <2>10, <2>11 DEF Chains
<1> QED BY <1>2, <1>4, <1>5, <1>6

LEMMA LabelledKeeps == ASSUME ClInv, Labelled PROVE ClInv'
<1> USE DEF ClInv
<1>1. /\ phase = "label" /\ phase' = "done" /\ seeds = {} /\ at = N + 1
      /\ UNCHANGED <<near, lists, nextRow, counted, completed, reported, at, seeds, visited, labels, clusterID>>
  BY FacesAreThere DEF Labelled, ClTyped, labelling
<1>2. RowsFill' /\ Climbs'
  BY <1>1, LabellingKeeps
<1>3. ClTyped' /\ Labels' /\ (MinPoints = 1 => Chains)'
  BY <1>1, ChainsStay DEF ClTyped, Labels
<1> QED BY <1>2, <1>3

LEMMA ClSteps == ClInv /\ [ClNext]_clVars => ClInv'
<1>1. SUFFICES ASSUME ClInv, [ClNext]_clVars PROVE ClInv'
  OBVIOUS
<1>2. CASE UNCHANGED clVars
  <2>1. RowsFill'
    BY <1>1, <1>2, RowsStay DEF clVars, ClInv, RowsFill
  <2>2. ClTyped' /\ Climbs' /\ Labels' /\ (MinPoints = 1 => Chains)'
    BY <1>1, <1>2, ChainsStay DEF clVars, ClInv, ClTyped, Climbs, Labels
  <2> QED BY <2>1, <2>2 DEF ClInv
<1> QED BY <1>1, <1>2, FillKeeps, ReportKeeps, ListsDoneKeeps, NextPointKeeps, SeedKeeps, LabelledKeeps DEF ClNext

\* The invariant says what the runs check.
LEMMA ClInvSuffices == ClInv => ClTypeOK /\ ProgressClimbs /\ LabelsAreChains
<1>1. SUFFICES ASSUME ClInv PROVE ClTypeOK /\ ProgressClimbs /\ LabelsAreChains
  OBVIOUS
<1> USE <1>1 DEF ClInv
<1>2. ClTypeOK
  <2>1. /\ near \subseteq Pairs /\ completed \in 0..N /\ phase \in {"lists", "label", "done"}
        /\ at \in 0..(N + 1) /\ seeds \subseteq Points /\ visited \subseteq Points
    BY FewFilled DEF ClTyped, RowsFill
  <2>2. \A w \in 1..workers : counted[w] \in 0..N /\ nextRow[w] \in {Lo(w)} \cup Lo(w)..(Hi(w) + 1)
    BY DEF ClTyped, RowsFill
  <2>3. \A i \in Points : labels[i] \in -1..(N - 1)
    BY FacesAreThere DEF ClTyped, Labels
  <2>4. \A k \in 1..Len(reported) : reported[k] \in Points
    BY DEF ClTyped
  <2>5. \A i \in Points : lists[i] \subseteq Points \cup {0}
    BY FacesAreThere DEF ClTyped, Points
  <2> QED BY <2>1, <2>2, <2>3, <2>4, <2>5 DEF ClTypeOK
<1>3. ProgressClimbs
  BY DEF Climbs, ProgressClimbs
<1>4. LabelsAreChains
  <2>1. SUFFICES ASSUME phase = "done", MinPoints = 1, NEW i \in Points, NEW j \in Points
                 PROVE  labels[i] # -1 /\ (labels[i] = labels[j] <=> Linked(i, j))
    BY DEF LabelsAreChains
  <2>2. seeds = {} /\ \A k \in Points : k \in visited /\ labels[k] # -1
    BY <2>1, FacesAreThere DEF Labels, Points
  <2>3. Chains
    BY <2>1
  <2> DEFINE S == {k \in Points : labels[k] = labels[i]}
  <2>4. Closed(S) /\ i \in S
    <3>1. ASSUME NEW k \in S PROVE regionQuery(k) \subseteq S
      BY <2>2, <2>3, <3>1, Neighbours DEF Chains
    <3> QED BY <3>1 DEF Closed
  <2>5. Linked(i, j) => labels[i] = labels[j]
    BY <2>4 DEF Linked
  <2>6. labels[i] = labels[j] => Linked(i, j)
    BY <2>2, <2>3 DEF Chains
  <2> QED BY <2>2, <2>5, <2>6
<1> QED BY <1>2, <1>3, <1>4

-----------------------------------------------------------------------------
(* Persons.                                                                    *)

PeopleUndisturbed == ~UserInCluster /\ ~CoverRaces

FaceStates == {"none", "active", "excluded"}
PersonRows == [here : BOOLEAN, named : BOOLEAN, hidden : BOOLEAN, purge : {"no", "grace", "due"},
               cover : Faces \cup {0, Lost}, locked : BOOLEAN]
FaceRuns   == [pc : {"idle", "detect", "delete", "insert", "mark", "load", "rebuild"}, todo : SUBSET Assets,
               on : Assets \cup {0}, read : Nat, loaded : SUBSET Faces]

PeopleTyped ==
    /\ there \subseteq Assets /\ content \in [Assets -> Nat] /\ seen \in [Assets -> Nat] /\ scanned \subseteq there
    /\ face \in [Faces -> FaceStates] /\ bind \in [Faces -> Persons \cup {0}]
    /\ person \in [Persons -> PersonRows] /\ run \in FaceRuns /\ backoff \in BOOLEAN
    /\ sweep \subseteq Persons /\ pick \in [p : Persons \cup {0}, f : Faces \cup {0, Lost}] /\ wanted \subseteq Persons

\* The photo at hand is one, and what was read of it is no version of the future.
HandFits ==
    /\ run.pc \in {"delete", "insert", "mark"} => run.on \in Assets
    /\ run.pc \in {"delete", "insert"} => run.read <= content[run.on]
    /\ \A a \in Assets : seen[a] <= content[a]

\* The face SetPersonCover chose is still one of its person, if that is still there.
PickFits == pick.f \in Faces /\ pick.p \in Persons /\ person[pick.p].here => bind[pick.f] = pick.p

\* Nobody took a face from under the rebuild.
LoadedStay == run.pc = "rebuild" => \A f \in run.loaded : face[f] # "excluded"

\* No purge waits for a person the user wants.
WantedRest == \A p \in wanted : person[p].purge = "no"

PeopleInv ==
    /\ PeopleTyped /\ HandFits /\ PickFits /\ LoadedStay /\ WantedRest
    /\ ExcludedStayOut /\ NamedSurvive /\ CoverIsMember

LEMMA FaceNumbers == 0 \notin Faces /\ Lost \notin Faces /\ 0 \notin Persons /\ Faces \subseteq Nat /\ Persons \subseteq Nat
<1>1. Cardinality(Faces) \in Nat /\ Cardinality(Persons) \in Nat
  BY FacesAreNumbered, FS_CardinalityType
<1> QED BY <1>1, FacesAreNumbered DEF Lost

LEMMA RowsTyped == Absent \in PersonRows /\ Created \in PersonRows /\ NoRun \in FaceRuns
BY DEF Absent, Created, PersonRows, NoRun, FaceRuns

LEMMA BestFace == ASSUME NEW fs \in SUBSET Faces, fs # {} PROVE selectCoverFace(fs) \in fs
<1>1. Cardinality(Faces) \in Nat
  BY FacesAreNumbered, FS_CardinalityType
<1>2. fs \in SUBSET (0..Cardinality(Faces))
  BY <1>1, FacesAreNumbered
<1>3. \E f \in fs : \A g \in fs : g <= f
  BY <1>1, <1>2, Greatest
<1> QED BY <1>3 DEF selectCoverFace

\* A recomputed row differs in its cover only, and that is one of the person's faces.
LEMMA RecomputedFits ==
    ASSUME NEW r \in PersonRows, NEW fs \in SUBSET Faces
    PROVE  /\ Recomputed(r, fs) \in PersonRows /\ Recomputed(r, fs).cover \in fs \cup {0}
           /\ Recomputed(r, fs).here = r.here /\ Recomputed(r, fs).named = r.named
           /\ Recomputed(r, fs).hidden = r.hidden /\ Recomputed(r, fs).purge = r.purge
<1>1. CASE fs = {}
  BY <1>1 DEF Recomputed, PersonRows
<1>2. CASE fs # {} /\ r.locked /\ r.cover \in fs
  BY <1>2 DEF Recomputed, PersonRows
<1>3. CASE fs # {} /\ ~(r.locked /\ r.cover \in fs)
  <2>1. selectCoverFace(fs) \in fs
    BY <1>3, BestFace
  <2> DEFINE b == selectCoverFace(fs)
  <2> HIDE DEF b
  <2>2. Recomputed(r, fs) = [r EXCEPT !.cover = b, !.locked = IF r.cover = 0 THEN r.locked ELSE FALSE]
    BY <1>3 DEF Recomputed, b
  <2> QED BY <2>1, <2>2 DEF PersonRows, b
<1> QED BY <1>1, <1>2, <1>3

LEMMA PeopleStart == ASSUME PpInit PROVE PeopleInv
<1> USE FaceNumbers, RowsTyped DEF PpInit
<1>1. PeopleTyped
  BY DEF PeopleTyped, FaceStates, NoPick
<1>2. HandFits /\ LoadedStay
  BY DEF HandFits, LoadedStay, NoRun
<1>3. PickFits
  BY DEF PickFits, NoPick
<1>4. ExcludedStayOut /\ NamedSurvive /\ WantedRest
  BY DEF ExcludedStayOut, NamedSurvive, WantedRest
<1>5. CoverIsMember
  BY DEF CoverIsMember, Here, Absent
<1> QED BY <1>1, <1>2, <1>3, <1>4, <1>5 DEF PeopleInv

\* The steps of detection that change the run only.
LEMMA RunKeeps ==
    ASSUME PeopleInv, \/ RunPipeline \/ RunClustering \/ DetectCall \/ DetectFails \/ DetectLeaves \/ Detected
                      \/ loadFacesWithProgress \/ BackoffEnds
    PROVE  PeopleInv'
<1> USE DEF PeopleInv, PeopleTyped
<1>1. /\ UNCHANGED <<photos, face, bind, person, sweep, pick, wanted>> /\ run' \in FaceRuns /\ backoff' \in BOOLEAN
      /\ run'.pc = "rebuild" => \A f \in run'.loaded : face[f] # "excluded"
      /\ run'.pc \in {"delete", "insert", "mark"} => run'.on \in Assets
      /\ run'.pc \in {"delete", "insert"} => run'.read <= content[run'.on]
  <2>1. CASE RunPipeline
    BY <2>1, RowsTyped DEF RunPipeline, FaceRuns, NoRun, queryFaceScanTargets, counts
  <2>2. CASE RunClustering
    BY <2>2, RowsTyped DEF RunClustering, FaceRuns, NoRun
  <2>3. CASE DetectCall
    <3>1. PICK a \in run.todo : run' = [run EXCEPT !.todo = @ \ {a}, !.on = a, !.read = content[a],
                                                   !.pc = IF a \in there THEN "delete" ELSE "detect"]
      BY <2>3 DEF DetectCall
    <3>2. a \in Assets /\ content[a] \in Nat /\ content[a] <= content[a]
      BY DEF FaceRuns
    <3>3. run' \in FaceRuns /\ run'.on = a /\ run'.read = content[a] /\ run'.pc \in {"delete", "detect"}
      BY <3>1, <3>2 DEF FaceRuns
    <3> QED BY <2>3, <3>2, <3>3 DEF DetectCall, counts
  <2>4. CASE DetectFails
    <3>1. PICK a \in run.todo : run' = [run EXCEPT !.todo = @ \ {a}]
      BY <2>4 DEF DetectFails
    <3>2. run' \in FaceRuns /\ run'.pc = "detect"
      BY <2>4, <3>1 DEF FaceRuns, DetectFails
    <3> QED BY <2>4, <3>2 DEF DetectFails
  <2>8. CASE DetectLeaves
    <3>1. run' \in FaceRuns /\ run'.pc = "detect"
      BY <2>8 DEF DetectLeaves, FaceRuns
    <3> QED BY <2>8, <3>1 DEF DetectLeaves
  <2>5. CASE Detected
    BY <2>5 DEF Detected, FaceRuns, counts
  <2>6. CASE loadFacesWithProgress
    <3>1. run' \in FaceRuns /\ run'.pc = "rebuild" /\ run'.loaded = {f \in Faces : face[f] = "active"}
      BY <2>6 DEF loadFacesWithProgress, FaceRuns
    <3> QED BY <2>6, <3>1 DEF loadFacesWithProgress, counts
  <2>7. CASE BackoffEnds
    BY <2>7 DEF BackoffEnds, LoadedStay, HandFits, counts, photos
  <2> QED BY <2>1, <2>2, <2>3, <2>4, <2>5, <2>6, <2>7, <2>8
<1> QED BY <1>1 DEF photos, HandFits, PickFits, LoadedStay, WantedRest, ExcludedStayOut, NamedSurvive, CoverIsMember, Here

\* Deleted detections take their bindings along; covers and the choice dangle.
LEMMA DropKeeps ==
    ASSUME PeopleInv, NEW fs \in SUBSET Faces, DropFaces(fs)
    PROVE  /\ face' \in [Faces -> FaceStates] /\ bind' \in [Faces -> Persons \cup {0}]
           /\ person' \in [Persons -> PersonRows] /\ pick' \in [p : Persons \cup {0}, f : Faces \cup {0, Lost}]
           /\ \A f \in Faces : bind'[f] # 0 => bind'[f] = bind[f] /\ face'[f] = face[f]
           /\ \A f \in Faces : face'[f] \in {face[f], "none"}
           /\ \A p \in Persons : /\ person'[p].here = person[p].here /\ person'[p].named = person[p].named
                                 /\ person'[p].purge = person[p].purge
                                 /\ person'[p].cover \in Faces => person'[p].cover = person[p].cover /\ person[p].cover \notin fs
           /\ pick'.p = pick.p /\ (pick'.f \in Faces => pick'.f = pick.f /\ pick.f \notin fs)
           /\ \A f \in Faces \ fs : bind'[f] = bind[f]
<1> USE FaceNumbers DEF PeopleInv, PeopleTyped
<1>1. /\ face' \in [Faces -> FaceStates] /\ bind' \in [Faces -> Persons \cup {0}]
      /\ \A f \in Faces : bind'[f] # 0 => bind'[f] = bind[f] /\ face'[f] = face[f]
      /\ \A f \in Faces : face'[f] \in {face[f], "none"}
      /\ \A f \in Faces \ fs : bind'[f] = bind[f]
  BY DEF DropFaces, FaceStates
<1>2. \A p \in Persons : [person[p] EXCEPT !.cover = Lost] \in PersonRows
  BY DEF PersonRows
<1>3. person' \in [Persons -> PersonRows]
  BY <1>2 DEF DropFaces
<1>4. \A p \in Persons : /\ person'[p].here = person[p].here /\ person'[p].named = person[p].named
                         /\ person'[p].purge = person[p].purge
                         /\ person'[p].cover \in Faces => person'[p].cover = person[p].cover /\ person[p].cover \notin fs
  BY DEF DropFaces, PersonRows
<1>5. /\ pick' \in [p : Persons \cup {0}, f : Faces \cup {0, Lost}]
      /\ pick'.p = pick.p /\ (pick'.f \in Faces => pick'.f = pick.f /\ pick.f \notin fs)
  BY DEF DropFaces
<1> QED BY <1>1, <1>3, <1>4, <1>5

LEMMA DropInv ==
    ASSUME PeopleInv, NEW fs \in SUBSET Faces, DropFaces(fs), UNCHANGED <<content, seen, sweep, wanted, backoff>>,
           there' \subseteq there, scanned' \subseteq there', run' \in FaceRuns, run'.pc = "rebuild" => run' = run,
           run'.pc \in {"delete", "insert", "mark"} =>
               run'.on = run.on /\ run'.read = run.read /\ run.pc \in {"delete", "insert", "mark"},
           run'.pc \in {"delete", "insert"} => run.pc \in {"delete", "insert"}
    PROVE  PeopleInv'
<1> USE DEF PeopleInv, PeopleTyped
<1> USE DropKeeps
<1>1. PeopleTyped'
  BY DEF PeopleTyped
<1>2. HandFits' /\ LoadedStay' /\ WantedRest' /\ NamedSurvive'
  BY DEF HandFits, LoadedStay, WantedRest, NamedSurvive, FaceRuns
<1>3. ExcludedStayOut'
  <2>1. SUFFICES ASSUME NEW f \in Faces, bind'[f] # 0 PROVE face'[f] = "active" /\ person'[bind'[f]].here
    BY DEF ExcludedStayOut
  <2>2. bind'[f] = bind[f] /\ face'[f] = face[f] /\ bind[f] \in Persons
    BY <2>1
  <2>3. face[f] = "active" /\ person[bind[f]].here
    BY <2>1, <2>2 DEF ExcludedStayOut
  <2> QED BY <2>2, <2>3
<1>4. PickFits'
  BY DEF PickFits
<1>5. CoverIsMember'
  BY DEF CoverIsMember, Here
<1> QED BY <1>1, <1>2, <1>3, <1>4, <1>5

LEMMA DetectionKeeps == ASSUME PeopleInv, DetectDelete \/ DetectInsert \/ InsertFails \/ DetectMark PROVE PeopleInv'
<1> USE DEF PeopleInv, PeopleTyped
<1>1. CASE DetectDelete
  <2>1. run' \in FaceRuns /\ run'.pc = "insert" /\ run'.on = run.on /\ run'.read = run.read /\ run.pc = "delete"
    BY <1>1 DEF DetectDelete, FaceRuns
  <2>2. UNCHANGED <<there, content, seen, scanned, sweep, wanted, backoff>> /\ DropFaces({f \in Faces : AssetOf[f] = run.on})
    BY <1>1 DEF DetectDelete, photos
  <2> QED BY <2>1, <2>2, DropInv
<1>2. ASSUME NEW bad, Inserted(bad) PROVE PeopleInv'
  <2>1. run.on \in Assets /\ run.read \in Nat /\ run.read <= content[run.on] /\ run.pc = "insert"
    BY <1>2 DEF Inserted, HandFits, FaceRuns
  <2>2. run' \in FaceRuns /\ run'.pc = "mark" /\ run'.on = run.on
    BY <1>2 DEF Inserted, FaceRuns
  <2>3. /\ face' \in [Faces -> FaceStates] /\ \A f \in Faces : face'[f] \in {face[f], "active"}
        /\ seen' \in [Assets -> Nat] /\ \A a \in Assets : seen'[a] <= content[a]
    BY <1>2, <2>1 DEF Inserted, FaceStates, HandFits
  <2>4. UNCHANGED <<there, content, scanned, bind, person, backoff, sweep, pick, wanted>>
    BY <1>2 DEF Inserted
  <2> QED BY <2>1, <2>2, <2>3, <2>4
    DEF HandFits, PickFits, LoadedStay, WantedRest, ExcludedStayOut, NamedSurvive, CoverIsMember, Here
<1>3. CASE DetectMark
  <2>1. run' \in FaceRuns /\ run'.pc = "detect"
    BY <1>3 DEF DetectMark, FaceRuns
  <2>2. UNCHANGED <<there, content, seen, face, bind, person, backoff, sweep, pick, wanted>> /\ scanned' \subseteq there
    BY <1>3 DEF DetectMark
  <2> QED BY <2>1, <2>2
    DEF HandFits, PickFits, LoadedStay, WantedRest, ExcludedStayOut, NamedSurvive, CoverIsMember, Here
<1> QED BY <1>1, <1>2, <1>3 DEF DetectInsert, InsertFails

LEMMA LibraryKeeps ==
    ASSUME PeopleInv, FaceRestart \/ \E a \in Assets : FileReplaced(a) \/ PhotoGone(a)
    PROVE  PeopleInv'
<1> USE DEF PeopleInv, PeopleTyped
<1>1. ASSUME NEW a \in Assets, FileReplaced(a) PROVE PeopleInv'
  <2>1. /\ content' \in [Assets -> Nat] /\ \A b \in Assets : content[b] <= content'[b]
        /\ scanned' \subseteq there
        /\ UNCHANGED <<there, seen, face, bind, person, run, backoff, sweep, pick, wanted>>
    BY <1>1 DEF FileReplaced
  <2>2. HandFits'
    BY <2>1 DEF HandFits, FaceRuns
  <2> QED BY <2>1, <2>2
    DEF PickFits, LoadedStay, WantedRest, ExcludedStayOut, NamedSurvive, CoverIsMember, Here
<1>2. ASSUME NEW a \in Assets, PhotoGone(a) PROVE PeopleInv'
  <2>1. /\ DropFaces({f \in Faces : AssetOf[f] = a}) /\ UNCHANGED <<content, seen, run, backoff, sweep, wanted>>
        /\ there' \subseteq there /\ scanned' \subseteq there'
    BY <1>2 DEF PhotoGone
  <2> QED BY <2>1, DropInv
<1>3. CASE FaceRestart
  <2>1. /\ run' = NoRun /\ backoff' = FALSE /\ sweep' = {} /\ pick' = NoPick
        /\ UNCHANGED <<there, content, seen, scanned, face, bind, person, wanted>>
    BY <1>3 DEF FaceRestart, photos
  <2>2. PeopleTyped'
    BY <2>1, RowsTyped DEF NoPick
  <2>3. HandFits' /\ LoadedStay' /\ PickFits'
    BY <2>1, FaceNumbers DEF HandFits, LoadedStay, PickFits, NoRun, NoPick
  <2> QED BY <2>1, <2>2, <2>3 DEF WantedRest, ExcludedStayOut, NamedSurvive, CoverIsMember, Here
<1> QED BY <1>1, <1>2, <1>3

LEMMA NoFacesKeeps == ASSUME PeopleInv, NoFacesLeft PROVE PeopleInv'
<1> USE FaceNumbers, RowsTyped DEF PeopleInv, PeopleTyped
<1>1. \A f \in Faces : bind[f] = 0
  BY DEF NoFacesLeft, ExcludedStayOut
<1>2. bind' = bind
  <2>1. \A f \in Faces : bind'[f] = 0
    BY <1>1 DEF NoFacesLeft
  <2>2. bind' = [f \in Faces |-> bind'[f]] /\ bind = [f \in Faces |-> bind[f]]
    BY DEF NoFacesLeft
  <2> QED BY <1>1, <2>1, <2>2
<1>3. /\ person' \in [Persons -> PersonRows]
      /\ \A p \in Persons : person'[p].here => person'[p] = person[p]
      /\ \A p \in Persons : Kept(p) => person'[p] = person[p]
  BY DEF NoFacesLeft, Absent
<1>4. run' = NoRun /\ UNCHANGED <<there, content, seen, scanned, face, backoff, sweep, pick, wanted>>
  BY DEF NoFacesLeft, photos
<1>5. HandFits' /\ LoadedStay'
  BY <1>4 DEF HandFits, LoadedStay, NoRun
<1>6. PickFits' /\ CoverIsMember' /\ ExcludedStayOut'
  BY <1>1, <1>2, <1>3, <1>4 DEF PickFits, CoverIsMember, Here, ExcludedStayOut
<1>7. NamedSurvive' /\ WantedRest'
  BY <1>3, <1>4 DEF NamedSurvive, WantedRest, Kept
<1> QED BY <1>2, <1>3, <1>4, <1>5, <1>6, <1>7

\* A rebuild that commits: who is anchored keeps row and faces, and the loose faces go to
\* an anchored or a new person.
LEMMA RebuildFits ==
    ASSUME PeopleInv, NEW anchors, anchors = {p \in Here : Anchored(p)}, Rebuild(anchors)
    PROVE  /\ run' = NoRun /\ backoff' \in BOOLEAN
           /\ \/ UNCHANGED <<bind, person>>
              \/ /\ bind' \in [Faces -> Persons \cup {0}] /\ person' \in [Persons -> PersonRows]
                 /\ \A f \in Faces : bind[f] \in anchors => bind'[f] = bind[f]
                 /\ \A f \in Faces : bind[f] \notin anchors /\ bind'[f] # 0 => f \in run.loaded /\ face[f] # "none"
                 /\ \A p \in anchors : /\ person'[p].here = person[p].here /\ person'[p].named = person[p].named
                                       /\ person'[p].purge = person[p].purge
                 /\ \A p \in Persons : /\ person'[p].cover # 0 => bind'[person'[p].cover] = p
                                       /\ ~person'[p].here => \A f \in Faces : bind'[f] # p
                                       /\ person'[p].here => p \in anchors \/ p \notin Here \cup {pick.p}
<1> USE FaceNumbers, RowsTyped DEF PeopleInv, PeopleTyped
<1> DEFINE held == {f \in Faces : bind[f] \in anchors}
           loose == run.loaded \ held
           fresh == Persons \ (Here \cup sweep \cup {pick.p})
<1>0. anchors \subseteq Here /\ anchors \subseteq Persons /\ Here \subseteq Persons
  BY DEF Here
<1>1. CASE \E f \in loose : face[f] = "none"
  BY <1>1 DEF Rebuild
<1>2. CASE ~\E f \in loose : face[f] = "none"
  <2>1. PICK closest \in [Kinds -> Persons] :
           /\ \A k \in Kinds : IF Snaps(k, anchors) # {} THEN closest[k] \in Snaps(k, anchors)
                               ELSE closest[k] \in fresh /\ Cardinality({q \in fresh : q < closest[k]}) = k - 1
           /\ bind' = [f \in Faces |-> IF f \in held THEN bind[f] ELSE IF f \in loose THEN closest[Kind[f]] ELSE 0]
           /\ person' = [p \in Persons |->
                    IF p \notin anchors /\ \A f \in loose : bind'[f] # p THEN Absent
                    ELSE Recomputed(IF p \in anchors THEN person[p] ELSE Created,
                                    {f \in Faces : bind'[f] = p /\ face[f] = "active"})]
           /\ run' = NoRun /\ backoff' = FALSE
    BY <1>2 DEF Rebuild
  <2>2. \A k \in Kinds : closest[k] \in anchors \cup fresh
    BY <2>1 DEF Snaps
  <2>3. \A f \in Faces : Kind[f] \in Kinds
    BY DEF Kinds
  <2>4. loose \subseteq Faces
    BY DEF FaceRuns
  <2>5. \A f \in Faces : closest[Kind[f]] \in anchors \cup fresh /\ closest[Kind[f]] \in Persons
    BY <2>1, <2>2, <2>3
  <2>6. \A f \in Faces : bind'[f] = IF f \in held THEN bind[f] ELSE IF f \in loose THEN closest[Kind[f]] ELSE 0
    BY <2>1
  <2>7. bind' \in [Faces -> Persons \cup {0}]
    <3>1. \A f \in Faces : (IF f \in held THEN bind[f] ELSE IF f \in loose THEN closest[Kind[f]] ELSE 0) \in Persons \cup {0}
      BY <2>5
    <3> QED BY <2>1, <3>1
  <2>8. ASSUME NEW p \in Persons
        PROVE  /\ person'[p] \in PersonRows
               /\ person'[p].cover # 0 => bind'[person'[p].cover] = p
               /\ ~person'[p].here => p \notin anchors /\ \A f \in loose : bind'[f] # p
               /\ p \in anchors => /\ person'[p].here = person[p].here /\ person'[p].named = person[p].named
                                   /\ person'[p].purge = person[p].purge
               /\ p \notin anchors /\ person'[p].here => \E f \in loose : bind'[f] = p
    <3> DEFINE own == {f \in Faces : bind'[f] = p /\ face[f] = "active"}
               base == IF p \in anchors THEN person[p] ELSE Created
    <3>1. person'[p] = IF p \notin anchors /\ \A f \in loose : bind'[f] # p THEN Absent ELSE Recomputed(base, own)
      BY <2>1
    <3>2. base \in PersonRows /\ base.here /\ own \in SUBSET Faces
      BY <1>0 DEF Created, Absent, Here
    <3> HIDE DEF base, own, held, loose, fresh
    <3>3. /\ Recomputed(base, own) \in PersonRows /\ Recomputed(base, own).cover \in own \cup {0}
          /\ Recomputed(base, own).here = base.here /\ Recomputed(base, own).named = base.named
          /\ Recomputed(base, own).purge = base.purge
      BY <3>2, RecomputedFits
    <3>4. Absent.here = FALSE /\ Absent.cover = 0
      BY DEF Absent
    <3>5. CASE p \notin anchors /\ \A f \in loose : bind'[f] # p
      BY <3>1, <3>4, <3>5
    <3>6. CASE p \in anchors
      <4>1. base = person[p] /\ person'[p] = Recomputed(base, own)
        BY <3>1, <3>6 DEF base
      <4> QED BY <3>2, <3>3, <3>6, <4>1 DEF own
    <3>7. CASE p \notin anchors /\ \E f \in loose : bind'[f] = p
      <4>1. person'[p] = Recomputed(base, own)
        BY <3>1, <3>7
      <4> QED BY <3>2, <3>3, <3>7, <4>1 DEF own
    <3> QED BY <3>5, <3>6, <3>7
  <2>9. person' \in [Persons -> PersonRows]
    BY <2>1, <2>8
  <2>10. \A f \in Faces : f \notin held /\ bind'[f] # 0 => f \in loose
    BY <2>6
  <2>11. ASSUME NEW p \in Persons, ~person'[p].here, NEW f \in Faces PROVE bind'[f] # p
    <3>1. p \notin anchors /\ \A g \in loose : bind'[g] # p
      BY <2>8, <2>11
    <3>2. f \in held => bind'[f] \in anchors
      BY <2>6
    <3>3. f \notin held /\ f \notin loose => bind'[f] = 0
      BY <2>6
    <3> QED BY <3>1, <3>2, <3>3
  <2>12. ASSUME NEW p \in Persons, person'[p].here, p \notin anchors PROVE p \in fresh
    <3>1. PICK f \in loose : bind'[f] = p
      BY <2>8, <2>12
    <3>2. f \in Faces /\ f \notin held /\ bind'[f] = closest[Kind[f]]
      BY <2>4, <2>6, <3>1
    <3> QED BY <2>5, <2>12, <3>1, <3>2
  <2>13. \A p \in Persons : person'[p].cover # 0 => bind'[person'[p].cover] = p
    BY <2>8
  <2>14. /\ \A f \in Faces : bind[f] \in anchors => bind'[f] = bind[f]
         /\ \A f \in Faces : bind[f] \notin anchors /\ bind'[f] # 0 => f \in run.loaded /\ face[f] # "none"
    BY <1>2, <2>6
  <2>15. \A p \in Persons : person'[p].here => p \in anchors \/ p \notin Here \cup {pick.p}
    BY <2>12
  <2>16. run' = NoRun /\ backoff' \in BOOLEAN
    BY <2>1
  <2> HIDE DEF held, loose, fresh
  <2> QED BY <1>0, <2>7, <2>8, <2>9, <2>11, <2>13, <2>14, <2>15, <2>16
<1> QED BY <1>1, <1>2

LEMMA RebuildKeeps == ASSUME PeopleInv, rebuildPersonsWithProgress PROVE PeopleInv'
<1> USE FaceNumbers, RowsTyped DEF PeopleInv, PeopleTyped
<1> DEFINE anchors == {p \in Here : Anchored(p)}
<1>1. run.pc = "rebuild" /\ Rebuild(anchors) /\ UNCHANGED <<there, content, seen, scanned, face, sweep, pick, wanted>>
  BY DEF rebuildPersonsWithProgress, photos
<1>2. /\ run' = NoRun /\ backoff' \in BOOLEAN
      /\ \/ UNCHANGED <<bind, person>>
         \/ /\ bind' \in [Faces -> Persons \cup {0}] /\ person' \in [Persons -> PersonRows]
            /\ \A f \in Faces : bind[f] \in anchors => bind'[f] = bind[f]
            /\ \A f \in Faces : bind[f] \notin anchors /\ bind'[f] # 0 => f \in run.loaded /\ face[f] # "none"
            /\ \A p \in anchors : /\ person'[p].here = person[p].here /\ person'[p].named = person[p].named
                                  /\ person'[p].purge = person[p].purge
            /\ \A p \in Persons : /\ person'[p].cover # 0 => bind'[person'[p].cover] = p
                                  /\ ~person'[p].here => \A f \in Faces : bind'[f] # p
                                  /\ person'[p].here => p \in anchors \/ p \notin Here \cup {pick.p}
  BY <1>1, RebuildFits
<1>3. HandFits' /\ LoadedStay'
  BY <1>1, <1>2 DEF HandFits, LoadedStay, NoRun
<1>4. CASE UNCHANGED <<bind, person>>
  BY <1>1, <1>2, <1>3, <1>4
    DEF PickFits, WantedRest, ExcludedStayOut, NamedSurvive, CoverIsMember, Here
<1>5. CASE ~UNCHANGED <<bind, person>>
  <2>1. PeopleTyped'
    BY <1>1, <1>2, <1>5
  <2>2. PickFits'
    <3>1. SUFFICES ASSUME pick.f \in Faces, pick.p \in Persons, person'[pick.p].here PROVE bind'[pick.f] = pick.p
      BY <1>1 DEF PickFits
    <3>2. pick.p \in anchors
      BY <1>2, <1>5, <3>1
    <3>3. bind[pick.f] = pick.p
      BY <3>1, <3>2 DEF PickFits, Here
    <3> QED BY <1>2, <1>5, <3>1, <3>2, <3>3
  <2>3. ASSUME NEW p \in wanted
        PROVE  person'[p].here /\ person'[p].named /\ person'[p].purge = "no"
    <3>1. p \in Persons /\ person[p].here /\ person[p].named /\ person[p].purge = "no"
      BY DEF NamedSurvive, WantedRest
    <3>2. p \in anchors
      BY <3>1 DEF Here, Anchored
    <3> QED BY <1>2, <1>5, <3>1, <3>2
  <2>4. NamedSurvive' /\ WantedRest'
    BY <1>1, <2>3 DEF NamedSurvive, WantedRest
  <2>5. CoverIsMember'
    BY <1>2, <1>5 DEF CoverIsMember, Here
  <2>6. ExcludedStayOut'
    <3>1. SUFFICES ASSUME NEW f \in Faces, bind'[f] # 0 PROVE face[f] = "active" /\ person'[bind'[f]].here
      BY <1>1 DEF ExcludedStayOut
    <3>2. bind'[f] \in Persons /\ person'[bind'[f]].here
      BY <1>2, <1>5, <3>1
    <3>3. CASE bind[f] \in anchors
      BY <3>2, <3>3 DEF ExcludedStayOut, Here
    <3>4. CASE bind[f] \notin anchors
      <4>1. f \in run.loaded /\ face[f] # "none" /\ face[f] # "excluded"
        BY <1>1, <1>2, <1>5, <3>1, <3>4 DEF LoadedStay
      <4> QED BY <3>2, <4>1 DEF FaceStates
    <3> QED BY <3>2, <3>3, <3>4
  <2> QED BY <1>3, <2>1, <2>2, <2>4, <2>5, <2>6
<1> QED BY <1>4, <1>5

\* Steps that change rows of persons, the choice of a cover or what is swept.
LEMMA RowsKeep ==
    ASSUME PeopleInv, UNCHANGED <<there, content, seen, scanned, face, bind, run, backoff>>,
           person' \in [Persons -> PersonRows], sweep' \subseteq Persons, wanted' \subseteq Persons,
           \A p \in Persons : /\ person'[p].here => person[p].here /\ (person'[p].cover \in Faces =>
                                                        person'[p].cover = person[p].cover \/ bind[person'[p].cover] = p)
                              /\ person[p].here /\ ~person'[p].here => Members(p) = {},
           \A p \in wanted' : person'[p].here /\ person'[p].named /\ person'[p].purge = "no",
           \/ pick' = pick \/ pick' = NoPick
           \/ pick'.p \in Persons /\ pick'.f \in Faces /\ pick' = [p |-> pick'.p, f |-> pick'.f] /\ bind[pick'.f] = pick'.p
    PROVE  PeopleInv'
<1> USE FaceNumbers DEF PeopleInv, PeopleTyped
<1>1. PeopleTyped'
  BY DEF NoPick
<1>2. HandFits' /\ LoadedStay'
  BY DEF HandFits, LoadedStay
<1>3. PickFits'
  BY DEF PickFits, NoPick
<1>4. WantedRest' /\ NamedSurvive'
  BY DEF WantedRest, NamedSurvive
<1>5. CoverIsMember'
  BY DEF CoverIsMember, Here
<1>6. ExcludedStayOut'
  <2>1. \A f \in Faces : bind[f] # 0 => person[bind[f]].here /\ bind[f] \in Persons /\ f \in Members(bind[f])
    BY DEF ExcludedStayOut, Members
  <2> QED BY <2>1 DEF ExcludedStayOut
<1> QED BY <1>1, <1>2, <1>3, <1>4, <1>5, <1>6

LEMMA SchedulerKeeps ==
    ASSUME PeopleInv,
           \/ purgeEmptyAutoPersons \/ ClearDanglingCovers \/ PurgeDuePersons \/ PinCover
           \/ \E p \in Persons : GraceEnds(p)
    PROVE  PeopleInv'
<1> USE FaceNumbers, RowsTyped DEF PeopleInv, PeopleTyped
<1>0. \A q \in wanted : q \in Persons /\ person[q].here /\ person[q].named /\ person[q].purge = "no"
  BY DEF NamedSurvive, WantedRest
<1>1. CASE purgeEmptyAutoPersons
  <2> DEFINE shells == {q \in Here : ~Kept(q) /\ Members(q) = {}}
  <2>1. /\ person' = [q \in Persons |-> IF q \in shells THEN Absent ELSE person[q]]
        /\ UNCHANGED <<there, content, seen, scanned, face, bind, run, backoff, sweep, pick, wanted>>
    BY <1>1 DEF purgeEmptyAutoPersons, photos
  <2>2. \A q \in wanted : q \notin shells
    BY <1>0 DEF Kept
  <2>3. \A q \in Persons : /\ q \in shells => person'[q] = Absent /\ Members(q) = {}
                           /\ q \notin shells => person'[q] = person[q]
    BY <2>1
  <2>4. person' \in [Persons -> PersonRows]
    BY <2>1
  <2> HIDE DEF shells
  <2> QED BY <1>0, <2>1, <2>2, <2>3, <2>4, RowsKeep DEF Absent
<1>2. CASE ClearDanglingCovers
  <2>1. UNCHANGED <<there, content, seen, scanned, face, bind, run, backoff, sweep, pick, wanted>>
    BY <1>2 DEF ClearDanglingCovers, photos
  <2>2. \A q \in Persons : [person[q] EXCEPT !.cover = 0, !.locked = FALSE] \in PersonRows
    BY DEF PersonRows
  <2>3. /\ person' \in [Persons -> PersonRows]
        /\ \A q \in Persons : \/ person'[q] = person[q]
                              \/ person'[q] = [person[q] EXCEPT !.cover = 0, !.locked = FALSE]
    BY <1>2, <2>2 DEF ClearDanglingCovers
  <2>4. ASSUME NEW q \in Persons
        PROVE  /\ person'[q].here = person[q].here /\ person'[q].named = person[q].named
               /\ person'[q].purge = person[q].purge /\ person'[q].cover \in {person[q].cover, 0}
    <3>1. CASE person'[q] = person[q]
      BY <3>1
    <3>2. CASE person'[q] = [person[q] EXCEPT !.cover = 0, !.locked = FALSE]
      <4>1. person[q] \in PersonRows
        OBVIOUS
      <4> QED BY ONLY <3>2, <4>1 DEF PersonRows
    <3> QED BY <2>3, <3>1, <3>2
  <2> QED BY <1>0, <2>1, <2>3, <2>4, RowsKeep
<1>3. ASSUME NEW p \in Persons, GraceEnds(p) PROVE PeopleInv'
  <2>1. /\ person' = [person EXCEPT ![p].purge = "due"] /\ person[p].purge = "grace"
        /\ UNCHANGED <<there, content, seen, scanned, face, bind, run, backoff, sweep, pick, wanted>>
    BY <1>3 DEF GraceEnds, photos
  <2>2. [person[p] EXCEPT !.purge = "due"] \in PersonRows
    BY DEF PersonRows
  <2>3. person' \in [Persons -> PersonRows] /\ \A q \in Persons \ {p} : person'[q] = person[q]
    BY <2>1, <2>2
  <2>4. person'[p].here = person[p].here /\ person'[p].cover = person[p].cover /\ p \notin wanted
    BY <1>0, <2>1 DEF PersonRows
  <2> QED BY <1>0, <2>1, <2>3, <2>4, RowsKeep
<1>4. CASE PurgeDuePersons
  BY <1>0, <1>4, RowsKeep DEF PurgeDuePersons, photos, Here
<1>5. CASE PinCover
  <2>1. pick' = NoPick /\ UNCHANGED <<there, content, seen, scanned, face, bind, run, backoff, sweep, wanted>>
    BY <1>5 DEF PinCover, photos
  <2>2. CASE person' = person
    BY <1>0, <2>1, <2>2, RowsKeep
  <2>3. CASE person' # person
    <3>1. person[pick.p].here /\ person' = [person EXCEPT ![pick.p].locked = TRUE, ![pick.p].cover = pick.f]
      BY <1>5, <2>3 DEF PinCover
    <3>2. pick.p \in Persons
      BY <2>3, <3>1
    <3> DEFINE row == [person[pick.p] EXCEPT !.locked = TRUE, !.cover = pick.f]
    <3>3. row \in PersonRows /\ row.here /\ row.cover = pick.f /\ row.named = person[pick.p].named /\ row.purge = person[pick.p].purge
      BY <3>1, <3>2 DEF PersonRows
    <3>4. person' = [person EXCEPT ![pick.p] = row]
      BY <3>1, <3>2
    <3> HIDE DEF row
    <3>5. person' \in [Persons -> PersonRows] /\ person'[pick.p] = row /\ \A q \in Persons \ {pick.p} : person'[q] = person[q]
      BY <3>2, <3>3, <3>4
    <3>6. pick.f \in Faces => bind[pick.f] = pick.p
      BY <3>1, <3>2 DEF PickFits
    <3> QED BY <1>0, <2>1, <3>1, <3>2, <3>3, <3>5, <3>6, RowsKeep
  <2> QED BY <2>2, <2>3
<1> QED BY <1>1, <1>2, <1>3, <1>4, <1>5

\* The user renames, hides, restores, and chooses covers.
LEMMA EditsKeep ==
    ASSUME PeopleInv, NEW p \in Persons,
           UpdatePerson(p) \/ HidePerson(p) \/ HidePersonForPurge(p) \/ RestorePerson(p) \/ UnlockPersonCover(p)
    PROVE  PeopleInv'
<1> USE FaceNumbers DEF PeopleInv, PeopleTyped
<1>0. \A q \in wanted : q \in Persons /\ person[q].here /\ person[q].named /\ person[q].purge = "no"
  BY DEF NamedSurvive, WantedRest
<1>1. /\ person[p].here
      /\ UNCHANGED <<there, content, seen, scanned, face, bind, run, backoff, sweep, pick>>
  BY DEF UpdatePerson, HidePerson, HidePersonForPurge, RestorePerson, UnlockPersonCover, PersonAct, photos
<1>2. PICK row : /\ person' = [person EXCEPT ![p] = row] /\ row \in PersonRows /\ row.here
                 /\ row.cover \in Faces => row.cover = person[p].cover \/ bind[row.cover] = p
                 /\ wanted' \subseteq wanted \cup {p} /\ (p \in wanted' => row.named /\ row.purge = "no")
  <2>1. CASE UpdatePerson(p)
    <3>0. person[p] \in PersonRows
      OBVIOUS
    <3> DEFINE row == [person[p] EXCEPT !.named = TRUE]
    <3>1. person' = [person EXCEPT ![p] = row]
      BY <2>1 DEF UpdatePerson
    <3>2. row \in PersonRows /\ row.here = person[p].here /\ row.cover = person[p].cover /\ row.named /\ row.purge = person[p].purge
      BY ONLY <3>0 DEF PersonRows
    <3>3. wanted' = wanted \cup (IF person[p].purge = "no" THEN {p} ELSE {})
      BY <2>1 DEF UpdatePerson
    <3> HIDE DEF row
    <3> QED BY <1>0, <1>1, <3>1, <3>2, <3>3
  <2>2. CASE HidePerson(p)
    <3>0. person[p] \in PersonRows
      OBVIOUS
    <3> DEFINE row == [person[p] EXCEPT !.hidden = TRUE]
    <3>1. person' = [person EXCEPT ![p] = row]
      BY <2>2 DEF HidePerson
    <3>2. row \in PersonRows /\ row.here = person[p].here /\ row.cover = person[p].cover /\ row.named = person[p].named /\ row.purge = person[p].purge
      BY ONLY <3>0 DEF PersonRows
    <3>3. wanted' = wanted
      BY <2>2 DEF HidePerson
    <3> HIDE DEF row
    <3> QED BY <1>0, <1>1, <3>1, <3>2, <3>3
  <2>3. CASE HidePersonForPurge(p)
    <3>0. person[p] \in PersonRows
      OBVIOUS
    <3> DEFINE row == [person[p] EXCEPT !.hidden = TRUE, !.purge = "grace"]
    <3>1. person' = [person EXCEPT ![p] = row]
      BY <2>3 DEF HidePersonForPurge
    <3>2. row \in PersonRows /\ row.here = person[p].here /\ row.cover = person[p].cover /\ row.named = person[p].named /\ row.purge = "grace"
      BY ONLY <3>0 DEF PersonRows
    <3>3. wanted' = wanted \ {p}
      BY <2>3 DEF HidePersonForPurge
    <3> HIDE DEF row
    <3> QED BY <1>0, <1>1, <3>1, <3>2, <3>3
  <2>4. CASE RestorePerson(p)
    <3>0. person[p] \in PersonRows
      OBVIOUS
    <3> DEFINE row == [person[p] EXCEPT !.hidden = FALSE, !.purge = "no"]
    <3>1. person' = [person EXCEPT ![p] = row]
      BY <2>4 DEF RestorePerson
    <3>2. row \in PersonRows /\ row.here = person[p].here /\ row.cover = person[p].cover /\ row.named = person[p].named /\ row.purge = "no"
      BY ONLY <3>0 DEF PersonRows
    <3>3. wanted' = wanted \cup (IF person[p].named THEN {p} ELSE {})
      BY <2>4 DEF RestorePerson
    <3> HIDE DEF row
    <3> QED BY <1>0, <1>1, <3>1, <3>2, <3>3
  <2>5. CASE UnlockPersonCover(p)
    <3>0. person[p] \in PersonRows
      OBVIOUS
    <3> DEFINE free == [person[p] EXCEPT !.locked = FALSE]
               fs == {f \in Members(p) : face[f] = "active"}
               row == Recomputed(free, fs)
    <3>1. free \in PersonRows /\ free.here = person[p].here /\ free.named = person[p].named /\ free.purge = person[p].purge
      BY ONLY <3>0 DEF PersonRows
    <3>2. fs \in SUBSET Faces /\ \A f \in fs : bind[f] = p
      BY DEF Members
    <3>3. person' = [person EXCEPT ![p] = row] /\ wanted' = wanted
      BY <2>5 DEF UnlockPersonCover
    <3> HIDE DEF free, fs
    <3>4. /\ row \in PersonRows /\ row.cover \in fs \cup {0} /\ row.here = free.here /\ row.named = free.named
          /\ row.purge = free.purge
      BY <3>1, <3>2, RecomputedFits
    <3> HIDE DEF row
    <3> QED BY <1>0, <1>1, <3>1, <3>2, <3>3, <3>4
  <2> QED BY <2>1, <2>2, <2>3, <2>4, <2>5
<1>3. person' \in [Persons -> PersonRows] /\ person'[p] = row /\ \A q \in Persons \ {p} : person'[q] = person[q]
  BY <1>2
<1> QED BY <1>0, <1>1, <1>2, <1>3, RowsKeep

LEMMA ChoiceKeeps == ASSUME PeopleInv, NEW p \in Persons, NEW a \in Assets, SetPersonCover(p, a) PROVE PeopleInv'
<1> USE FaceNumbers DEF PeopleInv, PeopleTyped
<1> DEFINE fs == {f \in Members(p) : AssetOf[f] = a /\ face[f] = "active"}
           f == selectCoverFace(fs)
<1>1. fs \in SUBSET Faces /\ fs # {} /\ pick' = [p |-> p, f |-> f]
  BY DEF SetPersonCover, Members
<1>2. f \in fs
  BY <1>1, BestFace
<1>3. f \in Faces /\ bind[f] = p
  BY <1>2 DEF Members
<1> HIDE DEF f, fs
<1>4. UNCHANGED <<there, content, seen, scanned, face, bind, run, backoff, sweep, person, wanted>>
  BY DEF SetPersonCover, PersonAct, photos
<1>5. \A q \in wanted : person[q].here /\ person[q].named /\ person[q].purge = "no"
  BY DEF NamedSurvive, WantedRest
<1> QED BY <1>1, <1>3, <1>4, <1>5, RowsKeep

\* Faces that leave a person leave neither a rebuild nor the choice of a cover behind.
LEMMA LeavesSpares ==
    ASSUME PeopleUndisturbed, NEW fs, Leaves(fs) PROVE (run.pc = "rebuild" => fs = {}) /\ pick.f \notin fs
BY DEF PeopleUndisturbed, Leaves

LEMMA PurgeKeeps ==
    ASSUME PeopleUndisturbed, PeopleInv, NEW p \in Persons, Leaves(Members(p)), PurgeRows(p),
           UNCHANGED <<there, content, seen, scanned, run, backoff, pick>>, sweep' \subseteq sweep,
           wanted' \subseteq wanted \ {p}
    PROVE  PeopleInv'
<1> USE FaceNumbers, RowsTyped DEF PeopleInv, PeopleTyped
<1>1. (run.pc = "rebuild" => Members(p) = {}) /\ pick.f \notin Members(p)
  BY LeavesSpares
<1>2. /\ face' \in [Faces -> FaceStates] /\ bind' \in [Faces -> Persons \cup {0}]
      /\ \A f \in Faces : \/ bind[f] = p /\ bind'[f] = 0
                          \/ bind[f] # p /\ bind'[f] = bind[f] /\ face'[f] = face[f]
  BY DEF PurgeRows, FaceStates
<1>3. person' \in [Persons -> PersonRows] /\ ~person'[p].here /\ \A q \in Persons \ {p} : person'[q] = person[q]
  BY DEF PurgeRows, Absent
<1>4. PeopleTyped'
  BY <1>2, <1>3
<1>5. HandFits' /\ LoadedStay'
  BY <1>1, <1>2 DEF HandFits, LoadedStay, Members, FaceRuns
<1>6. PickFits'
  BY <1>1, <1>2, <1>3 DEF PickFits, Members
<1>7. WantedRest' /\ NamedSurvive'
  BY <1>3 DEF WantedRest, NamedSurvive
<1>8. ExcludedStayOut'
  <2>1. ASSUME NEW f \in Faces, bind'[f] # 0 PROVE face'[f] = "active" /\ person'[bind'[f]].here
    <3>1. bind[f] # p /\ bind[f] # 0 /\ bind'[f] = bind[f] /\ face'[f] = face[f]
      BY <1>2, <2>1
    <3>2. bind[f] \in Persons \ {p} /\ face[f] = "active" /\ person[bind[f]].here
      BY <3>1 DEF ExcludedStayOut
    <3>3. person'[bind[f]] = person[bind[f]]
      BY <1>3, <3>2
    <3> QED BY <3>1, <3>2, <3>3
  <2> QED BY <2>1 DEF ExcludedStayOut
<1>9. CoverIsMember'
  <2>1. ASSUME NEW q \in Persons, person'[q].here, person'[q].cover \in Faces PROVE bind'[person'[q].cover] = q
    <3>1. q # p /\ person'[q] = person[q]
      BY <1>3, <2>1
    <3>2. bind[person[q].cover] = q
      BY <2>1, <3>1 DEF CoverIsMember, Here
    <3> QED BY <1>2, <2>1, <3>1, <3>2
  <2> QED BY <2>1 DEF CoverIsMember, Here
<1> QED BY <1>4, <1>5, <1>6, <1>7, <1>8, <1>9

LEMMA PurgesKeep ==
    ASSUME PeopleUndisturbed, PeopleInv, NEW p \in Persons, purgeDuePerson(p) \/ PurgePerson(p)
    PROVE  PeopleInv'
<1> USE DEF PeopleInv, PeopleTyped
<1>1. CASE PurgePerson(p)
  BY <1>1, PurgeKeeps DEF PurgePerson, PersonAct, photos
<1>2. CASE purgeDuePerson(p) /\ Due(p)
  <2>1. p \notin wanted
    BY <1>2 DEF Due, WantedRest
  <2> QED BY <1>2, <2>1, PurgeKeeps DEF purgeDuePerson, photos
<1>3. CASE purgeDuePerson(p) /\ ~Due(p)
  <2>1. UNCHANGED <<there, content, seen, scanned, face, bind, person, run, backoff, pick, wanted>> /\ sweep' \subseteq Persons
    BY <1>3 DEF purgeDuePerson, photos
  <2>2. \A q \in wanted : person[q].here /\ person[q].named /\ person[q].purge = "no"
    BY DEF NamedSurvive, WantedRest
  <2> QED BY <2>1, <2>2, RowsKeep
<1> QED BY <1>1, <1>2, <1>3

LEMMA DetachKeeps ==
    ASSUME PeopleUndisturbed, PeopleInv, NEW p \in Persons, NEW a \in Assets, DetachAssetsFromPerson(p, a)
    PROVE  PeopleInv'
<1> USE FaceNumbers, RowsTyped DEF PeopleInv, PeopleTyped
<1> DEFINE out  == {f \in Members(p) : AssetOf[f] = a /\ face[f] = "active"}
           rest == {f \in Members(p) \ out : face[f] = "active"}
           row  == IF Members(p) = out /\ ~Kept(p) THEN Absent ELSE Recomputed(person[p], rest)
<1>1. /\ person[p].here /\ Leaves(out)
      /\ face' = [f \in Faces |-> IF f \in out THEN "excluded" ELSE face[f]]
      /\ bind' = [f \in Faces |-> IF f \in out THEN 0 ELSE bind[f]]
      /\ person' = [person EXCEPT ![p] = row]
      /\ UNCHANGED <<there, content, seen, scanned, run, backoff, sweep, pick, wanted>>
  BY DEF DetachAssetsFromPerson, PersonAct, photos
<1>2. (run.pc = "rebuild" => out = {}) /\ pick.f \notin out
  BY <1>1, LeavesSpares
<1>3. out \subseteq Faces /\ rest \in SUBSET Faces /\ \A f \in out : bind[f] = p
  BY DEF Members
<1>3a. \A f \in rest : f \notin out /\ bind[f] = p
  BY DEF Members
<1>4. person[p] \in PersonRows
  OBVIOUS
<1>5. /\ row \in PersonRows /\ row.cover \in rest \cup {0}
      /\ Kept(p) \/ Members(p) # out => row.here /\ row.named = person[p].named /\ row.purge = person[p].purge
      /\ ~row.here => Members(p) = out
  <2>1. CASE Members(p) = out /\ ~Kept(p)
    BY <2>1 DEF Absent
  <2>2. CASE ~(Members(p) = out /\ ~Kept(p))
    <3>1. row = Recomputed(person[p], rest)
      BY <2>2
    <3> HIDE DEF rest, row
    <3>2. /\ row \in PersonRows /\ row.cover \in rest \cup {0} /\ row.here = person[p].here
          /\ row.named = person[p].named /\ row.purge = person[p].purge
      BY <1>3, <1>4, <3>1, RecomputedFits
    <3> QED BY <1>1, <3>2
  <2> QED BY <2>1, <2>2
<1> HIDE DEF row, out, rest
<1>6. /\ face' \in [Faces -> FaceStates] /\ bind' \in [Faces -> Persons \cup {0}]
      /\ \A f \in Faces : f \in out => bind'[f] = 0
      /\ \A f \in Faces : f \notin out => bind'[f] = bind[f] /\ face'[f] = face[f]
  BY <1>1 DEF FaceStates
<1>7. person' \in [Persons -> PersonRows] /\ person'[p] = row /\ \A q \in Persons \ {p} : person'[q] = person[q]
  BY <1>1, <1>5
<1>8. PeopleTyped'
  BY <1>1, <1>6, <1>7
<1>9. HandFits' /\ LoadedStay'
  BY <1>1, <1>2, <1>6 DEF HandFits, LoadedStay, FaceRuns
<1>10. PickFits'
  <2>1. pick.p \in Persons /\ person'[pick.p].here => person[pick.p].here
    BY <1>1, <1>7
  <2> QED BY <1>1, <1>2, <1>6, <2>1 DEF PickFits
<1>11. WantedRest' /\ NamedSurvive'
  <2>1. ASSUME NEW q \in wanted PROVE person'[q].here /\ person'[q].named /\ person'[q].purge = "no"
    <3>1. q \in Persons /\ person[q].here /\ person[q].named /\ person[q].purge = "no"
      BY DEF WantedRest, NamedSurvive
    <3>2. q = p => Kept(p)
      BY <3>1 DEF Kept
    <3> QED BY <1>5, <1>7, <3>1, <3>2
  <2> QED BY <1>1, <2>1 DEF WantedRest, NamedSurvive
<1>12. ExcludedStayOut'
  <2>1. ASSUME NEW f \in Faces, bind'[f] # 0 PROVE face'[f] = "active" /\ person'[bind'[f]].here
    <3>1. f \notin out /\ bind'[f] = bind[f] /\ face'[f] = face[f] /\ bind[f] \in Persons
      BY <1>6, <2>1
    <3>2. face[f] = "active" /\ person[bind[f]].here
      BY <2>1, <3>1 DEF ExcludedStayOut
    <3>3. bind[f] = p => f \in Members(p)
      BY DEF Members
    <3> QED BY <1>5, <1>7, <3>1, <3>2, <3>3
  <2> QED BY <2>1 DEF ExcludedStayOut
<1>13. CoverIsMember'
  <2>1. ASSUME NEW q \in Persons, person'[q].here, person'[q].cover \in Faces PROVE bind'[person'[q].cover] = q
    <3>1. CASE q = p
      <4>1. person'[q].cover \in rest \cup {0} /\ person'[q].cover # 0
        BY <1>5, <1>7, <2>1, <3>1
      <4>2. person'[q].cover \in rest
        BY <4>1
      <4> QED BY <1>3a, <1>6, <2>1, <3>1, <4>2
    <3>2. CASE q # p
      <4>1. bind[person[q].cover] = q /\ person'[q] = person[q]
        BY <1>7, <2>1, <3>2 DEF CoverIsMember, Here
      <4> QED BY <1>3, <1>6, <2>1, <3>2, <4>1
    <3> QED BY <3>1, <3>2
  <2> QED BY <2>1 DEF CoverIsMember, Here
<1> QED BY <1>8, <1>9, <1>10, <1>11, <1>12, <1>13

LEMMA MergeKeeps ==
    ASSUME PeopleUndisturbed, PeopleInv, NEW from \in Persons, NEW into \in Persons, MergePersons(from, into)
    PROVE  PeopleInv'
<1> USE FaceNumbers, RowsTyped DEF PeopleInv, PeopleTyped
<1> DEFINE fs  == {f \in Members(from) \cup Members(into) : face[f] = "active"}
           row == Recomputed(person[into], fs)
<1>1. /\ from # into /\ person[from].here /\ person[into].here /\ pick.f \notin Members(from)
      /\ bind' = [f \in Faces |-> IF bind[f] = from THEN into ELSE bind[f]]
      /\ person' = [person EXCEPT ![from] = Absent, ![into] = row]
      /\ wanted' = wanted \ {from}
      /\ UNCHANGED <<there, content, seen, scanned, face, run, backoff, sweep, pick>>
  BY DEF MergePersons, PersonAct, photos, PeopleUndisturbed
<1>2. fs \in SUBSET Faces /\ (\A f \in fs : bind[f] \in {from, into}) /\ person[into] \in PersonRows
  BY DEF Members
<1> HIDE DEF fs
<1>3. /\ row \in PersonRows /\ row.cover \in fs \cup {0} /\ row.here /\ row.named = person[into].named
      /\ row.purge = person[into].purge
  BY <1>1, <1>2, RecomputedFits
<1> HIDE DEF row
<1>4. /\ person' \in [Persons -> PersonRows] /\ person'[from] = Absent /\ person'[into] = row
      /\ \A q \in Persons \ {from, into} : person'[q] = person[q]
  BY <1>1, <1>3
<1>5. /\ bind' \in [Faces -> Persons \cup {0}]
      /\ \A f \in Faces : bind[f] = from => bind'[f] = into
      /\ \A f \in Faces : bind[f] # from => bind'[f] = bind[f]
  BY <1>1
<1>6. PeopleTyped'
  BY <1>1, <1>4, <1>5
<1>7. HandFits' /\ LoadedStay'
  BY <1>1 DEF HandFits, LoadedStay
<1>8. PickFits'
  <2>1. SUFFICES ASSUME pick.f \in Faces, pick.p \in Persons, person'[pick.p].here PROVE bind'[pick.f] = pick.p
    BY <1>1 DEF PickFits
  <2>2. pick.p # from /\ person[pick.p].here
    BY <1>1, <1>4, <2>1 DEF Absent
  <2> QED BY <1>5, <2>1, <2>2 DEF PickFits
<1>9. WantedRest' /\ NamedSurvive'
  <2>1. ASSUME NEW q \in wanted \ {from} PROVE person'[q].here /\ person'[q].named /\ person'[q].purge = "no"
    <3>1. q \in Persons /\ person[q].here /\ person[q].named /\ person[q].purge = "no"
      BY DEF WantedRest, NamedSurvive
    <3> QED BY <1>3, <1>4, <2>1, <3>1
  <2> QED BY <1>1, <2>1 DEF WantedRest, NamedSurvive
<1>10. ExcludedStayOut'
  <2>1. ASSUME NEW f \in Faces, bind'[f] # 0 PROVE face'[f] = "active" /\ person'[bind'[f]].here
    <3>1. bind[f] \in Persons /\ face[f] = "active" /\ person[bind[f]].here
      BY <1>5, <2>1 DEF ExcludedStayOut
    <3>2. bind'[f] = into \/ (bind[f] \in Persons \ {from, into} /\ bind'[f] = bind[f])
      BY <1>5, <3>1
    <3>3. person'[into].here /\ \A q \in Persons \ {from, into} : person'[q] = person[q]
      BY <1>3, <1>4
    <3>4. person'[bind'[f]].here
      BY <3>1, <3>2, <3>3
    <3> QED BY <1>1, <3>1, <3>4
  <2> QED BY <2>1 DEF ExcludedStayOut
<1>11. CoverIsMember'
  <2>1. ASSUME NEW q \in Persons, person'[q].here, person'[q].cover \in Faces PROVE bind'[person'[q].cover] = q
    <3>1. q # from
      BY <1>4, <2>1 DEF Absent
    <3>2. CASE q = into
      BY <1>2, <1>3, <1>4, <1>5, <2>1, <3>2
    <3>3. CASE q # into
      BY <1>4, <1>5, <2>1, <3>1, <3>3 DEF CoverIsMember, Here
    <3> QED BY <3>2, <3>3
  <2> QED BY <2>1 DEF CoverIsMember, Here
<1> QED BY <1>6, <1>7, <1>8, <1>9, <1>10, <1>11

LEMMA PeopleSteps == ASSUME PeopleUndisturbed, PeopleInv, [PpNext]_ppVars PROVE PeopleInv'
<1>1. ASSUME NEW g \in PpGoroutines, PpRuns(g) PROVE PeopleInv'
  <2>1. CASE RunPipeline \/ DetectCall \/ Detected \/ loadFacesWithProgress \/ BackoffEnds
    BY <2>1, RunKeeps
  <2>2. CASE DetectDelete \/ DetectInsert \/ DetectMark
    BY <2>2, DetectionKeeps
  <2>3. CASE NoFacesLeft \/ rebuildPersonsWithProgress
    BY <2>3, NoFacesKeeps, RebuildKeeps
  <2>4. CASE purgeEmptyAutoPersons \/ ClearDanglingCovers \/ PurgeDuePersons \/ PinCover
    BY <2>4, SchedulerKeeps
  <2>5. ASSUME NEW p \in Persons, purgeDuePerson(p) PROVE PeopleInv'
    BY <2>5, PurgesKeep
  <2>6. ASSUME NEW p \in Persons, GraceEnds(p) PROVE PeopleInv'
    BY <2>6, SchedulerKeeps
  <2> QED BY <1>1, <2>1, <2>2, <2>3, <2>4, <2>5, <2>6 DEF PpRuns
<1>2. CASE PpUser
  <2>1. CASE RunPipeline \/ RunClustering
    BY <2>1, RunKeeps
  <2>2. ASSUME NEW p \in Persons,
               UpdatePerson(p) \/ HidePerson(p) \/ HidePersonForPurge(p) \/ RestorePerson(p) \/ PurgePerson(p) \/ UnlockPersonCover(p)
        PROVE  PeopleInv'
    BY <2>2, EditsKeep, PurgesKeep
  <2>3. ASSUME NEW p \in Persons, NEW a \in Assets, DetachAssetsFromPerson(p, a) \/ SetPersonCover(p, a) PROVE PeopleInv'
    BY <2>3, DetachKeeps, ChoiceKeeps
  <2>4. ASSUME NEW p \in Persons, NEW q \in Persons, MergePersons(p, q) PROVE PeopleInv'
    BY <2>4, MergeKeeps
  <2> QED BY <1>2, <2>1, <2>2, <2>3, <2>4 DEF PpUser
<1>3. CASE DetectFails \/ DetectLeaves \/ InsertFails
  BY <1>3, RunKeeps, DetectionKeeps
<1>4. ASSUME NEW a \in Assets, FileReplaced(a) \/ PhotoGone(a) PROVE PeopleInv'
  BY <1>4, LibraryKeeps
<1>5. CASE FaceRestart
  BY <1>5, LibraryKeeps
<1>6. CASE UNCHANGED ppVars
  BY <1>6 DEF ppVars, PeopleInv, PeopleTyped, HandFits, PickFits, LoadedStay, WantedRest, ExcludedStayOut,
              NamedSurvive, CoverIsMember, Here
<1> QED BY <1>1, <1>2, <1>3, <1>4, <1>5, <1>6 DEF PpNext

\* A rebuild that is over left every anchored person with the faces it had.
LEMMA AnchoredKept ==
    ASSUME PeopleInv, [PpNext]_ppVars, run.pc = "rebuild", run'.pc = "idle", NEW p \in Persons, Anchored(p)
    PROVE  person'[p].here /\ \A f \in Members(p) : bind'[f] = p
<1> USE DEF PeopleInv, PeopleTyped
<1>1. CASE rebuildPersonsWithProgress
  <2> DEFINE anchors == {q \in Here : Anchored(q)}
  <2>1. Rebuild(anchors) /\ p \in anchors
    BY <1>1 DEF rebuildPersonsWithProgress, Here, Anchored
  <2> HIDE DEF anchors
  <2>2. \/ UNCHANGED <<bind, person>>
        \/ /\ person'[p].here = person[p].here
           /\ \A f \in Faces : bind[f] \in anchors => bind'[f] = bind[f]
    BY <2>1, RebuildFits DEF anchors
  <2> QED BY <2>1, <2>2 DEF Anchored, Members
<1>2. CASE FaceRestart
  BY <1>2 DEF FaceRestart, Anchored, Members
<1>3. CASE UNCHANGED run
  BY <1>3
<1>4. run' = run \/ rebuildPersonsWithProgress \/ FaceRestart
  BY DEF PpNext, ppVars, PpRuns, PpUser, RunPipeline, RunClustering, DetectCall, DetectFails, DetectLeaves, DetectDelete,
         DetectInsert, InsertFails, Inserted, DetectMark, Detected, NoFacesLeft, loadFacesWithProgress, BackoffEnds, purgeEmptyAutoPersons,
         ClearDanglingCovers, PurgeDuePersons, purgeDuePerson, GraceEnds, PinCover, PersonAct, UpdatePerson,
         HidePerson, HidePersonForPurge, RestorePerson, PurgePerson, UnlockPersonCover, DetachAssetsFromPerson,
         SetPersonCover, MergePersons, FileReplaced, PhotoGone
<1> QED BY <1>1, <1>2, <1>3, <1>4

-----------------------------------------------------------------------------
(* Smart views.                                                                *)

ViewUndisturbed == ~PinInEval /\ ~AddInConvert

RowOrigins == {"none", "auto", "pinned", "excluded"}
ItemStates  == {"shown", "trashed", "offline", "gone"}
RowSets == [Items -> RowOrigins]
Evals   == [pc : {"idle", "match", "read", "write"}, keep : SUBSET Items, existing : RowSets]
Convs   == [pc : {"idle", "from_pin", "from_delete", "from_undo", "to_add", "to_delete"}, members : SUBSET Items]

PinnedRows == {x \in Items : rows[x] = "pinned"}

-----------------------------------------------------------------------------
(* The invariant.                                                              *)

ViewTyped ==
    /\ item \in [Items -> ItemStates] /\ hits \subseteq Items /\ rows \in RowSets
    /\ view \in [here : BOOLEAN, live : BOOLEAN]
    /\ album \in [here : BOOLEAN, members : SUBSET Items]
    /\ eval \in [Evaluators -> Evals] /\ conv \in Convs
    /\ placed \subseteq Items /\ refused \subseteq Items

\* What is not there is empty, and nobody evaluates a view that is not there.
AbsentIsEmpty ==
    /\ ~view.here => rows = NoRows /\ refused = {} /\ \A e \in Evaluators : eval[e].pc = "idle"
    /\ ~album.here => album.members = {}

\* Who is about to write read the rows that users placed as they still are.
ReadIsFresh ==
    \A e \in Evaluators : eval[e].pc = "write" =>
        \A x \in Items : rows[x] \in {"pinned", "excluded"} => eval[e].existing[x] = rows[x]

PlacedSomewhere == placed \subseteq album.members \cup PinnedRows

\* Before a conversion deletes the old one, the new one has what the user placed, and
\* the old one has it for as long as the new one may be deleted again.
ConversionCarries ==
    /\ conv.pc \in {"from_pin", "from_delete", "from_undo"} => placed \subseteq album.members
    /\ conv.pc = "from_pin" => /\ view.here /\ refused = {} /\ eval["request"].pc = "idle"
                               /\ album.members \subseteq conv.members
    /\ conv.pc = "from_delete" => placed \subseteq PinnedRows
    /\ conv.pc = "to_add" => album.here /\ placed \subseteq PinnedRows \cap conv.members
    /\ conv.pc = "to_delete" => placed \subseteq album.members \cap PinnedRows

ViewInv == ViewTyped /\ AbsentIsEmpty /\ ReadIsFresh /\ ExclusionsStay /\ PlacedSomewhere /\ ConversionCarries

LEMMA ViewStarts == ASSUME SvInit PROVE ViewInv
<1> USE MatchesAreItems DEF SvInit
<1>1. NoRows \in RowSets /\ \A x \in Items : NoRows[x] = "none"
  BY DEF NoRows, RowSets, RowOrigins
<1>2. NoEval \in Evals /\ NoEval.pc = "idle" /\ NoConv \in Convs /\ NoConv.pc = "idle"
  BY DEF NoEval, Evals, NoConv, Convs, RowSets, RowOrigins
<1>3. eval \in [Evaluators -> Evals] /\ \A e \in Evaluators : eval[e].pc = "idle"
  BY <1>2
<1>4. ViewTyped
  BY <1>1, <1>2, <1>3 DEF ViewTyped, ItemStates
<1> QED BY <1>1, <1>2, <1>3, <1>4
        DEF ViewInv, AbsentIsEmpty, ReadIsFresh, ExclusionsStay, PlacedSomewhere, ConversionCarries

-----------------------------------------------------------------------------
(* Evaluations.                                                                *)

\* An evaluator that goes another way leaves the others alone.
LEMMA EvalSetTo ==
    ASSUME eval \in [Evaluators -> Evals], NEW e \in Evaluators, NEW v \in Evals, eval' = [eval EXCEPT ![e] = v]
    PROVE  /\ eval' \in [Evaluators -> Evals] /\ eval'[e] = v
           /\ \A f \in Evaluators : f # e => eval'[f] = eval[f]
OBVIOUS

LEMMA StartsTyped == [NoEval EXCEPT !.pc = "match"] \in Evals /\ [NoEval EXCEPT !.pc = "match"].pc = "match"
BY DEF NoEval, Evals, RowSets, RowOrigins

LEMMA NoEvalTyped == NoEval \in Evals /\ NoEval.pc = "idle"
BY DEF NoEval, Evals, RowSets, RowOrigins

LEMMA NoRowsTyped == NoRows \in RowSets /\ \A x \in Items : NoRows[x] = "none"
BY DEF NoRows, RowSets, RowOrigins

LEMMA NoConvTyped == NoConv \in Convs /\ NoConv.pc = "idle"
BY DEF NoConv, Convs

\* The steps of an evaluation before it writes.
LEMMA EvalStepsKeep ==
    ASSUME ViewInv, NEW e \in Evaluators,
           (e = "batch" /\ EvaluateAllLive) \/ EvalMatches(e) \/ EvalReads(e)
    PROVE  ViewInv'
<1> USE DEF ViewInv, ViewTyped
<1>1. PICK v \in Evals : /\ eval' = [eval EXCEPT ![e] = v]
                         /\ view.here /\ (eval[e].pc # "idle" \/ e = "batch")
                         /\ v.pc = "write" => v.existing = rows
  <2>1. CASE EvaluateAllLive /\ e = "batch"
    BY <2>1, StartsTyped DEF EvaluateAllLive, Evaluates
  <2>2. CASE EvalMatches(e)
    <3>1. [eval[e] EXCEPT !.pc = "read", !.keep = {x \in hits : item[x] = "shown"}] \in Evals
      BY DEF Evals
    <3>2. eval' = [eval EXCEPT ![e] = [eval[e] EXCEPT !.pc = "read", !.keep = {x \in hits : item[x] = "shown"}]]
      BY <2>2 DEF EvalMatches
    <3>3. [eval[e] EXCEPT !.pc = "read", !.keep = {x \in hits : item[x] = "shown"}].pc = "read"
      BY DEF Evals
    <3> QED BY <2>2, <3>1, <3>2, <3>3 DEF EvalMatches, AbsentIsEmpty
  <2>3. CASE EvalReads(e)
    <3>1. [eval[e] EXCEPT !.pc = "write", !.existing = rows] \in Evals
      BY DEF Evals
    <3>2. eval' = [eval EXCEPT ![e] = [eval[e] EXCEPT !.pc = "write", !.existing = rows]]
      BY <2>3 DEF EvalReads
    <3>3. [eval[e] EXCEPT !.pc = "write", !.existing = rows].existing = rows
      BY DEF Evals
    <3> QED BY <2>3, <3>1, <3>2, <3>3 DEF EvalReads, AbsentIsEmpty
  <2> QED BY <2>1, <2>2, <2>3
<1>2. UNCHANGED <<item, hits, view, rows, album, conv, placed, refused>>
  BY DEF EvaluateAllLive, EvalMatches, EvalReads, asked
<1>3. /\ eval' \in [Evaluators -> Evals] /\ eval'[e] = v
      /\ \A f \in Evaluators : f # e => eval'[f] = eval[f]
  BY <1>1, EvalSetTo
<1>4. conv.pc = "from_pin" => eval'["request"].pc = "idle"
  BY <1>1, <1>3 DEF ConversionCarries, Evaluators
<1>5. ReadIsFresh'
  BY <1>1, <1>2, <1>3 DEF ReadIsFresh
<1>6. ViewTyped' /\ AbsentIsEmpty'
  BY <1>1, <1>2, <1>3 DEF AbsentIsEmpty
<1>7. ExclusionsStay' /\ PlacedSomewhere' /\ ConversionCarries'
  BY <1>2, <1>4 DEF ExclusionsStay, PlacedSomewhere, ConversionCarries, PinnedRows
<1> QED BY <1>5, <1>6, <1>7

\* The write of an evaluation leaves alone what users pinned or excluded.
LEMMA WritesSpareUsers ==
    ASSUME ViewInv, NEW e \in Evaluators, EvalWrites(e)
    PROVE  /\ rows' \in RowSets
           /\ \A x \in Items : rows[x] \in {"pinned", "excluded"} => rows'[x] = rows[x]
           /\ \A x \in Items : rows'[x] \in {"pinned", "excluded"} => rows'[x] = rows[x]
<1>1. CASE Fits(e)
  <2>1. rows' = Reconciled(eval[e].keep, eval[e].existing)
    BY <1>1 DEF EvalWrites
  <2>2. \A x \in Items : rows'[x] = IF x \in eval[e].keep /\ eval[e].existing[x] = "none" THEN "auto"
                                    ELSE IF x \notin eval[e].keep /\ eval[e].existing[x] = "auto" THEN "none"
                                    ELSE rows[x]
    BY <2>1 DEF Reconciled
  <2>3. rows' \in RowSets
    BY <2>1 DEF Reconciled, ViewInv, ViewTyped, RowSets, RowOrigins
  <2>4. \A x \in Items : rows[x] \in {"pinned", "excluded"} => eval[e].existing[x] = rows[x]
    BY DEF ViewInv, ReadIsFresh, EvalWrites
  <2> QED BY <2>2, <2>3, <2>4
<1>2. CASE ~Fits(e)
  BY <1>2 DEF EvalWrites, ViewInv, ViewTyped
<1> QED BY <1>1, <1>2

LEMMA WritesKeep == ASSUME ViewInv, NEW e \in Evaluators, EvalWrites(e) PROVE ViewInv'
<1> USE DEF ViewInv, ViewTyped
<1>1. UNCHANGED <<item, hits, view, album, placed, refused>>
  BY DEF EvalWrites, asked
<1>10. conv' \in Convs /\ (conv' = conv \/ (conv.pc = "from_delete" /\ conv'.pc = "from_undo"))
  BY DEF EvalWrites, Convs
<1>2. /\ eval' \in [Evaluators -> Evals] /\ eval'[e].pc = "idle"
      /\ \A f \in Evaluators : f # e => eval'[f] = eval[f]
  BY EvalSetTo, NoEvalTyped DEF EvalWrites
<1>3. /\ rows' \in RowSets
      /\ \A x \in Items : rows[x] \in {"pinned", "excluded"} => rows'[x] = rows[x]
      /\ \A x \in Items : rows'[x] \in {"pinned", "excluded"} => rows'[x] = rows[x]
  BY WritesSpareUsers
<1>4. view.here
  BY DEF EvalWrites, AbsentIsEmpty
<1>5. PinnedRows' = PinnedRows
  BY <1>3 DEF PinnedRows
<1>6. ViewTyped' /\ AbsentIsEmpty'
  BY <1>1, <1>2, <1>3, <1>4, <1>10 DEF AbsentIsEmpty
<1>7. ReadIsFresh'
  BY <1>1, <1>2, <1>3 DEF ReadIsFresh
<1>8. ExclusionsStay'
  BY <1>1, <1>3 DEF ExclusionsStay
<1>9. PlacedSomewhere' /\ ConversionCarries'
  <2>1. eval["request"].pc = "idle" => eval'["request"].pc = "idle"
    BY <1>2 DEF Evaluators
  <2>2. CASE conv' = conv
    BY <1>1, <1>5, <2>1, <2>2 DEF PlacedSomewhere, ConversionCarries
  <2>3. CASE conv.pc = "from_delete" /\ conv'.pc = "from_undo"
    BY <1>1, <1>5, <2>3 DEF PlacedSomewhere, ConversionCarries
  <2> QED BY <1>10, <2>2, <2>3
<1> QED BY <1>6, <1>7, <1>8, <1>9

-----------------------------------------------------------------------------
(* Requests.                                                                   *)

\* While a request edits a view nobody is about to write, and no conversion runs.
LEMMA ViewActsAlone ==
    ASSUME ViewUndisturbed, ViewInv, ViewAct
    PROVE  view.here /\ conv.pc = "idle" /\ \A e \in Evaluators : eval[e].pc # "write"
BY DEF ViewUndisturbed, ViewAct, Evaluators

\* A request may set rows and start an evaluation of its own.
LEMMA ViewActKeeps ==
    ASSUME ViewUndisturbed, ViewInv, ViewAct,
           UNCHANGED eval \/ Evaluates("request"),
           view' \in [here : BOOLEAN, live : BOOLEAN], view'.here,
           rows' \in RowSets, placed' \subseteq Items, refused' \subseteq Items,
           ExclusionsStay', PlacedSomewhere'
    PROVE  ViewInv'
<1> USE DEF ViewInv, ViewTyped
<1>1. view.here /\ conv.pc = "idle" /\ \A e \in Evaluators : eval[e].pc # "write"
  BY ViewActsAlone
<1>2. UNCHANGED <<item, hits, album, conv>>
  BY DEF ViewAct
<1>3. eval' \in [Evaluators -> Evals] /\ \A e \in Evaluators : eval'[e].pc # "write"
  <2>1. CASE UNCHANGED eval
    BY <1>1, <2>1
  <2>2. CASE Evaluates("request")
    BY <1>1, <2>2, EvalSetTo, StartsTyped DEF Evaluates, Evaluators
  <2> QED BY <2>1, <2>2
<1>4. ViewTyped' /\ AbsentIsEmpty'
  BY <1>2, <1>3 DEF AbsentIsEmpty
<1>5. ReadIsFresh' /\ ConversionCarries'
  BY <1>1, <1>2, <1>3 DEF ReadIsFresh, ConversionCarries
<1> QED BY <1>4, <1>5

LEMMA ViewRequestsKeep ==
    ASSUME ViewUndisturbed, ViewInv, NEW x \in Items,
           PinAssets(x) \/ RemoveAssets(x) \/ RestoreAssets(x)
    PROVE  ViewInv'
<1> USE DEF ViewInv, ViewTyped, RowSets, RowOrigins
<1>1. CASE PinAssets(x)
  <2>1. /\ rows' \in RowSets /\ rows'[x] = "pinned" /\ \A y \in Items : y # x => rows'[y] = rows[y]
        /\ placed' = placed \cup {x} /\ refused' = refused \ {x} /\ UNCHANGED album
    BY <1>1 DEF PinAssets, ViewAct
  <2>2. ExclusionsStay' /\ PlacedSomewhere'
    BY <2>1 DEF ExclusionsStay, PlacedSomewhere, PinnedRows
  <2> QED BY <1>1, <2>1, <2>2, ViewActKeeps, ViewActsAlone DEF PinAssets
<1>2. CASE RemoveAssets(x)
  <2>1. /\ rows' \in RowSets /\ rows'[x] = (IF rows[x] = "pinned" THEN "none" ELSE "excluded")
        /\ \A y \in Items : y # x => rows'[y] = rows[y]
        /\ rows[x] \in {"pinned", "auto"}
        /\ placed' = placed \ {x} /\ refused' = (IF rows[x] = "auto" THEN refused \cup {x} ELSE refused)
        /\ UNCHANGED <<album, view>>
    BY <1>2 DEF RemoveAssets, ViewAct
  <2>2. ExclusionsStay' /\ PlacedSomewhere'
    BY <2>1 DEF ExclusionsStay, PlacedSomewhere, PinnedRows
  <2> QED BY <1>2, <2>1, <2>2, ViewActKeeps, ViewActsAlone DEF RemoveAssets
<1>3. CASE RestoreAssets(x)
  <2>1. /\ rows' \in RowSets /\ rows[x] = "excluded"
        /\ \A y \in Items : y # x => rows'[y] = rows[y]
        /\ placed' = placed /\ refused' = refused \ {x} /\ UNCHANGED <<album, view>>
    BY <1>3 DEF RestoreAssets, ViewAct
  <2>2. ExclusionsStay' /\ PlacedSomewhere'
    BY <2>1 DEF ExclusionsStay, PlacedSomewhere, PinnedRows
  <2> QED BY <1>3, <2>1, <2>2, ViewActKeeps, ViewActsAlone DEF RestoreAssets
<1> QED BY <1>1, <1>2, <1>3

-----------------------------------------------------------------------------
(* Conversions and edits of the album.                                         *)

LEMMA FromAlbumKeeps ==
    ASSUME ViewUndisturbed, ViewInv, FromAlbumStarts \/ FromAlbumPins \/ FromAlbumDeletes PROVE ViewInv'
<1> USE DEF ViewInv, ViewTyped
<1>1. CASE FromAlbumStarts
  <2>1. NoRows \in RowSets /\ \A x \in Items : NoRows[x] = "none"
    BY DEF NoRows, RowSets, RowOrigins
  <2>2. conv' \in Convs /\ conv'.pc = "from_pin" /\ conv'.members = album.members
    BY <1>1 DEF FromAlbumStarts, Convs
  <2>3. rows = NoRows /\ refused = {} /\ \A e \in Evaluators : eval[e].pc = "idle"
    BY <1>1 DEF FromAlbumStarts, AbsentIsEmpty
  <2>4. /\ view' = [here |-> TRUE, live |-> TRUE] /\ rows' = NoRows
        /\ UNCHANGED <<item, hits, album, eval, placed, refused>>
    BY <1>1 DEF FromAlbumStarts
  <2>5. PinnedRows' = PinnedRows
    BY <2>3, <2>4 DEF PinnedRows
  <2>6. ViewTyped' /\ AbsentIsEmpty'
    BY <2>1, <2>2, <2>4 DEF AbsentIsEmpty
  <2>7. ReadIsFresh' /\ ExclusionsStay' /\ PlacedSomewhere'
    BY <2>3, <2>4, <2>5 DEF ReadIsFresh, ExclusionsStay, PlacedSomewhere
  <2>8. placed \subseteq album.members
    BY <2>1, <2>3 DEF PlacedSomewhere, PinnedRows
  <2>9. ConversionCarries'
    BY <2>2, <2>3, <2>4, <2>8 DEF ConversionCarries, Evaluators
  <2> QED BY <2>6, <2>7, <2>9
<1>2. CASE FromAlbumPins
  <2>1. /\ view.here /\ refused = {} /\ album.members \subseteq conv.members
        /\ \A e \in Evaluators : eval[e].pc # "write"
    BY <1>2 DEF FromAlbumPins, ConversionCarries, ViewUndisturbed, Evaluators
  <2>2. /\ rows' = [x \in Items |-> IF x \in conv.members /\ item[x] \in {"shown", "offline"} THEN "pinned" ELSE rows[x]]
        /\ placed' = {x \in placed : item[x] \in {"shown", "offline"}}
        /\ UNCHANGED <<item, hits, view, album, refused>> /\ Evaluates("request")
    BY <1>2 DEF FromAlbumPins
  <2>3. rows' \in RowSets
    BY <2>2 DEF RowSets, RowOrigins
  <2>4. conv' \in Convs /\ conv'.pc = "from_delete"
    BY <1>2 DEF FromAlbumPins, Convs
  <2>5. eval' \in [Evaluators -> Evals] /\ \A e \in Evaluators : eval'[e].pc # "write"
    BY <2>1, <2>2, EvalSetTo, StartsTyped DEF Evaluates, Evaluators
  <2>6. placed' \subseteq PinnedRows' /\ placed' \subseteq album'.members
    BY <1>2, <2>1, <2>2 DEF FromAlbumPins, ConversionCarries, PlacedSomewhere, PinnedRows
  <2>7. ViewTyped' /\ AbsentIsEmpty'
    BY <2>1, <2>2, <2>3, <2>4, <2>5 DEF AbsentIsEmpty
  <2>8. ReadIsFresh' /\ ExclusionsStay' /\ PlacedSomewhere' /\ ConversionCarries'
    BY <2>1, <2>2, <2>4, <2>5, <2>6 DEF ReadIsFresh, ExclusionsStay, PlacedSomewhere, ConversionCarries
  <2> QED BY <2>7, <2>8
<1>3. CASE FromAlbumDeletes
  <2>1. /\ album' = [here |-> FALSE, members |-> {}] /\ conv' = NoConv
        /\ UNCHANGED <<item, hits, view, rows, eval, placed, refused>> /\ placed \subseteq PinnedRows
    BY <1>3 DEF FromAlbumDeletes, asked, ConversionCarries
  <2>2. conv' \in Convs /\ conv'.pc = "idle" /\ album' \in [here : BOOLEAN, members : SUBSET Items] /\ album'.members = {}
    BY <2>1 DEF NoConv, Convs
  <2>3. PinnedRows' = PinnedRows
    BY <2>1 DEF PinnedRows
  <2> QED BY <2>1, <2>2, <2>3
          DEF AbsentIsEmpty, ReadIsFresh, ExclusionsStay, PlacedSomewhere, ConversionCarries
<1> QED BY <1>1, <1>2, <1>3

\* A view goes whose placed photos are all in the album.
LEMMA ViewGoneKeeps ==
    ASSUME ViewInv, ViewGone, conv' = NoConv, placed \subseteq album.members,
           UNCHANGED <<item, hits, album, placed>>
    PROVE  ViewInv'
<1> USE DEF ViewInv, ViewTyped
<1>1. view' = [here |-> FALSE, live |-> FALSE] /\ rows' = NoRows /\ refused' = {}
  BY DEF ViewGone
<1>2. eval' \in [Evaluators -> Evals] /\ \A e \in Evaluators : eval'[e].pc = "idle"
  BY NoEvalTyped DEF ViewGone
<1>3. ViewTyped' /\ AbsentIsEmpty'
  BY <1>1, <1>2, NoRowsTyped, NoConvTyped DEF AbsentIsEmpty
<1>4. ReadIsFresh' /\ ExclusionsStay' /\ PlacedSomewhere' /\ ConversionCarries'
  BY <1>1, <1>2, NoConvTyped DEF ReadIsFresh, ExclusionsStay, PlacedSomewhere, ConversionCarries
<1> QED BY <1>3, <1>4

LEMMA FromAlbumFailsKeeps == ASSUME ViewInv, FromAlbumFails \/ FromAlbumUndoes PROVE ViewInv'
<1> USE DEF ViewInv, ViewTyped
<1>1. CASE FromAlbumFails
  <2>1. conv' \in Convs /\ conv'.pc = "from_undo" /\ placed \subseteq album.members
    BY <1>1 DEF FromAlbumFails, Convs, ConversionCarries
  <2>2. /\ eval' \in [Evaluators -> Evals]
        /\ \A e \in Evaluators : eval'[e].pc = "idle" \/ eval'[e] = eval[e]
    <3>1. "request" \in Evaluators /\ eval' = [eval EXCEPT !["request"] = NoEval]
      BY <1>1 DEF FromAlbumFails, Evaluators
    <3>2. /\ eval' \in [Evaluators -> Evals] /\ eval'["request"] = NoEval
          /\ \A f \in Evaluators : f # "request" => eval'[f] = eval[f]
      BY <3>1, EvalSetTo, NoEvalTyped
    <3> QED BY <3>2, NoEvalTyped
  <2>3. UNCHANGED <<item, hits, view, rows, album, placed, refused>>
    BY <1>1 DEF FromAlbumFails, asked
  <2>4. ViewTyped' /\ AbsentIsEmpty'
    BY <2>1, <2>2, <2>3 DEF AbsentIsEmpty
  <2>5. ReadIsFresh'
    BY <2>2, <2>3 DEF ReadIsFresh
  <2> QED BY <2>1, <2>3, <2>4, <2>5 DEF ExclusionsStay, PlacedSomewhere, ConversionCarries, PinnedRows
<1>2. CASE FromAlbumUndoes
  <2>1. placed \subseteq album.members /\ conv' = NoConv /\ UNCHANGED <<item, hits, album, placed>>
    BY <1>2 DEF FromAlbumUndoes, ConversionCarries
  <2>2. CASE ViewGone
    BY <2>1, <2>2, ViewGoneKeeps
  <2>3. CASE UNCHANGED <<view, rows, refused, eval>>
    BY <2>1, <2>3, NoConvTyped
       DEF AbsentIsEmpty, ReadIsFresh, ExclusionsStay, PlacedSomewhere, ConversionCarries, PinnedRows
  <2> QED BY <1>2, <2>2, <2>3 DEF FromAlbumUndoes
<1> QED BY <1>1, <1>2

\* While the album is being filled the view has all that was placed.
LEMMA ToAlbumFailsKeeps == ASSUME ViewInv, ToAlbumFails PROVE ViewInv'
<1> USE DEF ViewInv, ViewTyped
<1>1. /\ placed \subseteq PinnedRows /\ conv' = NoConv
      /\ UNCHANGED <<item, hits, view, rows, eval, placed, refused>>
  BY DEF ToAlbumFails, ConversionCarries, asked
<1>2. /\ album' \in [here : BOOLEAN, members : SUBSET Items]
      /\ album' = album \/ album'.members = {}
  <2>1. album' = [here |-> FALSE, members |-> {}] \/ album' = album
    BY DEF ToAlbumFails
  <2>2. album \in [here : BOOLEAN, members : SUBSET Items]
    OBVIOUS
  <2>3. /\ [here |-> FALSE, members |-> {}] \in [here : BOOLEAN, members : SUBSET Items]
        /\ [here |-> FALSE, members |-> {}].members = {}
    BY ONLY TRUE
  <2> QED BY ONLY <2>1, <2>2, <2>3
<1>3. PinnedRows' = PinnedRows
  BY <1>1 DEF PinnedRows
<1> QED BY <1>1, <1>2, <1>3, NoConvTyped
        DEF AbsentIsEmpty, ReadIsFresh, ExclusionsStay, PlacedSomewhere, ConversionCarries

LEMMA ToAlbumKeeps ==
    ASSUME ViewUndisturbed, ViewInv, ToAlbumStarts \/ ToAlbumAdds \/ ToAlbumDeletes PROVE ViewInv'
<1> USE DEF ViewInv, ViewTyped
<1>1. CASE ToAlbumStarts
  <2>1. /\ album' = [here |-> TRUE, members |-> {}] /\ album.members = {} /\ view.here
        /\ placed' = {x \in placed : item[x] \in {"shown", "offline"}}
        /\ UNCHANGED <<item, hits, view, rows, eval, refused>>
    BY <1>1 DEF ToAlbumStarts, AbsentIsEmpty
  <2>2. /\ conv' \in Convs /\ conv'.pc = "to_add"
        /\ conv'.members = {x \in Items : rows[x] \in {"auto", "pinned"} /\ item[x] \in {"shown", "offline"}}
    BY <1>1 DEF ToAlbumStarts, Convs
  <2>3. PinnedRows' = PinnedRows /\ placed' \subseteq PinnedRows \cap conv'.members
    BY <2>1, <2>2 DEF PinnedRows, PlacedSomewhere
  <2>4. ViewTyped' /\ AbsentIsEmpty'
    BY <2>1, <2>2 DEF AbsentIsEmpty
  <2> QED BY <2>1, <2>2, <2>3, <2>4
          DEF ReadIsFresh, ExclusionsStay, PlacedSomewhere, ConversionCarries
<1>2. CASE ToAlbumAdds
  <2>1. placed \subseteq PinnedRows \cap conv.members /\ album.here /\ UNCHANGED <<item, hits, view, rows, eval, placed, refused>>
    BY <1>2 DEF ToAlbumAdds, ConversionCarries, asked
  <2>2. PinnedRows' = PinnedRows
    BY <2>1 DEF PinnedRows
  <2>3. CASE \E x \in conv.members : item[x] = "gone"
    <3>1. album' = [here |-> FALSE, members |-> {}] /\ conv' = NoConv
      BY <1>2, <2>3 DEF ToAlbumAdds
    <3>2. conv' \in Convs /\ conv'.pc = "idle"
      BY <3>1 DEF NoConv, Convs
    <3> QED BY <2>1, <2>2, <3>1, <3>2
            DEF AbsentIsEmpty, ReadIsFresh, ExclusionsStay, PlacedSomewhere, ConversionCarries
  <2>4. CASE ~\E x \in conv.members : item[x] = "gone"
    <3>1. /\ album' = [album EXCEPT !.members = @ \cup conv.members] /\ conv' = [conv EXCEPT !.pc = "to_delete"]
      BY <1>2, <2>4 DEF ToAlbumAdds
    <3>2. conv' \in Convs /\ conv'.pc = "to_delete" /\ conv.members \subseteq Items
      BY <3>1 DEF Convs
    <3>3. /\ album' \in [here : BOOLEAN, members : SUBSET Items]
          /\ album'.here = album.here /\ album'.members = album.members \cup conv.members
      BY <3>1, <3>2
    <3>4. ~album'.here => album'.members = {}
      BY <2>1, <3>3
    <3> QED BY <2>1, <2>2, <3>2, <3>3, <3>4
            DEF AbsentIsEmpty, ReadIsFresh, ExclusionsStay, PlacedSomewhere, ConversionCarries
  <2> QED BY <2>3, <2>4
<1>3. CASE ToAlbumDeletes
  BY <1>3, ViewGoneKeeps DEF ToAlbumDeletes, ConversionCarries
<1> QED BY <1>1, <1>2, <1>3

LEMMA AlbumAddsKeeps == ASSUME ViewUndisturbed, ViewInv, NEW x \in Items, AlbumAdds(x) PROVE ViewInv'
<1> USE DEF ViewInv, ViewTyped
<1>1. /\ album.here /\ conv.pc = "idle" /\ placed' = placed \cup {x}
      /\ UNCHANGED <<item, hits, view, rows, eval, conv, refused>>
  BY DEF AlbumAdds, ViewUndisturbed
<1>2. /\ album' \in [here : BOOLEAN, members : SUBSET Items]
      /\ album'.here = album.here /\ album'.members = album.members \cup {x}
  BY DEF AlbumAdds
<1>3. PinnedRows' = PinnedRows
  BY <1>1 DEF PinnedRows
<1> QED BY <1>1, <1>2, <1>3
        DEF AbsentIsEmpty, ReadIsFresh, ExclusionsStay, PlacedSomewhere, ConversionCarries

-----------------------------------------------------------------------------
(* What happens to the assets, and restarts.                                   *)

LEMMA ItemEventsKeep ==
    ASSUME ViewInv, NEW x \in Items, NEW to \in ItemStates, ItemEvent(x, to) PROVE ViewInv'
<1> USE DEF ViewInv, ViewTyped
<1>1. item' \in [Items -> ItemStates] /\ UNCHANGED <<hits, view, eval, conv>>
  BY DEF ItemEvent, ItemStates
<1>2. CASE to = "gone"
  <2>1. /\ rows' \in RowSets /\ rows'[x] = "none" /\ \A y \in Items : y # x => rows'[y] = rows[y]
    BY <1>2 DEF ItemEvent, RowSets, RowOrigins
  <2>2. /\ album' \in [here : BOOLEAN, members : SUBSET Items]
        /\ album'.here = album.here /\ album'.members = album.members \ {x}
    BY <1>2 DEF ItemEvent
  <2>3. placed' = placed \ {x} /\ refused' = refused \ {x}
    BY <1>2 DEF ItemEvent
  <2>4. PinnedRows' = PinnedRows \ {x}
    BY <2>1 DEF PinnedRows
  <2>5. rows = NoRows => rows' = NoRows
    BY <2>1 DEF NoRows, RowSets
  <2>6. ViewTyped' /\ AbsentIsEmpty'
    BY <1>1, <2>1, <2>2, <2>3, <2>5 DEF AbsentIsEmpty
  <2>7. ReadIsFresh' /\ ExclusionsStay'
    BY <1>1, <2>1, <2>3 DEF ReadIsFresh, ExclusionsStay
  <2>8. PlacedSomewhere' /\ ConversionCarries'
    BY <1>1, <2>2, <2>3, <2>4 DEF PlacedSomewhere, ConversionCarries
  <2> QED BY <2>6, <2>7, <2>8
<1>3. CASE to # "gone"
  <2>1. UNCHANGED <<rows, album, placed, refused>>
    BY <1>3 DEF ItemEvent
  <2> QED BY <1>1, <2>1
          DEF AbsentIsEmpty, ReadIsFresh, ExclusionsStay, PlacedSomewhere, ConversionCarries, PinnedRows
<1> QED BY <1>2, <1>3

LEMMA HitsKeep == ASSUME ViewInv, NEW x \in Items, HitsChange(x) PROVE ViewInv'
BY DEF HitsChange, ViewInv, ViewTyped, AbsentIsEmpty, ReadIsFresh, ExclusionsStay, PlacedSomewhere,
       ConversionCarries, PinnedRows

LEMMA ViewRestartKeeps == ASSUME ViewInv, ViewRestart PROVE ViewInv'
<1> USE DEF ViewInv, ViewTyped
<1>1. eval' \in [Evaluators -> Evals] /\ \A e \in Evaluators : eval'[e].pc = "idle"
  BY NoEvalTyped DEF ViewRestart
<1>2. conv' \in Convs /\ conv'.pc = "idle"
  BY DEF ViewRestart, NoConv, Convs
<1> QED BY <1>1, <1>2
        DEF ViewRestart, AbsentIsEmpty, ReadIsFresh, ExclusionsStay, PlacedSomewhere, ConversionCarries, PinnedRows

LEMMA ViewSteps == ASSUME ViewUndisturbed, ViewInv, [SvNext]_svVars PROVE ViewInv'
<1>1. ASSUME NEW g \in SvGoroutines, SvRuns(g) PROVE ViewInv'
  <2>1. CASE EvaluateAllLive
    BY <2>1, EvalStepsKeep DEF Evaluators
  <2>2. ASSUME NEW e \in Evaluators, EvalMatches(e) \/ EvalReads(e) PROVE ViewInv'
    BY <2>2, EvalStepsKeep
  <2>3. ASSUME NEW e \in Evaluators, EvalWrites(e) PROVE ViewInv'
    BY <2>3, WritesKeep
  <2>4. CASE FromAlbumPins \/ FromAlbumDeletes \/ FromAlbumUndoes \/ ToAlbumAdds \/ ToAlbumDeletes
    BY <2>4, FromAlbumKeeps, FromAlbumFailsKeeps, ToAlbumKeeps
  <2> QED BY <1>1, <2>1, <2>2, <2>3, <2>4 DEF SvRuns, Evaluators
<1>2. CASE FromAlbumStarts \/ FromAlbumFails \/ ToAlbumStarts \/ ToAlbumFails
  BY <1>2, FromAlbumKeeps, FromAlbumFailsKeeps, ToAlbumKeeps, ToAlbumFailsKeeps
<1>3. ASSUME NEW x \in Items,
             PinAssets(x) \/ RemoveAssets(x) \/ RestoreAssets(x) \/ AlbumAdds(x) \/ HitsChange(x)
      PROVE  ViewInv'
  BY <1>3, ViewRequestsKeep, AlbumAddsKeeps, HitsKeep
<1>4. ASSUME NEW on \in BOOLEAN, Update(on) PROVE ViewInv'
  <2>1. view' \in [here : BOOLEAN, live : BOOLEAN] /\ view'.here = view.here
    BY <1>4 DEF Update, ViewInv, ViewTyped
  <2>2. UNCHANGED <<rows, placed, refused, album>>
    BY <1>4 DEF Update, ViewAct
  <2>3. ExclusionsStay' /\ PlacedSomewhere'
    BY <2>2 DEF ViewInv, ExclusionsStay, PlacedSomewhere, PinnedRows
  <2> QED BY <1>4, <2>1, <2>2, <2>3, ViewActKeeps, ViewActsAlone DEF Update, ViewInv, ViewTyped
<1>5. ASSUME NEW x \in Items, NEW to \in {"shown", "trashed", "offline", "gone"}, ItemEvent(x, to) PROVE ViewInv'
  BY <1>5, ItemEventsKeep DEF ItemStates
<1>6. CASE ViewRestart
  BY <1>6, ViewRestartKeeps
<1>7. CASE UNCHANGED svVars
  BY <1>7 DEF svVars, ViewInv, ViewTyped, AbsentIsEmpty, ReadIsFresh, ExclusionsStay, PlacedSomewhere,
              ConversionCarries, PinnedRows
<1> QED BY <1>1, <1>2, <1>3, <1>4, <1>5, <1>6, <1>7 DEF SvNext

-----------------------------------------------------------------------------

\* Every reachable state of the smart views is well typed.
THEOREM ViewTypeCorrect == ViewUndisturbed => (SvSpec => []SvTypeOK)
<1> SUFFICES ASSUME ViewUndisturbed PROVE SvSpec => []SvTypeOK
  OBVIOUS
<1>1. SvInit => ViewInv
  BY ViewStarts
<1>2. ViewInv /\ [SvNext]_svVars => ViewInv'
  BY ViewSteps
<1>3. ViewInv => SvTypeOK
  BY DEF ViewInv, ViewTyped, SvTypeOK, RowSets, RowOrigins, ItemStates, Evals, Convs
<1> QED BY <1>1, <1>2, <1>3, PTL DEF SvSpec

\* Whatever evaluations, conversions, purges and restarts do and in whatever order: what
\* the user excluded stays excluded, and what the user placed is in the album or pinned.
THEOREM UserEditsKept == ViewUndisturbed => (SvSpec => [](ExclusionsStay /\ PlacedIsKept))
<1> SUFFICES ASSUME ViewUndisturbed PROVE SvSpec => [](ExclusionsStay /\ PlacedIsKept)
  OBVIOUS
<1>1. SvInit => ViewInv
  BY ViewStarts
<1>2. ViewInv /\ [SvNext]_svVars => ViewInv'
  BY ViewSteps
<1>3. ViewInv => ExclusionsStay /\ PlacedIsKept
  BY DEF ViewInv, PlacedSomewhere, PlacedIsKept, PinnedRows
<1> QED BY <1>1, <1>2, <1>3, PTL DEF SvSpec

-----------------------------------------------------------------------------
(* Moments.                                                                    *)

ShotStates  == {"alive", "dead", "purged"}
MomentRows  == [here : BOOLEAN, hidden : BOOLEAN, cover : Shots \cup {NoShot}, count : 0..Cardinality(Shots)]
Memberships == [Shots -> {"no", "week", "old"}]
Changes     == [Shots -> {"none", "pin", "exclude"}]
DraftsOf    == [id : MomentIds, assets : SUBSET Shots]
Rounds      == [pc : {"idle", "mine", "sync"}, todo : SUBSET Recipes, drafts : SUBSET DraftsOf, petsFound : BOOLEAN]

MomentsTyped ==
    /\ shot \in [Shots -> ShotStates] /\ petHits \subseteq Shots /\ enabled \subseteq Recipes
    /\ moment \in [MomentIds -> MomentRows] /\ member \in [MomentIds -> Memberships]
    /\ changed \in [MomentIds -> Changes] /\ round \in Rounds

MomentsInv == MomentsTyped /\ EditsRespected

LEMMA CountOf == ASSUME NEW S \in SUBSET Shots PROVE Cardinality(S) \in 0..Cardinality(Shots)
<1>1. IsFiniteSet(Shots)
  BY ShotsAreRanked
<1>2. IsFiniteSet(S) /\ Cardinality(S) <= Cardinality(Shots)
  BY <1>1, FS_Subset
<1>3. Cardinality(S) \in Nat /\ Cardinality(Shots) \in Nat
  BY <1>1, <1>2, FS_CardinalityType
<1> QED BY <1>2, <1>3

LEMMA BestShot == ASSUME NEW S \in SUBSET Shots PROVE Best(S) \in S \/ (S = {} /\ Best(S) = NoShot)
<1>1. CASE S = {}
  BY <1>1 DEF Best
<1>2. CASE S # {}
  <2>1. \E x \in S : \A y \in S : x <= y
    BY <1>2, ShotsAreRanked, Least
  <2>2. (CHOOSE x \in S : \A y \in S : x <= y) \in S
    BY <2>1
  <2>3. Best(S) = CHOOSE x \in S : \A y \in S : x <= y
    BY ONLY <1>2 DEF Best
  <2> QED BY <2>2, <2>3
<1> QED BY <1>1, <1>2

\* A moment whose members and cover a step gives anew.
CoverFits(row, members) == row.cover \in members \/ (members = {} /\ row.cover = NoShot)

LEMMA DerivedFits ==
    ASSUME NEW row \in MomentRows, NEW members \in SUBSET Shots
    PROVE  /\ Derived(row, members) \in MomentRows /\ CoverFits(Derived(row, members), members)
           /\ Derived(row, members).here = row.here
<1>1. Best(members) \in members \/ (members = {} /\ Best(members) = NoShot)
  BY BestShot
<1>2. Cardinality(members) \in 0..Cardinality(Shots)
  BY CountOf
<1> DEFINE b == Best(members)
           n == Cardinality(members)
<1> HIDE DEF b, n
<1>3. Derived(row, members) = [row EXCEPT !.count = n, !.cover = IF row.cover \in members THEN row.cover ELSE b]
  BY DEF Derived, b, n
<1>4. b \in Shots \cup {NoShot} /\ n \in 0..Cardinality(Shots) /\ (b \in members \/ (members = {} /\ b = NoShot))
  BY <1>1, <1>2 DEF b, n
<1> QED BY <1>3, <1>4 DEF MomentRows, CoverFits

LEMMA SyncedFits ==
    ASSUME MomentsTyped, NEW m \in MomentIds, NEW assets \in SUBSET Shots
    PROVE  /\ SyncedRow(m, assets) \in MomentRows /\ Replayed(m, assets) \in SUBSET Shots
           /\ CoverFits(SyncedRow(m, assets), Replayed(m, assets))
<1> USE DEF MomentsTyped
<1>1. moment[m] \in MomentRows /\ Replayed(m, assets) \in SUBSET Shots
  BY DEF Replayed, Pinned, Alive
<1>2. /\ Best(assets) \in assets \/ (assets = {} /\ Best(assets) = NoShot)
      /\ Cardinality(assets) \in 0..Cardinality(Shots)
  BY BestShot, CountOf
<1> DEFINE b == Best(assets)
           n == Cardinality(assets)
           row == [moment[m] EXCEPT !.here = TRUE, !.cover = b, !.count = n]
<1>3. b \in Shots \cup {NoShot} /\ n \in 0..Cardinality(Shots)
  BY <1>2
<1> HIDE DEF b, n
<1>4. row \in MomentRows /\ row.cover = b
  BY <1>1, <1>3 DEF MomentRows
<1>5. SyncedRow(m, assets) = IF changed[m] = NoChange THEN row ELSE Derived(row, Replayed(m, assets))
  BY DEF SyncedRow, b, n
<1> HIDE DEF row
<1>6. CASE changed[m] = NoChange
  <2>1. Pinned(m) = {} /\ Excluded(m) = {}
    BY <1>6 DEF Pinned, Excluded, NoChange
  <2>2. Replayed(m, assets) = assets
    BY <2>1 DEF Replayed
  <2> QED BY <1>1, <1>2, <1>4, <1>5, <1>6, <2>2 DEF CoverFits, b
<1>7. CASE changed[m] # NoChange
  BY <1>1, <1>4, <1>5, <1>7, DerivedFits
<1> QED BY <1>6, <1>7

LEMMA DraftsTyped == ASSUME MomentsTyped, NEW recipe \in Recipes PROVE Drafts(recipe) \in SUBSET DraftsOf
<1> USE DEF MomentsTyped
<1>1. Alive \in SUBSET Shots /\ petHits \cap Alive \in SUBSET Shots
  BY DEF Alive
<1>2. PetDrafts \in SUBSET DraftsOf
  BY <1>1 DEF PetDrafts, DraftsOf, MomentIds
<1>3. ThemeDrafts \in SUBSET DraftsOf
  BY <1>1 DEF ThemeDrafts, DraftsOf, MomentIds
<1>4. TripDrafts \in SUBSET DraftsOf
  BY <1>1 DEF TripDrafts, TripId, DraftsOf, MomentIds
<1> QED BY <1>2, <1>3, <1>4 DEF Drafts, Recipes

LEMMA MomentsStart == ASSUME MoInit PROVE MomentsInv
<1>1. Cardinality(Shots) \in Nat
  BY ShotsAreRanked, FS_CardinalityType
<1>2. NoMoment \in MomentRows /\ ~NoMoment.here
  BY <1>1 DEF NoMoment, MomentRows
<1>3. Resting \in Rounds
  BY DEF Resting, Rounds
<1>4. MomentsTyped
  BY <1>2, <1>3 DEF MoInit, MomentsTyped, ShotStates, NotMember, Memberships, NoChange, Changes
<1>5. EditsRespected
  BY <1>2 DEF MoInit, EditsRespected, MemberSet, NotMember
<1> QED BY <1>4, <1>5 DEF MomentsInv

\* RecomputeAll, but for the sync.
LEMMA MiningKeeps == ASSUME MomentsInv, RecomputeStarts \/ MineRecipe \/ MineFails PROVE MomentsInv'
<1> USE DEF MomentsInv, MomentsTyped
<1>1. UNCHANGED <<shot, petHits, enabled, moment, member, changed>>
  BY DEF RecomputeStarts, MineRecipe, MineFails
<1>2. round' \in Rounds
  <2>1. CASE RecomputeStarts
    BY <2>1 DEF RecomputeStarts, Resting, Rounds
  <2>2. CASE MineRecipe
    <3>1. FirstOf(round.todo) \in Recipes
      BY DEF FirstOf, Recipes
    <3>2. Drafts(FirstOf(round.todo)) \in SUBSET DraftsOf
      BY <3>1, DraftsTyped
    <3> QED BY <2>2, <3>2 DEF MineRecipe, Rounds
  <2>3. CASE MineFails
    BY <2>3 DEF MineFails, NextRecipe, RecipesLeft, Rounds
  <2> QED BY <2>1, <2>2, <2>3
<1> QED BY <1>1, <1>2 DEF EditsRespected, MemberSet, Excluded

\* A synced moment has the pinned and not the excluded, and a cover among them.
LEMMA SyncKeeps == ASSUME MomentsInv, SyncRecipe PROVE MomentsInv'
<1> USE DEF MomentsInv, MomentsTyped
<1> DEFINE recipe == FirstOf(round.todo)
           ids    == {d.id : d \in round.drafts}
           draftOf(m) == CHOOSE d \in round.drafts : d.id = m
           assetsOf(m) == draftOf(m).assets
<1>1. /\ UNCHANGED <<shot, petHits, enabled>> /\ round' \in Rounds
      /\ UNCHANGED <<moment, member, changed>> \/ SyncRecipeMoments(recipe, round.drafts)
  BY DEF SyncRecipe, NextRecipe, RecipesLeft, Rounds
<1>2. CASE UNCHANGED <<moment, member, changed>>
  BY <1>1, <1>2 DEF EditsRespected, MemberSet, Excluded
<1>3. CASE SyncRecipeMoments(recipe, round.drafts)
  <2>1. /\ moment' = [m \in MomentIds |-> IF m \in ids THEN SyncedRow(m, assetsOf(m))
                                          ELSE IF m \in OfRecipe(recipe) THEN NoMoment ELSE moment[m]]
        /\ member' = [m \in MomentIds |-> IF m \in ids THEN Stamped(m, Replayed(m, assetsOf(m)))
                                          ELSE IF m \in OfRecipe(recipe) THEN NotMember ELSE member[m]]
        /\ changed' = [m \in MomentIds |-> IF m \in OfRecipe(recipe) \ ids THEN NoChange ELSE changed[m]]
    BY <1>3 DEF SyncRecipeMoments
  <2>2. ASSUME NEW m \in MomentIds, m \in ids PROVE assetsOf(m) \in SUBSET Shots
    <3>1. draftOf(m) \in round.drafts
      BY <2>2
    <3>2. draftOf(m) \in DraftsOf
      BY <3>1 DEF Rounds
    <3> QED BY <3>2 DEF DraftsOf
  <2> HIDE DEF recipe, ids, assetsOf
  <2>3. Cardinality(Shots) \in Nat
    BY ShotsAreRanked, FS_CardinalityType
  <2>4. NoMoment \in MomentRows /\ ~NoMoment.here /\ NotMember \in Memberships /\ NoChange \in Changes
    BY <2>3 DEF NoMoment, MomentRows, NotMember, Memberships, NoChange, Changes
  <2>5. ASSUME NEW m \in MomentIds
        PROVE  /\ moment'[m] \in MomentRows /\ member'[m] \in Memberships /\ changed'[m] \in Changes
               /\ {x \in Shots : member'[m][x] # "no"} \cap {x \in Shots : changed'[m][x] = "exclude"} = {}
               /\ moment'[m].here =>
                    LET ms == {x \in Shots : member'[m][x] # "no"}
                    IN  \/ moment'[m].cover \in ms
                        \/ IF moment'[m].cover = NoShot THEN ms = {} ELSE shot[moment'[m].cover] = "purged"
    <3>1. CASE m \in ids
      <4> DEFINE as == assetsOf(m)
                 kept == Replayed(m, as)
      <4>1. as \in SUBSET Shots
        BY <2>2, <3>1
      <4> HIDE DEF as
      <4>2. moment'[m] = SyncedRow(m, as) /\ member'[m] = Stamped(m, kept) /\ changed'[m] = changed[m]
        BY <2>1, <3>1 DEF as
      <4>3. SyncedRow(m, as) \in MomentRows /\ kept \in SUBSET Shots /\ CoverFits(SyncedRow(m, as), kept)
        BY <4>1, SyncedFits
      <4>4. kept \cap Excluded(m) = {}
        BY DEF Replayed
      <4> HIDE DEF kept
      <4>5. Stamped(m, kept) \in Memberships /\ {x \in Shots : Stamped(m, kept)[x] # "no"} = kept
        BY <4>3 DEF Stamped, Memberships
      <4>6. NoShot \notin Shots
        BY ShotsAreRanked
      <4> QED BY <4>2, <4>3, <4>4, <4>5, <4>6 DEF Excluded, CoverFits
    <3>2. CASE m \notin ids /\ m \in OfRecipe(recipe)
      <4>1. moment'[m] = NoMoment /\ member'[m] = NotMember /\ changed'[m] = NoChange
        BY <2>1, <3>2
      <4> QED BY <2>4, <4>1 DEF NotMember
    <3>3. CASE m \notin ids /\ m \notin OfRecipe(recipe)
      <4>1. moment'[m] = moment[m] /\ member'[m] = member[m] /\ changed'[m] = changed[m]
        BY <2>1, <3>3
      <4> QED BY <4>1 DEF EditsRespected, MemberSet, Excluded
    <3> QED BY <3>1, <3>2, <3>3
  <2>6. moment' \in [MomentIds -> MomentRows] /\ member' \in [MomentIds -> Memberships] /\ changed' \in [MomentIds -> Changes]
    BY <2>1, <2>5
  <2>7. EditsRespected'
    BY <1>1, <2>5 DEF EditsRespected, MemberSet, Excluded
  <2> QED BY <1>1, <2>6, <2>7
<1> QED BY <1>1, <1>2, <1>3

\* A request changes the edits, the members and the row of one moment.
LEMMA MomentActKeeps ==
    ASSUME MomentsInv, NEW m \in MomentIds, UNCHANGED <<shot, petHits, enabled, round>>,
           NEW row \in MomentRows, NEW ms \in Memberships, NEW cs \in Changes,
           moment' = [moment EXCEPT ![m] = row], member' = [member EXCEPT ![m] = ms], changed' = [changed EXCEPT ![m] = cs],
           \A x \in Shots : cs[x] = "exclude" => ms[x] = "no",
           \/ row.cover = moment[m].cover /\ row.here = moment[m].here /\ ms = member[m]
           \/ CoverFits(row, {x \in Shots : ms[x] # "no"})
    PROVE  MomentsInv'
<1> USE DEF MomentsInv, MomentsTyped
<1>1. MomentsTyped'
  OBVIOUS
<1>2. /\ moment'[m] = row /\ member'[m] = ms /\ changed'[m] = cs
      /\ \A n \in MomentIds : n # m => moment'[n] = moment[n] /\ member'[n] = member[n] /\ changed'[n] = changed[n]
  OBVIOUS
<1>3. ASSUME NEW n \in MomentIds
      PROVE  /\ {x \in Shots : member'[n][x] # "no"} \cap {x \in Shots : changed'[n][x] = "exclude"} = {}
             /\ moment'[n].here =>
                  LET all == {x \in Shots : member'[n][x] # "no"}
                  IN  \/ moment'[n].cover \in all
                      \/ IF moment'[n].cover = NoShot THEN all = {} ELSE shot[moment'[n].cover] = "purged"
  <2>1. CASE n # m
    BY <1>2, <2>1 DEF EditsRespected, MemberSet, Excluded
  <2>2. CASE n = m /\ row.cover = moment[m].cover /\ row.here = moment[m].here /\ ms = member[m]
    <3>1. moment[m].here => \/ moment[m].cover \in {x \in Shots : member[m][x] # "no"}
                            \/ IF moment[m].cover = NoShot THEN {x \in Shots : member[m][x] # "no"} = {}
                               ELSE shot[moment[m].cover] = "purged"
      BY DEF EditsRespected, MemberSet
    <3> QED BY <1>2, <2>2, <3>1
  <2>3. CASE n = m /\ CoverFits(row, {x \in Shots : ms[x] # "no"})
    BY <1>2, <2>3 DEF CoverFits
  <2> QED BY <2>1, <2>2, <2>3
<1>4. EditsRespected'
  BY <1>3 DEF EditsRespected, MemberSet, Excluded
<1> QED BY <1>1, <1>4

LEMMA MembersTyped == ASSUME MomentsTyped, NEW m \in MomentIds PROVE MemberSet(m) \in SUBSET Shots /\ moment[m] \in MomentRows
BY DEF MomentsTyped, MemberSet

LEMMA RequestsOnMoments ==
    ASSUME MomentsInv, NEW m \in MomentIds, NEW x \in Shots, PinMomentAssets(m, x) \/ ExcludeMomentAssets(m, x)
    PROVE  MomentsInv'
<1> USE DEF MomentsInv, MomentsTyped
<1>1. UNCHANGED <<shot, petHits, enabled, round>>
  BY DEF PinMomentAssets, ExcludeMomentAssets, MomentAct
<1>2. MemberSet(m) \in SUBSET Shots /\ moment[m] \in MomentRows /\ member[m] \in Memberships /\ changed[m] \in Changes
  BY MembersTyped
<1>3. \A y \in Shots : changed[m][y] = "exclude" => member[m][y] = "no"
  BY DEF EditsRespected, MemberSet, Excluded
<1>4. CASE PinMomentAssets(m, x) /\ x \in Alive \ MemberSet(m)
  <2> DEFINE ms  == [member[m] EXCEPT ![x] = "week"]
             cs  == [changed[m] EXCEPT ![x] = "pin"]
             all == MemberSet(m) \cup {x}
             row == Derived(moment[m], all)
  <2>1. /\ moment' = [moment EXCEPT ![m] = row] /\ member' = [member EXCEPT ![m] = ms]
        /\ changed' = [changed EXCEPT ![m] = cs]
    BY <1>4 DEF PinMomentAssets
  <2>2. ms \in Memberships /\ cs \in Changes /\ \A y \in Shots : cs[y] = "exclude" => ms[y] = "no"
    BY <1>2, <1>3 DEF Memberships, Changes
  <2>3. {y \in Shots : ms[y] # "no"} = all
    BY <1>2 DEF MemberSet, Memberships
  <2>4. all \in SUBSET Shots
    BY <1>2
  <2> HIDE DEF ms, cs, all
  <2>5. row \in MomentRows /\ CoverFits(row, all)
    BY <1>2, <2>4, DerivedFits
  <2> HIDE DEF row
  <2> QED BY <1>1, <2>1, <2>2, <2>3, <2>5, MomentActKeeps
<1>5. CASE PinMomentAssets(m, x) /\ x \notin Alive \ MemberSet(m)
  <2> DEFINE cs == [changed[m] EXCEPT ![x] = "pin"]
  <2>1. changed' = [changed EXCEPT ![m] = cs] /\ UNCHANGED <<moment, member>>
    BY <1>5 DEF PinMomentAssets
  <2>2. cs \in Changes /\ \A y \in Shots : cs[y] = "exclude" => member[m][y] = "no"
    BY <1>2, <1>3 DEF Changes
  <2> HIDE DEF cs
  <2>3. moment' = [moment EXCEPT ![m] = moment[m]] /\ member' = [member EXCEPT ![m] = member[m]]
    BY <2>1
  <2> QED BY <1>1, <1>2, <2>1, <2>2, <2>3, MomentActKeeps
<1>6. CASE ExcludeMomentAssets(m, x)
  <2> DEFINE ms  == [member[m] EXCEPT ![x] = "no"]
             cs  == [changed[m] EXCEPT ![x] = "exclude"]
             all == MemberSet(m) \ {x}
  <2>1. member' = [member EXCEPT ![m] = ms] /\ changed' = [changed EXCEPT ![m] = cs]
    BY <1>6 DEF ExcludeMomentAssets
  <2>2. ms \in Memberships /\ cs \in Changes /\ \A y \in Shots : cs[y] = "exclude" => ms[y] = "no"
    BY <1>2, <1>3 DEF Memberships, Changes
  <2>3. {y \in Shots : ms[y] # "no"} = all /\ (x \notin MemberSet(m) => ms = member[m])
    BY <1>2 DEF MemberSet, Memberships
  <2>4. all \in SUBSET Shots
    BY <1>2
  <2>5. CASE x \in MemberSet(m)
    <3> DEFINE row == Derived(moment[m], all)
    <3>1. moment' = [moment EXCEPT ![m] = row]
      BY <1>6, <2>5 DEF ExcludeMomentAssets
    <3> HIDE DEF ms, cs, all
    <3>2. row \in MomentRows /\ CoverFits(row, all)
      BY <1>2, <2>4, DerivedFits
    <3> HIDE DEF row
    <3> QED BY <1>1, <2>1, <2>2, <2>3, <3>1, <3>2, MomentActKeeps
  <2>6. CASE x \notin MemberSet(m)
    <3>1. moment' = [moment EXCEPT ![m] = moment[m]]
      BY <1>6, <2>6 DEF ExcludeMomentAssets
    <3>2. ms = member[m]
      BY <2>3, <2>6
    <3> DEFINE row == moment[m]
    <3>3. row \in MomentRows /\ row.cover = moment[m].cover /\ row.here = moment[m].here /\ moment' = [moment EXCEPT ![m] = row]
      BY <1>2, <3>1
    <3> HIDE DEF ms, cs, all, row
    <3> QED BY <1>1, <2>1, <2>2, <3>2, <3>3, MomentActKeeps
  <2> QED BY <2>5, <2>6
<1> QED BY <1>4, <1>5, <1>6

LEMMA OtherStepsKeep ==
    ASSUME MomentsInv,
           \/ \E m \in MomentIds : HideMoment(m)
           \/ \E recipe \in {"theme:pets", "trip"} : UpsertRecipes(recipe)
           \/ \E x \in Shots, to \in {"alive", "dead", "purged"} : ShotEvent(x, to)
           \/ \E x \in Shots : HitsChanges(x)
           \/ WeekPasses
           \/ UNCHANGED moVars
    PROVE  MomentsInv'
<1> USE DEF MomentsInv, MomentsTyped
<1>1. ASSUME NEW m \in MomentIds, HideMoment(m) PROVE MomentsInv'
  <2>1. UNCHANGED <<shot, petHits, enabled, round, member, changed>> /\ moment' = [moment EXCEPT ![m].hidden = TRUE]
    BY <1>1 DEF HideMoment, MomentAct
  <2>2. [moment[m] EXCEPT !.hidden = TRUE] \in MomentRows
    BY DEF MomentRows
  <2>3. moment' \in [MomentIds -> MomentRows]
    BY <2>1, <2>2
  <2>4. \A n \in MomentIds : moment'[n].here = moment[n].here /\ moment'[n].cover = moment[n].cover
    BY <2>1 DEF MomentRows
  <2> QED BY <2>1, <2>3, <2>4 DEF EditsRespected, MemberSet, Excluded
<1>2. ASSUME NEW recipe \in {"theme:pets", "trip"}, UpsertRecipes(recipe) PROVE MomentsInv'
  <2>1. UNCHANGED <<shot, petHits, moment, member, changed, round>> /\ enabled' \subseteq Recipes
    BY <1>2 DEF UpsertRecipes, Recipes
  <2> QED BY <2>1 DEF EditsRespected, MemberSet, Excluded
<1>3. ASSUME NEW x \in Shots, NEW to \in ShotStates, ShotEvent(x, to) PROVE MomentsInv'
  <2>1. /\ shot' \in [Shots -> ShotStates] /\ UNCHANGED <<petHits, enabled, moment, round>>
        /\ shot'[x] = to /\ shot[x] # "purged" /\ \A y \in Shots : y # x => shot'[y] = shot[y]
    BY <1>3 DEF ShotEvent
  <2>2. CASE to = "purged"
    <3>1. /\ member' = [m \in MomentIds |-> [member[m] EXCEPT ![x] = "no"]]
          /\ changed' = [m \in MomentIds |-> [changed[m] EXCEPT ![x] = "none"]]
      BY <1>3, <2>2 DEF ShotEvent
    <3>2. /\ member' \in [MomentIds -> Memberships] /\ changed' \in [MomentIds -> Changes]
          /\ \A m \in MomentIds : /\ member'[m][x] = "no"
                                  /\ \A y \in Shots : y # x => member'[m][y] = member[m][y] /\ changed'[m][y] = changed[m][y]
      BY <3>1 DEF Memberships, Changes
    <3>3. ASSUME NEW m \in MomentIds
          PROVE  /\ {y \in Shots : member'[m][y] # "no"} \cap {y \in Shots : changed'[m][y] = "exclude"} = {}
                 /\ moment[m].here =>
                      LET all == {y \in Shots : member'[m][y] # "no"}
                      IN  \/ moment[m].cover \in all
                          \/ IF moment[m].cover = NoShot THEN all = {} ELSE shot'[moment[m].cover] = "purged"
      <4>1. moment[m].cover \in Shots \cup {NoShot} /\ NoShot \notin Shots
        BY ShotsAreRanked DEF MomentRows
      <4>2. /\ {y \in Shots : member[m][y] # "no"} \cap {y \in Shots : changed[m][y] = "exclude"} = {}
            /\ moment[m].here => \/ moment[m].cover \in {y \in Shots : member[m][y] # "no"}
                                 \/ IF moment[m].cover = NoShot THEN {y \in Shots : member[m][y] # "no"} = {}
                                    ELSE shot[moment[m].cover] = "purged"
        BY DEF EditsRespected, MemberSet, Excluded
      <4>3. {y \in Shots : member'[m][y] # "no"} = {y \in Shots : member[m][y] # "no"} \ {x}
        BY <3>2
      <4>4. shot'[x] = "purged" /\ \A y \in Shots : shot[y] = "purged" => shot'[y] = "purged"
        BY <2>1, <2>2
      <4>5. {y \in Shots : member'[m][y] # "no"} \cap {y \in Shots : changed'[m][y] = "exclude"} = {}
        BY <3>2, <4>2
      <4> DEFINE was == {y \in Shots : member[m][y] # "no"}
                 all == {y \in Shots : member'[m][y] # "no"}
                 c   == moment[m].cover
      <4>6. all = was \ {x} /\ c \in Shots \cup {NoShot} /\ NoShot \notin Shots
            /\ (moment[m].here => c \in was \/ IF c = NoShot THEN was = {} ELSE shot[c] = "purged")
        BY <4>1, <4>2, <4>3
      <4> HIDE DEF was, all, c
      <4>7. moment[m].here => c \in all \/ IF c = NoShot THEN all = {} ELSE shot'[c] = "purged"
        BY <4>4, <4>6
      <4> QED BY <4>5, <4>7 DEF all, c
    <3> QED BY <2>1, <3>2, <3>3 DEF EditsRespected, MemberSet, Excluded
  <2>3. CASE to # "purged"
    <3>1. UNCHANGED <<member, changed>>
      BY <1>3, <2>3 DEF ShotEvent
    <3>2. \A m \in MomentIds : moment[m].cover \in Shots \cup {NoShot}
      BY DEF MomentRows
    <3>3. \A m \in MomentIds : moment[m].cover # NoShot /\ shot[moment[m].cover] = "purged" => shot'[moment[m].cover] = "purged"
      BY <2>1, <3>2
    <3> QED BY <2>1, <3>1, <3>3 DEF EditsRespected, MemberSet, Excluded
  <2> QED BY <2>2, <2>3
<1>4. ASSUME NEW x \in Shots, HitsChanges(x) PROVE MomentsInv'
  <2>1. UNCHANGED <<shot, enabled, moment, member, changed, round>> /\ petHits' \subseteq Shots
    BY <1>4 DEF HitsChanges
  <2> QED BY <2>1 DEF EditsRespected, MemberSet, Excluded
<1>5. CASE WeekPasses
  <2>1. /\ UNCHANGED <<shot, petHits, enabled, moment, changed, round>>
        /\ member' = [m \in MomentIds |-> [x \in Shots |-> IF member[m][x] = "week" THEN "old" ELSE member[m][x]]]
    BY <1>5 DEF WeekPasses
  <2>2. member' \in [MomentIds -> Memberships] /\ \A m \in MomentIds, x \in Shots : member'[m][x] = "no" <=> member[m][x] = "no"
    BY <2>1 DEF Memberships
  <2> QED BY <2>1, <2>2 DEF EditsRespected, MemberSet, Excluded
<1>6. CASE UNCHANGED moVars
  BY <1>6 DEF moVars, EditsRespected, MemberSet, Excluded
<1> QED BY <1>1, <1>2, <1>3, <1>4, <1>5, <1>6 DEF ShotStates

LEMMA MomentsStep == ASSUME MomentsInv, [MoNext]_moVars PROVE MomentsInv'
<1>1. CASE MoRuns
  BY <1>1, MiningKeeps, SyncKeeps DEF MoRuns
<1>2. ASSUME NEW m \in MomentIds, NEW x \in Shots, PinMomentAssets(m, x) \/ ExcludeMomentAssets(m, x) PROVE MomentsInv'
  BY <1>2, RequestsOnMoments
<1>3. CASE \/ \E m \in MomentIds : HideMoment(m)
           \/ \E recipe \in {"theme:pets", "trip"} : UpsertRecipes(recipe)
           \/ \E x \in Shots, to \in {"alive", "dead", "purged"} : ShotEvent(x, to)
           \/ \E x \in Shots : HitsChanges(x)
           \/ WeekPasses
           \/ UNCHANGED moVars
  BY <1>3, OtherStepsKeep
<1> QED BY <1>1, <1>2, <1>3 DEF MoNext

\* No step makes an old member look new.
LEMMA OldStays ==
    ASSUME MomentsInv, [MoNext]_moVars, NEW m \in MomentIds, NEW x \in Shots, member[m][x] = "old"
    PROVE  member'[m][x] # "week"
<1> USE DEF MomentsInv, MomentsTyped
<1>1. CASE RecomputeStarts \/ MineRecipe \/ MineFails
  BY <1>1 DEF RecomputeStarts, MineRecipe, MineFails
<1>2. CASE SyncRecipe
  <2>1. \/ member' = member
        \/ \E S : member'[m] = Stamped(m, S)
        \/ member'[m] \in {NotMember, member[m]}
    BY <1>2 DEF SyncRecipe, SyncRecipeMoments
  <2> QED BY <2>1 DEF Stamped, NotMember
<1>3. ASSUME NEW n \in MomentIds, NEW y \in Shots, PinMomentAssets(n, y) PROVE member'[m][x] # "week"
  <2>1. CASE member' = member
    BY <2>1
  <2>2. CASE member' # member
    <3>1. y \notin MemberSet(n) /\ member' = [member EXCEPT ![n][y] = "week"]
      BY <1>3, <2>2 DEF PinMomentAssets
    <3>2. ~(n = m /\ y = x)
      BY <3>1 DEF MemberSet
    <3> QED BY <3>1, <3>2 DEF Memberships
  <2> QED BY <2>1, <2>2
<1>4. ASSUME NEW n \in MomentIds, NEW y \in Shots, ExcludeMomentAssets(n, y) PROVE member'[m][x] # "week"
  <2>1. member' = [member EXCEPT ![n][y] = "no"]
    BY <1>4 DEF ExcludeMomentAssets
  <2> QED BY <2>1 DEF Memberships
<1>5. ASSUME NEW y \in Shots, NEW to \in {"alive", "dead", "purged"}, ShotEvent(y, to) PROVE member'[m][x] # "week"
  <2>1. member' = member \/ member' = [n \in MomentIds |-> [member[n] EXCEPT ![y] = "no"]]
    BY <1>5 DEF ShotEvent
  <2> QED BY <2>1 DEF Memberships
<1>6. CASE WeekPasses
  BY <1>6 DEF WeekPasses
<1>7. CASE UNCHANGED member
  BY <1>7
<1> QED BY <1>1, <1>2, <1>3, <1>4, <1>5, <1>6, <1>7 DEF MoNext, MoRuns, HideMoment, UpsertRecipes, HitsChanges, moVars, MomentAct

-----------------------------------------------------------------------------
(* The albums.  A function on a set that is finite and not empty has a greatest *)
(* value; positions are found from it.                                          *)

LEMMA GreatestOf ==
    ASSUME NEW S, IsFiniteSet(S), S # {}, NEW f, \A x \in S : f[x] \in Int
    PROVE  \E x \in S : \A y \in S : f[y] <= f[x]
<1> DEFINE Tops(T) == {x \in T : \A y \in T : f[y] <= f[x]}
           bad == {n \in Nat : \E T \in SUBSET S : T # {} /\ Cardinality(T) = n /\ Tops(T) = {}}
<1>1. SUFFICES bad = {}
  <2>1. Cardinality(S) \in Nat
    BY FS_CardinalityType
  <2>2. Tops(S) # {}
    BY <1>1, <2>1
  <2> QED BY <2>2
<1>2. SUFFICES ASSUME bad # {} PROVE FALSE
  OBVIOUS
<1>3. PICK n \in bad : \A m \in bad : n <= m
  <2> HIDE DEF bad
  <2>1. bad \in SUBSET Nat
    BY DEF bad
  <2> QED BY <1>2, <2>1, Least
<1>4. PICK T \in SUBSET S : T # {} /\ Cardinality(T) = n /\ Tops(T) = {}
  BY <1>3
<1>5. PICK t \in T : TRUE
  BY <1>4
<1>6. IsFiniteSet(T)
  BY FS_Subset
<1>7. IsFiniteSet(T \ {t}) /\ Cardinality(T \ {t}) = n - 1
  BY <1>4, <1>5, <1>6, FS_RemoveElement
<1>8. n - 1 \in Nat
  BY <1>7, FS_CardinalityType
<1>9. CASE T \ {t} = {}
  BY <1>4, <1>5, <1>9
<1>10. CASE T \ {t} # {}
  <2>1. n - 1 \notin bad
    BY <1>3, <1>8
  <2>2. Tops(T \ {t}) # {}
    BY <1>7, <1>8, <1>10, <2>1
  <2>3. PICK u \in T \ {t} : \A y \in T \ {t} : f[y] <= f[u]
    BY <2>2
  <2>4. f[u] \in Int /\ f[t] \in Int /\ \A y \in T : f[y] \in Int
    BY <1>5
  <2>5. CASE f[u] <= f[t]
    <3>1. t \in Tops(T)
      BY <1>5, <2>3, <2>4, <2>5
    <3> QED BY <1>4, <3>1
  <2>6. CASE f[t] <= f[u]
    <3>1. u \in Tops(T)
      BY <1>5, <2>3, <2>4, <2>6
    <3> QED BY <1>4, <3>1
  <2> QED BY <2>4, <2>5, <2>6
<1> QED BY <1>9, <1>10

LEMMA SmallestOf ==
    ASSUME NEW S, IsFiniteSet(S), S # {}, NEW f, \A x \in S : f[x] \in Int
    PROVE  \E x \in S : \A y \in S : f[x] <= f[y]
<1> DEFINE g == [x \in S |-> -f[x]]
<1>1. \A x \in S : g[x] \in Int /\ g[x] = -f[x]
  OBVIOUS
<1>2. PICK x \in S : \A y \in S : g[y] <= g[x]
  <2> HIDE DEF g
  <2> QED BY <1>1, GreatestOf
<1> QED BY <1>1, <1>2

Requests ==
    {NoReq} \cup [op : {"create"}, t : Titles] \cup [op : {"rename"}, a : AlbumIds, t : Titles]
            \cup [op : {"cover"}, a : AlbumIds, x : Pics]
            \cup [op : {"reorder"}, a : AlbumIds, order : UNION {[1..n -> Pics] : n \in Nat}]

AlbumsTyped ==
    /\ pic \in [Pics -> {"shown", "trashed", "offline", "gone"}]
    /\ title \in [AlbumIds -> Titles \cup {NoTitle}]
    /\ pos \in [AlbumIds -> [Pics -> Nat \cup {-1}]]
    /\ cover \in [AlbumIds -> Pics \cup {NoPic}]
    /\ req \in Requests

\* What a request checked still holds when it writes: only the library changes between.
RequestFits ==
    /\ req.op = "create" => \A b \in AlbumIds : title[b] # req.t
    /\ req.op = "rename" => \A b \in AlbumIds \ {req.a} : title[b] # req.t
    /\ req.op = "cover" => req.x \in MembersOf(req.a) \/ pic[req.x] = "gone"
    /\ req.op = "reorder" => /\ MembersOf(req.a) \subseteq ToSet(req.order)
                             /\ \A i, j \in DOMAIN req.order : req.order[i] = req.order[j] => i = j

AlbumsInv == AlbumsTyped /\ AlbumsSound /\ RequestFits

LEMMA RequestKinds ==
    ASSUME req \in Requests
    PROVE  /\ req.op \in {"none", "create", "rename", "cover", "reorder"} /\ (req.op = "none" <=> req = NoReq)
           /\ req.op = "create" => req.t \in Titles
           /\ req.op = "rename" => req.a \in AlbumIds /\ req.t \in Titles
           /\ req.op = "cover" => req.a \in AlbumIds /\ req.x \in Pics
           /\ req.op = "reorder" => /\ req.a \in AlbumIds
                                    /\ \E n \in Nat : req.order \in [1..n -> Pics]
BY DEF Requests, NoReq

LEMMA AlbumsStart == ASSUME AbInit PROVE AlbumsInv
BY AlbumConstants DEF AbInit, AlbumsInv, AlbumsTyped, AlbumsSound, RequestFits, NoMembers, NoReq, Requests, MembersOf, Made

\* The checks write nothing.
LEMMA ChecksKeep ==
    ASSUME AlbumsInv,
           \/ \E t \in Titles : CreateChecks(t) \/ \E a \in AlbumIds : UpdateNameChecks(a, t)
           \/ \E a \in AlbumIds, x \in Pics : UpdateCoverChecks(a, x)
           \/ \E a \in AlbumIds : \E order \in SetToSeqs(MembersOf(a)) : ReorderChecks(a, order)
    PROVE  AlbumsInv'
<1> USE DEF AlbumsInv
<1>1. UNCHANGED <<pic, title, pos, cover>>
  BY DEF CreateChecks, UpdateNameChecks, UpdateCoverChecks, ReorderChecks, AlbumAct
<1>2. AlbumsSound' /\ \A a : MembersOf(a)' = MembersOf(a)
  BY <1>1 DEF AlbumsSound, MembersOf, Made
<1>3. ASSUME NEW t \in Titles, CreateChecks(t) PROVE req' \in Requests /\ RequestFits'
  BY <1>1, <1>3 DEF CreateChecks, RequestFits, Requests
<1>4. ASSUME NEW t \in Titles, NEW a \in AlbumIds, UpdateNameChecks(a, t) PROVE req' \in Requests /\ RequestFits'
  BY <1>1, <1>4 DEF UpdateNameChecks, RequestFits, Requests
<1>5. ASSUME NEW a \in AlbumIds, NEW x \in Pics, UpdateCoverChecks(a, x) PROVE req' \in Requests /\ RequestFits'
  BY <1>1, <1>2, <1>5 DEF UpdateCoverChecks, RequestFits, Requests
<1>6. ASSUME NEW a \in AlbumIds, NEW order \in SetToSeqs(MembersOf(a)), ReorderChecks(a, order)
      PROVE  req' \in Requests /\ RequestFits'
  <2>1. PICK n \in Nat : order \in [1..n -> Pics]
    <3>1. IsFiniteSet(MembersOf(a)) /\ MembersOf(a) \subseteq Pics
      BY AlbumConstants, FS_Subset DEF MembersOf
    <3>2. Cardinality(MembersOf(a)) \in Nat
      BY <3>1, FS_CardinalityType
    <3>3. order \in [1..Cardinality(MembersOf(a)) -> MembersOf(a)]
      BY DEF SetToSeqs
    <3>4. order \in [1..Cardinality(MembersOf(a)) -> Pics]
      BY <3>1, <3>3
    <3> QED BY <3>2, <3>4
  <2>2. req' = [op |-> "reorder", a |-> a, order |-> order] /\ IsInjective(order) /\ ToSet(order) = MembersOf(a)
    BY <1>6 DEF ReorderChecks
  <2>3. req'.op = "reorder" /\ req'.a = a /\ req'.order = order
    BY <2>2
  <2>4. RequestFits'
    BY <1>2, <2>2, <2>3 DEF RequestFits, IsInjective, ToSet
  <2> QED BY <2>1, <2>2, <2>4 DEF Requests
<1>7. req' \in Requests /\ RequestFits'
  BY <1>3, <1>4, <1>5, <1>6
<1> QED BY <1>1, <1>2, <1>7 DEF AlbumsTyped

LEMMA Answered == ASSUME req' = NoReq PROVE req' \in Requests /\ RequestFits'
BY DEF Requests, RequestFits, NoReq

\* Two members share a position only when they are one.
LEMMA ApartIs ==
    AlbumsSound <=>
        /\ \A a \in AlbumIds : \A x, y \in Pics : pos[a][x] >= 0 /\ pos[a][y] >= 0 /\ x # y => pos[a][x] # pos[a][y]
        /\ \A a, b \in AlbumIds : title[a] # NoTitle /\ title[b] # NoTitle /\ a # b => title[a] # title[b]
        /\ \A a \in AlbumIds : cover[a] # NoPic => cover[a] \in Pics /\ pos[a][cover[a]] >= 0
BY DEF AlbumsSound, MembersOf, Made

LEMMA AlbumWritesKeep ==
    ASSUME AlbumsInv, CreateAlbum \/ UpdateName \/ UpdateCover \/ ReorderAssets PROVE AlbumsInv'
<1> USE DEF AlbumsInv
<1>1. /\ pic' = pic /\ req' \in Requests /\ RequestFits' /\ pic' \in [Pics -> {"shown", "trashed", "offline", "gone"}]
      /\ pos \in [AlbumIds -> [Pics -> Nat \cup {-1}]] /\ title \in [AlbumIds -> Titles \cup {NoTitle}]
      /\ cover \in [AlbumIds -> Pics \cup {NoPic}] /\ RequestFits /\ AlbumsSound
  BY Answered DEF CreateAlbum, UpdateName, UpdateCover, ReorderAssets, ReqDone, AlbumsTyped
<1>2. CASE CreateAlbum
  <2>1. PICK a \in AlbumIds : title' = [title EXCEPT ![a] = req.t]
    BY <1>2 DEF CreateAlbum
  <2>2. req.t \in Titles /\ \A b \in AlbumIds : title[b] # req.t
    BY <1>2, RequestKinds DEF CreateAlbum, RequestFits, AlbumsTyped
  <2>3. title' \in [AlbumIds -> Titles \cup {NoTitle}] /\ UNCHANGED <<pos, cover>>
    BY <1>1, <1>2, <2>1, <2>2 DEF CreateAlbum
  <2>4. \A b \in AlbumIds : title'[b] = IF b = a THEN req.t ELSE title[b]
    BY <1>1, <2>1
  <2>5. AlbumsSound'
    BY <1>1, <2>2, <2>3, <2>4 DEF AlbumsSound, MembersOf, Made
  <2> QED BY <1>1, <2>3, <2>5 DEF AlbumsTyped
<1>3. CASE UpdateName
  <2>1. req.a \in AlbumIds /\ req.t \in Titles /\ \A b \in AlbumIds \ {req.a} : title[b] # req.t
    BY <1>3, RequestKinds DEF UpdateName, RequestFits, AlbumsTyped
  <2>2. UNCHANGED <<pos, cover>> /\ (title' = title \/ title' = [title EXCEPT ![req.a] = req.t])
    BY <1>3 DEF UpdateName
  <2>3. title' \in [AlbumIds -> Titles \cup {NoTitle}]
    BY <1>1, <2>1, <2>2
  <2>4. title' = title \/ \A b \in AlbumIds : title'[b] = IF b = req.a THEN req.t ELSE title[b]
    BY <1>1, <2>2
  <2>5. AlbumsSound'
    BY <1>1, <2>1, <2>2, <2>4 DEF AlbumsSound, MembersOf, Made
  <2> QED BY <1>1, <2>2, <2>3, <2>5 DEF AlbumsTyped
<1>4. CASE UpdateCover
  <2>1. req.a \in AlbumIds /\ req.x \in Pics /\ (req.x \in MembersOf(req.a) \/ pic[req.x] = "gone")
    BY <1>4, RequestKinds DEF UpdateCover, RequestFits, AlbumsTyped
  <2>2. UNCHANGED <<title, pos>> /\ (cover' = cover \/ (req.x \in MembersOf(req.a) /\ cover' = [cover EXCEPT ![req.a] = req.x]))
    BY <1>4, <2>1 DEF UpdateCover
  <2>3. cover' \in [AlbumIds -> Pics \cup {NoPic}]
    BY <1>1, <2>1, <2>2
  <2>4. \A a \in AlbumIds : cover'[a] = cover[a] \/ cover'[a] \in MembersOf(a)
    BY <1>1, <2>1, <2>2
  <2>5. AlbumsSound'
    BY <1>1, <2>2, <2>4 DEF AlbumsSound, MembersOf, Made
  <2> QED BY <1>1, <2>2, <2>3, <2>5 DEF AlbumsTyped
<1>5. CASE ReorderAssets
  <2> DEFINE Place(x) == CHOOSE i \in DOMAIN req.order : req.order[i] = x
             row(x) == IF pos[req.a][x] = -1 THEN -1
                      ELSE IF \E i \in DOMAIN req.order : req.order[i] = x THEN Place(x) - 1 ELSE pos[req.a][x]
  <2>1. /\ req.op = "reorder" /\ req.a \in AlbumIds /\ MembersOf(req.a) \subseteq ToSet(req.order)
        /\ UNCHANGED <<title, cover>> /\ pos' = [pos EXCEPT ![req.a] = [x \in Pics |-> row(x)]]
    BY <1>5, RequestKinds DEF ReorderAssets, RequestFits, AlbumsTyped
  <2>2. PICK n \in Nat : req.order \in [1..n -> Pics]
    BY <2>1, RequestKinds DEF AlbumsTyped
  <2>3. \A x \in ToSet(req.order) : Place(x) \in 1..n /\ req.order[Place(x)] = x
    BY <2>2 DEF ToSet
  <2>4. \A x \in Pics : x \in MembersOf(req.a) => x \in ToSet(req.order) /\ \E i \in DOMAIN req.order : req.order[i] = x
    BY <2>1 DEF ToSet
  <2>5. \A x \in Pics : row(x) = IF x \in MembersOf(req.a) THEN Place(x) - 1 ELSE -1
    BY <1>1, <2>1, <2>4 DEF MembersOf
  <2>6. \A x \in Pics : x \in MembersOf(req.a) => Place(x) \in 1..n /\ req.order[Place(x)] = x
    BY <2>3, <2>4
  <2> HIDE DEF row, Place
  <2>7. /\ \A x \in Pics : row(x) \in Nat \cup {-1} /\ (row(x) >= 0 <=> x \in MembersOf(req.a))
        /\ \A x, y \in Pics : x \in MembersOf(req.a) /\ y \in MembersOf(req.a) /\ row(x) = row(y) => x = y
    BY <2>2, <2>5, <2>6
  <2>8. pos' \in [AlbumIds -> [Pics -> Nat \cup {-1}]]
    BY <1>1, <2>1, <2>7
  <2>9. \A a \in AlbumIds, x \in Pics : pos'[a][x] = IF a = req.a THEN row(x) ELSE pos[a][x]
    BY <1>1, <2>1
  <2>10. \A a \in AlbumIds, x \in Pics : pos'[a][x] >= 0 <=> pos[a][x] >= 0
    BY <2>1, <2>7, <2>9 DEF MembersOf
  <2>11. \A a \in AlbumIds, x, y \in Pics : pos'[a][x] >= 0 /\ pos'[a][y] >= 0 /\ x # y => pos'[a][x] # pos'[a][y]
    BY <1>1, <2>7, <2>9, ApartIs DEF MembersOf
  <2>12. AlbumsSound'
    BY <1>1, <2>1, <2>10, <2>11 DEF AlbumsSound, MembersOf, Made
  <2> QED BY <1>1, <2>1, <2>8, <2>12 DEF AlbumsTyped
<1> QED BY <1>2, <1>3, <1>4, <1>5

\* Of two photos of a batch one is named first.
LEMMA NamedApart ==
    ASSUME NEW xs \in Batches
    PROVE  /\ ToSet(xs) \subseteq Pics /\ IsFiniteSet(ToSet(xs))
           /\ \A x \in ToSet(xs) : NamedBefore(xs, x) \subseteq ToSet(xs) \ {x}
           /\ \A x, y \in ToSet(xs) : x # y =>
                \/ x \in NamedBefore(xs, y) /\ NamedBefore(xs, x) \subseteq NamedBefore(xs, y)
                \/ y \in NamedBefore(xs, x) /\ NamedBefore(xs, y) \subseteq NamedBefore(xs, x)
<1>1. /\ ToSet(xs) \subseteq Pics
      /\ \A x \in ToSet(xs) : NamedBefore(xs, x) \subseteq ToSet(xs) \ {x}
  BY DEF Batches, ToSet, NamedBefore
<1>2. IsFiniteSet(ToSet(xs))
  BY <1>1, AlbumConstants, FS_Subset
<1>3. ASSUME NEW x \in ToSet(xs), NEW y \in ToSet(xs), x # y
      PROVE  \/ x \in NamedBefore(xs, y) /\ NamedBefore(xs, x) \subseteq NamedBefore(xs, y)
             \/ y \in NamedBefore(xs, x) /\ NamedBefore(xs, y) \subseteq NamedBefore(xs, x)
  <2>1. DOMAIN xs \subseteq Nat \ {0} /\ x \in {xs[i] : i \in DOMAIN xs} /\ y \in {xs[i] : i \in DOMAIN xs}
    BY DEF Batches, ToSet
  <2> DEFINE first == {i \in DOMAIN xs : xs[i] = x \/ xs[i] = y}
  <2>2. first \in SUBSET Nat /\ first # {}
    BY <2>1
  <2>3. PICK i \in first : \A j \in first : i <= j
    <3> HIDE DEF first
    <3> QED BY <2>2, Least
  <2>4. i \in Nat /\ i \in DOMAIN xs /\ \A j \in DOMAIN xs : j < i => xs[j] # x /\ xs[j] # y
    BY <2>1, <2>3
  <2>5. 1..(i - 1) \subseteq DOMAIN xs
    BY <2>4 DEF Batches
  <2>6. \A j \in 1..i : j # i => j \in DOMAIN xs /\ xs[j] # x /\ xs[j] # y
    BY <2>4, <2>5
  <2>7. ASSUME NEW u, NEW v, u # v, xs[i] = u, \A j \in 1..i : j # i => xs[j] # v, v \in {x, y}, u \in {x, y}
        PROVE  u \in NamedBefore(xs, v) /\ NamedBefore(xs, u) \subseteq NamedBefore(xs, v)
    <3>1. u \in NamedBefore(xs, v)
      BY <2>4, <2>7 DEF NamedBefore
    <3>2. ASSUME NEW k \in DOMAIN xs, \A j \in 1..k : xs[j] # u PROVE \A j \in 1..k : xs[j] # v
      <4>1. i \notin 1..k
        BY <2>7, <3>2
      <4>2. k \in Nat /\ 1 <= i /\ k < i
        BY <2>1, <2>4, <4>1
      <4> QED BY <2>4, <2>7, <4>2
    <3>3. NamedBefore(xs, u) \subseteq NamedBefore(xs, v)
      BY <3>2 DEF NamedBefore
    <3> QED BY <3>1, <3>3
  <2>8. xs[i] = x \/ xs[i] = y
    BY <2>3
  <2> QED BY <1>3, <2>6, <2>7, <2>8
<1> QED BY <1>1, <1>2, <1>3

LEMMA NextPosition ==
    ASSUME AlbumsTyped, NEW a \in AlbumIds, Pics # {}
    PROVE  AddedAfter(pos[a]) \in Nat /\ \A x \in Pics : pos[a][x] < AddedAfter(pos[a])
<1> DEFINE p == pos[a]
           taken == {p[x] : x \in Pics}
<1>1. \A x \in Pics : p[x] \in Nat \cup {-1} /\ p[x] \in Int
  BY DEF AlbumsTyped
<1>2. PICK x \in Pics : \A y \in Pics : p[y] <= p[x]
  <2> HIDE DEF p
  <2> QED BY <1>1, AlbumConstants, GreatestOf
<1>3. Max(taken) \in taken /\ \A i \in taken : i <= Max(taken)
  <2>1. p[x] \in taken /\ \A i \in taken : p[x] >= i
    BY <1>1, <1>2
  <2> HIDE DEF taken
  <2>2. Max(taken) \in taken /\ \A i \in taken : Max(taken) >= i
    BY <2>1 DEF Max
  <2>3. \A i \in taken : i \in Int
    BY <1>1 DEF taken
  <2> QED BY <2>2, <2>3
<1>4. AddedAfter(p) = Max(taken) + 1 /\ \A y \in Pics : p[y] \in taken
  BY DEF AddedAfter
<1>5. \E y \in Pics : Max(taken) = p[y]
  BY <1>3
<1> HIDE DEF p, taken
<1>6. Max(taken) \in Int /\ Max(taken) >= -1 /\ \A y \in Pics : p[y] <= Max(taken)
  BY <1>1, <1>3, <1>4, <1>5
<1>7. AddedAfter(p) \in Nat /\ \A y \in Pics : p[y] < AddedAfter(p)
  BY <1>1, <1>4, <1>6
<1> QED BY <1>7 DEF p

LEMMA BatchKeeps ==
    ASSUME ~AlbumRaces, AlbumsInv, NEW a \in AlbumIds, NEW xs \in Batches, BatchAddAssets(a, xs) PROVE AlbumsInv'
<1> USE DEF AlbumsInv
<1> DEFINE new == NewIn(a, xs)
           next == AddedAfter(pos[a])
           rank(x) == Cardinality(new \cap NamedBefore(xs, x))
<1>1. /\ pos' = Appended(a, xs, next) /\ req = NoReq /\ UNCHANGED <<pic, title, cover, req>>
  BY DEF BatchAddAssets, Quiet, AlbumAct
<1>2. next \in Nat /\ \A x \in Pics : pos[a][x] < next
  <2>1. Pics # {}
    BY DEF Batches
  <2> QED BY <2>1, NextPosition
<1>3. new \subseteq Pics /\ IsFiniteSet(new) /\ \A x \in Pics : x \in new => pos[a][x] = -1
  <2>1. ToSet(xs) \subseteq Pics
    BY NamedApart
  <2>2. new \subseteq Pics /\ \A x \in Pics : x \in new => pos[a][x] = -1
    BY <2>1 DEF NewIn
  <2> QED BY <2>2, AlbumConstants, FS_Subset
<1>4. \A x \in new : rank(x) \in Nat
  <2>1. \A x : IsFiniteSet(new \cap NamedBefore(xs, x))
    BY <1>3, FS_Subset
  <2> QED BY <2>1, FS_CardinalityType
<1>5. ASSUME NEW x \in new, NEW y \in new, x # y PROVE rank(x) # rank(y)
  <2>1. ASSUME NEW u \in new, NEW v \in new, u \in NamedBefore(xs, v), NamedBefore(xs, u) \subseteq NamedBefore(xs, v),
               u \notin NamedBefore(xs, u)
        PROVE  rank(u) # rank(v)
    <3> DEFINE U == new \cap NamedBefore(xs, u)
               V == new \cap NamedBefore(xs, v)
    <3>1. IsFiniteSet(V)
      BY <1>3, FS_Subset
    <3>2. U \in SUBSET V /\ U # V
      BY <2>1
    <3> HIDE DEF U, V
    <3>3. Cardinality(U) # Cardinality(V)
      BY <3>1, <3>2, FS_Subset
    <3> QED BY <3>3 DEF U, V
  <2>2. x \in ToSet(xs) /\ y \in ToSet(xs)
    BY DEF NewIn
  <2>3. \A u \in ToSet(xs) : u \notin NamedBefore(xs, u)
    BY NamedApart
  <2> HIDE DEF rank, new
  <2>4. \/ x \in NamedBefore(xs, y) /\ NamedBefore(xs, x) \subseteq NamedBefore(xs, y)
        \/ y \in NamedBefore(xs, x) /\ NamedBefore(xs, y) \subseteq NamedBefore(xs, x)
    BY <1>5, <2>2, NamedApart
  <2> QED BY <1>5, <2>1, <2>2, <2>3, <2>4
<1>6. pos \in [AlbumIds -> [Pics -> Nat \cup {-1}]] /\ AlbumsSound
  BY DEF AlbumsTyped
<1>7. pos' = [pos EXCEPT ![a] = [x \in Pics |-> IF x \in new THEN next + rank(x) ELSE pos[a][x]]]
  BY <1>1 DEF Appended
<1> HIDE DEF rank, new, next
<1>8. pos' \in [AlbumIds -> [Pics -> Nat \cup {-1}]]
  BY <1>2, <1>4, <1>6, <1>7
<1>9. \A b \in AlbumIds, x \in Pics : pos'[b][x] = IF b = a /\ x \in new THEN next + rank(x) ELSE pos[b][x]
  BY <1>6, <1>7
<1>10. \A b \in AlbumIds, x \in Pics : pos[b][x] >= 0 => pos'[b][x] >= 0
  BY <1>3, <1>9
<1>11. ASSUME NEW b \in AlbumIds, NEW x \in Pics, NEW y \in Pics, pos'[b][x] >= 0, pos'[b][y] >= 0, x # y
       PROVE  pos'[b][x] # pos'[b][y]
  <2>1. pos[b][x] \in Nat \cup {-1} /\ pos[b][y] \in Nat \cup {-1}
    BY <1>6
  <2>2. CASE b = a /\ x \in new /\ y \in new
    BY <1>2, <1>4, <1>5, <1>9, <1>11, <2>2
  <2>3. CASE b = a /\ x \in new /\ y \notin new
    BY <1>2, <1>4, <1>9, <1>11, <2>1, <2>3
  <2>4. CASE b = a /\ x \notin new /\ y \in new
    BY <1>2, <1>4, <1>9, <1>11, <2>1, <2>4
  <2>5. CASE b # a \/ (x \notin new /\ y \notin new)
    BY <1>6, <1>9, <1>11, <2>5, ApartIs
  <2> QED BY <2>2, <2>3, <2>4, <2>5
<1>12. AlbumsSound'
  BY <1>1, <1>6, <1>10, <1>11 DEF AlbumsSound, MembersOf, Made
<1>13. req' \in Requests /\ RequestFits'
  BY <1>1, Answered
<1> QED BY <1>1, <1>8, <1>12, <1>13 DEF AlbumsTyped

LEMMA RemovalsKeep ==
    ASSUME ~AlbumRaces, AlbumsInv, NEW a \in AlbumIds, DeleteAlbum(a) \/ \E x \in Pics : RemoveAsset(a, x)
    PROVE  AlbumsInv'
<1> USE DEF AlbumsInv
<1>1. /\ req = NoReq /\ UNCHANGED <<pic, req>> /\ AlbumsSound /\ pos \in [AlbumIds -> [Pics -> Nat \cup {-1}]]
      /\ title \in [AlbumIds -> Titles \cup {NoTitle}] /\ cover \in [AlbumIds -> Pics \cup {NoPic}]
  BY DEF DeleteAlbum, RemoveAsset, Quiet, AlbumAct, AlbumsTyped
<1>2. req' \in Requests /\ RequestFits'
  BY <1>1, Answered
<1>3. CASE DeleteAlbum(a)
  <2>1. /\ title' = [title EXCEPT ![a] = NoTitle] /\ pos' = [pos EXCEPT ![a] = NoMembers]
        /\ cover' = [cover EXCEPT ![a] = NoPic]
    BY <1>3 DEF DeleteAlbum
  <2>2. /\ pos' \in [AlbumIds -> [Pics -> Nat \cup {-1}]] /\ title' \in [AlbumIds -> Titles \cup {NoTitle}]
        /\ cover' \in [AlbumIds -> Pics \cup {NoPic}]
    BY <1>1, <2>1 DEF NoMembers
  <2>3. \A b \in AlbumIds : /\ title'[b] = IF b = a THEN NoTitle ELSE title[b]
                            /\ cover'[b] = IF b = a THEN NoPic ELSE cover[b]
                            /\ \A x \in Pics : pos'[b][x] = IF b = a THEN -1 ELSE pos[b][x]
    BY <1>1, <2>1 DEF NoMembers
  <2>4. AlbumsSound'
    BY <1>1, <2>3 DEF AlbumsSound, MembersOf, Made
  <2> QED BY <1>1, <1>2, <2>2, <2>4 DEF AlbumsTyped
<1>4. ASSUME NEW x \in Pics, RemoveAsset(a, x) PROVE AlbumsInv'
  <2>1. /\ UNCHANGED title /\ pos' = [pos EXCEPT ![a][x] = -1]
        /\ cover' = IF cover[a] = x THEN [cover EXCEPT ![a] = NoPic] ELSE cover
    BY <1>4 DEF RemoveAsset
  <2>2. pos' \in [AlbumIds -> [Pics -> Nat \cup {-1}]] /\ cover' \in [AlbumIds -> Pics \cup {NoPic}]
    BY <1>1, <2>1
  <2>3. \A b \in AlbumIds : /\ cover'[b] = IF b = a /\ cover[b] = x THEN NoPic ELSE cover[b]
                            /\ \A y \in Pics : pos'[b][y] = IF b = a /\ y = x THEN -1 ELSE pos[b][y]
    BY <1>1, <2>1
  <2>4. AlbumsSound'
    BY <1>1, <2>1, <2>3 DEF AlbumsSound, MembersOf, Made
  <2> QED BY <1>1, <1>2, <2>1, <2>2, <2>4 DEF AlbumsTyped
<1> QED BY <1>3, <1>4

LEMMA PicEventKeeps ==
    ASSUME AlbumsInv, NEW x \in Pics, NEW to \in {"shown", "trashed", "offline", "gone"}, PicEvent(x, to) PROVE AlbumsInv'
<1> USE DEF AlbumsInv
<1>1. /\ UNCHANGED <<title, req>> /\ AlbumsSound /\ RequestFits /\ pos \in [AlbumIds -> [Pics -> Nat \cup {-1}]]
      /\ cover \in [AlbumIds -> Pics \cup {NoPic}] /\ req \in Requests
      /\ pic \in [Pics -> {"shown", "trashed", "offline", "gone"}] /\ pic' = [pic EXCEPT ![x] = to] /\ pic[x] # "gone"
  BY DEF PicEvent, AlbumsTyped
<1>2. pic' \in [Pics -> {"shown", "trashed", "offline", "gone"}] /\ \A y \in Pics : pic[y] = "gone" => pic'[y] = "gone"
  BY <1>1
<1>3. CASE to # "gone"
  <2>1. UNCHANGED <<pos, cover>>
    BY <1>3 DEF PicEvent
  <2>2. RequestFits'
    BY <1>1, <1>2, <2>1, RequestKinds DEF RequestFits, MembersOf
  <2> QED BY <1>1, <1>2, <2>1, <2>2 DEF AlbumsTyped, AlbumsSound, MembersOf, Made
<1>4. CASE to = "gone"
  <2>1. /\ pos' = [a \in AlbumIds |-> [pos[a] EXCEPT ![x] = -1]]
        /\ cover' = [a \in AlbumIds |-> IF cover[a] = x THEN NoPic ELSE cover[a]]
    BY <1>4 DEF PicEvent
  <2>2. pos' \in [AlbumIds -> [Pics -> Nat \cup {-1}]] /\ cover' \in [AlbumIds -> Pics \cup {NoPic}]
    BY <1>1, <2>1
  <2>3. \A b \in AlbumIds : /\ cover'[b] = IF cover[b] = x THEN NoPic ELSE cover[b]
                            /\ \A y \in Pics : pos'[b][y] = IF y = x THEN -1 ELSE pos[b][y]
    BY <1>1, <2>1
  <2>4. \A b \in AlbumIds : MembersOf(b)' = MembersOf(b) \ {x}
    BY <2>3 DEF MembersOf
  <2>5. RequestFits'
    BY <1>1, <1>2, <1>4, <2>4, RequestKinds DEF RequestFits
  <2>6. AlbumsSound'
    BY <1>1, <2>3 DEF AlbumsSound, MembersOf, Made
  <2> QED BY <1>1, <1>2, <2>2, <2>5, <2>6 DEF AlbumsTyped
<1> QED BY <1>3, <1>4

LEMMA AlbumSteps == ASSUME ~AlbumRaces, AlbumsInv, [AbNext]_abVars PROVE AlbumsInv'
<1>1. CASE UNCHANGED abVars
  BY <1>1 DEF abVars, AlbumsInv, AlbumsTyped, AlbumsSound, RequestFits, MembersOf, Made
<1>2. CASE AbNext
  BY <1>2, ChecksKeep, AlbumWritesKeep, BatchKeeps, RemovalsKeep, PicEventKeeps DEF AbNext
<1> QED BY <1>1, <1>2

\* The best of the members that can be shown is one.
LEMMA CoverIsThere ==
    ASSUME AlbumsInv, NEW a \in AlbumIds
    PROVE  /\ ShownCover(a) # NoPic => Visible(ShownCover(a))
           /\ (\E x \in MembersOf(a) : Visible(x)) => ShownCover(a) # NoPic
<1> DEFINE here == {x \in MembersOf(a) : Visible(x)}
           Outranks(x, y) == Score[y] < Score[x] \/ (Score[y] = Score[x] /\ pos[a][x] < pos[a][y])
           best == CHOOSE x \in here : \A y \in here \ {x} : Outranks(x, y)
<1>1. ShownCover(a) = IF cover[a] \in here THEN cover[a] ELSE IF here = {} THEN NoPic ELSE best
  BY DEF ShownCover
<1>2. /\ here \subseteq Pics /\ IsFiniteSet(here) /\ \A x \in here : Score[x] \in Int /\ pos[a][x] \in Int
      /\ \A x, y \in here : x # y => pos[a][x] # pos[a][y]
  <2>1. here \subseteq Pics
    BY DEF MembersOf
  <2>2. IsFiniteSet(here)
    BY <2>1, AlbumConstants, FS_Subset
  <2>3. \A x \in Pics : Score[x] \in Int /\ pos[a][x] \in Int
    BY AlbumConstants DEF AlbumsInv, AlbumsTyped
  <2>4. \A x, y \in here : x # y => pos[a][x] # pos[a][y]
    BY DEF AlbumsInv, AlbumsSound
  <2> QED BY <2>1, <2>2, <2>3, <2>4
<1>3. ASSUME here # {} PROVE \E x \in here : \A y \in here \ {x} : Outranks(x, y)
  <2> HIDE DEF here
  <2>1. PICK x \in here : \A y \in here : Score[y] <= Score[x]
    BY <1>2, <1>3, GreatestOf
  <2> DEFINE top == {y \in here : Score[y] = Score[x]}
             p == pos[a]
  <2>2. top # {} /\ IsFiniteSet(top) /\ \A y \in top : p[y] \in Int
    BY <1>2, <2>1, FS_Subset
  <2>3. PICK y \in top : \A z \in top : p[y] <= p[z]
    <3> HIDE DEF top, p
    <3> QED BY <2>2, SmallestOf
  <2>4. \A z \in here \ {y} : Outranks(y, z)
    BY <1>2, <2>1, <2>3
  <2> QED BY <2>3, <2>4
<1> HIDE DEF Outranks
<1>4. here # {} => best \in here
  BY <1>3
<1>5. \A x \in here : x # NoPic /\ Visible(x)
  BY <1>2, AlbumConstants
<1> HIDE DEF best
<1> QED BY <1>1, <1>4, <1>5

LEMMA ReadsFit == ASSUME AlbumsInv PROVE ReadsAgree
<1>1. SUFFICES ASSUME NEW a \in Made
               PROVE  /\ Cardinality(ListAssets(a)) = PhotoCount(a) + VideoCount(a)
                      /\ Summary(a).assetCount = Cardinality(ListAssets(a))
                      /\ Summary(a).coverCandidates \subseteq ListAssets(a)
                      /\ ShownCover(a) # NoPic => Visible(ShownCover(a))
                      /\ ListAssets(a) # {} => ShownCover(a) # NoPic
  BY DEF ReadsAgree
<1> DEFINE P == {x \in MembersOf(a) : x \notin Companions /\ Visible(x) /\ x \notin Videos}
           V == {x \in MembersOf(a) : x \notin Companions /\ Visible(x) /\ x \in Videos}
<1>2. P \subseteq Pics /\ V \subseteq Pics /\ P \cap V = {} /\ ListAssets(a) = P \cup V
  BY DEF ListAssets, MembersOf
<1>3. PhotoCount(a) = Cardinality(P) /\ VideoCount(a) = Cardinality(V)
  BY DEF PhotoCount, VideoCount
<1> HIDE DEF P, V
<1>4. IsFiniteSet(P) /\ IsFiniteSet(V)
  BY <1>2, AlbumConstants, FS_Subset
<1>5. Cardinality(P) \in Nat /\ Cardinality(V) \in Nat /\ Cardinality({}) = 0
  BY <1>4, FS_CardinalityType, FS_EmptySet
<1>6. Cardinality(P \cup V) = Cardinality(P) + Cardinality(V) - Cardinality(P \cap V) /\ Cardinality(P \cap V) = 0
  BY <1>2, <1>4, <1>5, FS_Union
<1>7. Cardinality(ListAssets(a)) = PhotoCount(a) + VideoCount(a)
  <2>1. Cardinality(P \cup V) = Cardinality(P) + Cardinality(V)
    BY <1>5, <1>6
  <2> QED BY <1>2, <1>3, <2>1
<1>8. Summary(a).assetCount = Cardinality(ListAssets(a)) /\ Summary(a).coverCandidates \subseteq ListAssets(a)
  BY DEF Summary, ListAssets, Visible
<1>9. a \in AlbumIds
  BY DEF Made
<1>10. ListAssets(a) # {} => \E x \in MembersOf(a) : Visible(x)
  BY DEF ListAssets
<1> QED BY <1>7, <1>8, <1>9, <1>10, CoverIsThere

-----------------------------------------------------------------------------
(* The album made of a place: what a visit's days hold are the visit's photos. *)

Makings == [pc : {"idle", "create", "add"}, ids : SUBSET DOMAIN snaps, asked : SUBSET DOMAIN snaps, visit : BOOLEAN]
PlaceAlbums == [photos : SUBSET DOMAIN snaps, asked : SUBSET DOMAIN snaps, visit : BOOLEAN, filled : BOOLEAN]

PlacesTyped ==
    /\ snaps \in Atlases \cup {<<>>} /\ inView \subseteq DOMAIN snaps
    /\ making \in Makings /\ made \subseteq PlaceAlbums

PlacesInv == PlacesTyped /\ making.ids = making.asked \ AtMidnight(making) /\ PlaceAlbumsAreWhole

LEMMA DaysOf ==
    ASSUME NEW t \in Nat
    PROVE  /\ Day \in Nat \ {0} /\ Day * (t \div Day) \in Nat /\ t % Day \in 0..(Day - 1)
           /\ t = Day * (t \div Day) + (t % Day)
<1>1. Day \in Nat \ {0}
  BY PlaceSizes
<1>2. t \div Day \in Nat
  BY <1>1
<1> QED BY <1>1, <1>2

LEMMA WindowIsVisit ==
    ASSUME PlacesTyped, NEW c \in Towns, NEW v \in Visits(c)
    PROVE  /\ v.shots \subseteq DOMAIN snaps
           /\ InWindow(c, v.from, v.to) = v.shots \ {x \in v.shots : /\ snaps[x].taken % Day = Day - 1
                                                                     /\ \A y \in v.shots : snaps[y].taken <= snaps[x].taken}
<1> DEFINE S == Dated(c)
           T == [y \in S |-> snaps[y].taken]
<1>1. /\ S \subseteq DOMAIN snaps /\ IsFiniteSet(S) /\ \A y \in S : T[y] \in Nat /\ T[y] = snaps[y].taken
  <2>1. S \subseteq DOMAIN snaps
    BY DEF Dated, In, PlacesTyped
  <2>2. IsFiniteSet(DOMAIN snaps) /\ \A y \in DOMAIN snaps : snaps[y].taken \in Nat
    BY AtlasesFit, FS_EmptySet DEF PlacesTyped
  <2> QED BY <2>1, <2>2, FS_Subset
<1>2. PICK x \in S : StartsTrip(S, x) /\ v.shots = TripFrom(S, x)
                     /\ v.from = Min(Taken(TripFrom(S, x))) \div Day /\ v.to = Max(Taken(TripFrom(S, x))) \div Day
  BY DEF Visits, splitTrips
<1> DEFINE trip == TripFrom(S, x)
           gap == Day * TripGap
<1>3. Day \in Nat \ {0} /\ gap \in Nat /\ gap >= Day
  <2>1. Day \in Nat \ {0} /\ TripGap \in Nat \ {0}
    BY PlaceSizes
  <2> QED BY <2>1
<1>4. /\ trip \subseteq S /\ Taken(trip) = {T[y] : y \in trip}
      /\ \A z \in S : StartsTrip(S, z) => \A y \in S : T[y] < T[z] => T[z] - T[y] > gap
      /\ \A y \in S : y \in trip <=> T[y] >= T[x] /\ \A z \in S : StartsTrip(S, z) /\ T[z] > T[x] => T[y] < T[z]
  BY <1>1 DEF TripFrom, StartsTrip, Taken
<1>5. InWindow(c, v.from, v.to) = {y \in S : T[y] >= Day * v.from /\ T[y] < Day * v.to + Day - 1}
  BY <1>1 DEF InWindow
<1> HIDE DEF S, T, trip, gap
<1>6. x \in trip /\ \A y \in trip : T[x] <= T[y]
  BY <1>1, <1>2, <1>4
<1>7. PICK m \in trip : \A y \in trip : T[y] <= T[m]
  <2>1. IsFiniteSet(trip) /\ trip # {} /\ \A y \in trip : T[y] \in Int
    BY <1>1, <1>4, <1>6, FS_Subset
  <2> QED BY <2>1, GreatestOf
<1>8. Min(Taken(trip)) = T[x] /\ Max(Taken(trip)) = T[m]
  <2>1. T[x] \in Taken(trip) /\ T[m] \in Taken(trip) /\ \A t \in Taken(trip) : t \in Nat /\ T[x] <= t /\ t <= T[m]
    BY <1>1, <1>4, <1>6, <1>7
  <2> HIDE DEF Taken
  <2>2. \A t \in Taken(trip) : (\A u \in Taken(trip) : t <= u) => t = T[x]
    BY ONLY <2>1
  <2>3. \A t \in Taken(trip) : (\A u \in Taken(trip) : t >= u) => t = T[m]
    BY ONLY <2>1
  <2>4. Min(Taken(trip)) = T[x]
    BY <2>1, <2>2 DEF Min
  <2>5. Max(Taken(trip)) = T[m]
    BY <2>1, <2>3 DEF Max
  <2> QED BY <2>4, <2>5
<1> DEFINE begins == Day * v.from
           ends   == Day * v.to + Day - 1
<1>9. /\ begins \in Nat /\ begins <= T[x] /\ T[x] < begins + Day
      /\ ends \in Nat /\ T[m] <= ends /\ ends < T[m] + Day /\ (T[m] % Day = Day - 1 <=> T[m] = ends)
  <2>1. v.from = T[x] \div Day /\ v.to = T[m] \div Day /\ T[x] \in Nat /\ T[m] \in Nat
    BY <1>1, <1>2, <1>4, <1>7, <1>8 DEF trip
  <2> DEFINE p == Day * (T[x] \div Day)
             q == Day * (T[m] \div Day)
             e == T[x] % Day
             f == T[m] % Day
  <2>2. /\ p \in Nat /\ e \in 0..(Day - 1) /\ T[x] = p + e
        /\ q \in Nat /\ f \in 0..(Day - 1) /\ T[m] = q + f
    BY <2>1, DaysOf
  <2>3. begins = p /\ ends = q + Day - 1 /\ (T[m] % Day = Day - 1 <=> f = Day - 1)
    BY <2>1
  <2> HIDE DEF begins, ends, p, q, e, f
  <2> QED BY <1>3, <2>2, <2>3
<1> HIDE DEF begins, ends
<1> DEFINE OfMidnight(y) == T[y] % Day = Day - 1 /\ \A z \in trip : T[z] <= T[y]
<1>10. ASSUME NEW y \in S PROVE T[y] >= begins /\ T[y] < ends <=> y \in trip /\ ~OfMidnight(y)
  <2>1. T[y] \in Nat /\ T[x] \in Nat /\ T[m] \in Nat /\ m \in S
    BY <1>1, <1>4, <1>7
  <2>2. ASSUME y \in trip, ~OfMidnight(y) PROVE T[y] >= begins /\ T[y] < ends
    <3>1. T[x] <= T[y] /\ T[y] <= T[m]
      BY <1>6, <1>7, <2>2
    <3>2. CASE T[y] = T[m]
      <4>1. \A z \in trip : T[z] <= T[y]
        BY <1>7, <3>2
      <4>2. T[m] # ends
        BY <1>9, <2>2, <3>2, <4>1
      <4> QED BY <1>3, <1>9, <2>1, <3>1, <3>2, <4>2
    <3> QED BY <1>3, <1>9, <2>1, <3>1, <3>2
  <2>3. ASSUME T[y] >= begins, T[y] < ends PROVE y \in trip
    <3>1. ~(T[y] < T[x])
      <4>1. T[y] < T[x] => T[x] - T[y] > gap
        BY <1>2, <1>4
      <4> QED BY <1>3, <1>9, <2>1, <2>3, <4>1
    <3>2. ASSUME NEW z \in S, StartsTrip(S, z), T[z] > T[x] PROVE T[y] < T[z]
      <4>1. T[m] < T[z] /\ T[z] \in Nat
        BY <1>1, <1>4, <1>7, <2>1, <3>2
      <4>2. T[z] - T[m] > gap
        BY <1>4, <2>1, <3>2, <4>1
      <4> QED BY <1>3, <1>9, <2>1, <2>3, <4>1, <4>2
    <3> QED BY <1>4, <2>1, <3>1, <3>2
  <2>4. ASSUME T[y] >= begins, T[y] < ends, OfMidnight(y) PROVE FALSE
    <3>1. T[m] <= T[y] /\ T[y] <= T[m] /\ T[y] % Day = Day - 1
      BY <1>7, <2>3, <2>4
    <3>2. T[y] = T[m]
      BY <2>1, <3>1
    <3>3. T[m] = ends
      BY <1>9, <3>1, <3>2
    <3> QED BY <1>9, <2>1, <2>4, <3>2, <3>3
  <2> QED BY <2>2, <2>3, <2>4
<1>11. v.shots = trip
  BY <1>2 DEF trip
<1>12. \A y \in trip : OfMidnight(y) <=> snaps[y].taken % Day = Day - 1 /\ \A z \in trip : snaps[z].taken <= snaps[y].taken
  BY <1>1, <1>4
<1> HIDE DEF OfMidnight
<1>13. InWindow(c, v.from, v.to) = {y \in trip : ~OfMidnight(y)}
  BY <1>4, <1>5, <1>10 DEF begins, ends
<1> QED BY <1>1, <1>4, <1>11, <1>12, <1>13

LEMMA NotMakingFits ==
    /\ NotMaking \in Makings /\ NotMaking.pc = "idle"
    /\ NotMaking.ids = NotMaking.asked \ AtMidnight(NotMaking)
BY DEF NotMaking, Makings, AtMidnight

\* Where the places page is not the component that runs there are no photos.
LEMMA PlacesStart == ASSUME PaInit \/ (snaps = <<>> /\ inView = {} /\ making = NotMaking /\ made = {}) PROVE PlacesInv
<1>1. snaps \in Atlases \cup {<<>>} /\ inView \subseteq DOMAIN snaps /\ making = NotMaking /\ made = {}
  BY DEF PaInit
<1>2. NotMaking \in Makings /\ NotMaking.ids = NotMaking.asked \ AtMidnight(NotMaking)
  BY NotMakingFits
<1> QED BY <1>1, <1>2 DEF PlacesInv, PlacesTyped, PlaceAlbumsAreWhole

LEMMA MidnightStays ==
    ASSUME NEW m, NEW n, n.asked = m.asked, n.visit = m.visit PROVE AtMidnight(n) = AtMidnight(m)
BY DEF AtMidnight

LEMMA FilledFits ==
    ASSUME PlacesInv
    PROVE  /\ Filled \in PlaceAlbums /\ Filled.filled /\ Filled.photos = making.ids
           /\ (making.ids \cap deleted = {} => Filled.photos = Filled.asked \ (AtMidnight(Filled) \cup deleted))
<1>1. /\ Filled = [photos |-> making.ids, asked |-> making.asked, visit |-> making.visit, filled |-> TRUE]
      /\ making \in Makings
  BY DEF Filled, AlbumOf, PlacesInv, PlacesTyped
<1>2. Filled \in PlaceAlbums
  <2>1. making.visit \in BOOLEAN
    BY <1>1 DEF Makings
  <2>2. making.ids \in SUBSET DOMAIN snaps /\ making.asked \in SUBSET DOMAIN snaps
    BY <1>1 DEF Makings
  <2> QED BY ONLY <1>1, <2>1, <2>2 DEF PlaceAlbums
<1>3. Filled.filled /\ Filled.photos = making.ids /\ Filled.asked = making.asked /\ Filled.visit = making.visit
  BY ONLY <1>1
<1>4. AtMidnight(Filled) = AtMidnight(making)
  BY <1>3, MidnightStays
<1> QED BY <1>2, <1>3, <1>4 DEF PlacesInv

LEMMA PlacesStep == ASSUME PlacesInv, [PaNext]_paVars PROVE PlacesInv'
<1> USE DEF PlacesInv, PlacesTyped
<1>1. ASSUME NEW c \in Towns, MakeReads(c) PROVE PlacesInv'
  <2>1. UNCHANGED <<snaps, inView, deleted, made>> /\ making.pc = "idle"
    BY <1>1 DEF MakeReads
  <2>2. making' \in Makings /\ making'.ids = making'.asked \ AtMidnight(making')
    <3>1. CASE making' = [pc |-> "create", ids |-> In(c), asked |-> In(c), visit |-> FALSE]
      <4>1. In(c) \in SUBSET DOMAIN snaps
        BY DEF In
      <4>2. ~making'.visit /\ making'.ids = making'.asked /\ making' \in Makings
        BY <3>1, <4>1 DEF Makings
      <4> QED BY <4>2 DEF AtMidnight
    <3>2. ASSUME NEW v \in Visits(c),
                 making' = [pc |-> "create", ids |-> InWindow(c, v.from, v.to), asked |-> v.shots, visit |-> TRUE]
          PROVE  making' \in Makings /\ making'.ids = making'.asked \ AtMidnight(making')
      <4>1. v.shots \in SUBSET DOMAIN snaps /\ InWindow(c, v.from, v.to) \in SUBSET DOMAIN snaps
        BY WindowIsVisit
      <4>2. making'.visit /\ making'.ids = InWindow(c, v.from, v.to) /\ making'.asked = v.shots
        BY ONLY <3>2
      <4>3. making' \in Makings
        BY ONLY <3>2, <4>1 DEF Makings
      <4> QED BY <4>2, <4>3, WindowIsVisit DEF AtMidnight
    <3> QED BY <1>1, <3>1, <3>2 DEF MakeReads
  <2>3. Makings' = Makings /\ PlaceAlbums' = PlaceAlbums
    BY <2>1 DEF Makings, PlaceAlbums
  <2>4. making'.ids = making'.asked \ AtMidnight(making)'
    BY <2>1, <2>2 DEF AtMidnight
  <2>5. PlaceAlbumsAreWhole'
    BY <2>1 DEF PlaceAlbumsAreWhole, AtMidnight
  <2> QED BY <2>1, <2>2, <2>3, <2>4, <2>5
<1>2. CASE MakeCreates
  <2> DEFINE empty == AlbumOf({}, FALSE)
  <2>1. /\ making.pc = "create" /\ making' = [making EXCEPT !.pc = "add"] /\ UNCHANGED <<snaps, inView, deleted>>
        /\ made' = made \cup {empty}
    BY <1>2 DEF MakeCreates
  <2>2. Makings' = Makings /\ PlaceAlbums' = PlaceAlbums
    BY <2>1 DEF Makings, PlaceAlbums
  <2>3. /\ making' \in Makings /\ making'.pc = "add"
        /\ making'.ids = making.ids /\ making'.asked = making.asked /\ making'.visit = making.visit
    BY <2>1 DEF Makings
  <2>4. making'.ids = making'.asked \ AtMidnight(making)'
    BY <2>1, <2>3 DEF AtMidnight
  <2>5. empty \in PlaceAlbums /\ ~empty.filled
    <3>1. making.visit \in BOOLEAN /\ making.asked \in SUBSET DOMAIN snaps
      BY DEF Makings
    <3>2. empty = [photos |-> {}, asked |-> making.asked, visit |-> making.visit, filled |-> FALSE]
      BY DEF AlbumOf
    <3>3. [photos |-> {}, asked |-> making.asked, visit |-> making.visit, filled |-> FALSE] \in PlaceAlbums
      BY ONLY <3>1 DEF PlaceAlbums
    <3>4. ~empty.filled
      BY DEF AlbumOf
    <3>5. empty \in PlaceAlbums
      BY <3>2, <3>3
    <3> QED BY <3>4, <3>5
  <2> HIDE DEF empty
  <2>6. PlaceAlbumsAreWhole'
    <3>1. ASSUME NEW n \in made' PROVE IF n.filled THEN n.photos = n.asked \ (AtMidnight(n)' \cup deleted') ELSE making'.pc = "add"
      <4>1. n.filled => n \in made
        BY <2>1, <2>5
      <4> QED BY <2>1, <2>3, <4>1 DEF PlaceAlbumsAreWhole, AtMidnight
    <3> QED BY <3>1 DEF PlaceAlbumsAreWhole
  <2> QED BY <2>1, <2>2, <2>3, <2>4, <2>5, <2>6
<1>3. CASE MakeAdds
  <2>1. /\ making' = NotMaking /\ UNCHANGED <<snaps, inView, deleted>>
        /\ made' = {m \in made : m.filled} \cup (IF making.ids \cap deleted = {} THEN {Filled} ELSE {})
    BY <1>3 DEF MakeAdds
  <2>2. Makings' = Makings /\ PlaceAlbums' = PlaceAlbums
    BY <2>1 DEF Makings, PlaceAlbums
  <2>3. \A n \in made' : n.filled /\ n \in PlaceAlbums /\ n.photos = n.asked \ (AtMidnight(n) \cup deleted)
    <3>1. ASSUME NEW n \in made' PROVE n.filled /\ n \in PlaceAlbums /\ n.photos = n.asked \ (AtMidnight(n) \cup deleted)
      <4>1. CASE n \in made /\ n.filled
        BY <4>1 DEF PlaceAlbumsAreWhole
      <4>2. CASE n = Filled /\ making.ids \cap deleted = {}
        BY <4>2, FilledFits
      <4> QED BY <2>1, <4>1, <4>2
    <3> QED BY <3>1
  <2>4. PlaceAlbumsAreWhole'
    BY <2>1, <2>3 DEF PlaceAlbumsAreWhole, AtMidnight
  <2>5. making'.ids = making'.asked \ AtMidnight(making)'
    <3>1. NotMaking.ids = {} /\ NotMaking.asked = {}
      BY DEF NotMaking
    <3> QED BY <2>1, <3>1
  <2> QED BY <2>1, <2>2, <2>3, <2>4, <2>5, NotMakingFits
<1>4. ASSUME NEW x \in DOMAIN snaps, RowDeleted(x) PROVE PlacesInv'
  <2>1. /\ inView' = inView \ {x} /\ deleted' = deleted \cup {x} /\ UNCHANGED <<snaps, making>>
        /\ made' = {[m EXCEPT !.photos = @ \ {x}] : m \in made}
    BY <1>4 DEF RowDeleted
  <2>2. Makings' = Makings /\ PlaceAlbums' = PlaceAlbums
    BY <2>1 DEF Makings, PlaceAlbums
  <2>3. ASSUME NEW m \in made
        PROVE  LET n == [m EXCEPT !.photos = @ \ {x}] IN
               /\ n \in PlaceAlbums
               /\ n.photos = m.photos \ {x} /\ n.asked = m.asked /\ n.filled = m.filled /\ n.visit = m.visit
    BY <2>3 DEF PlaceAlbums
  <2>4. ASSUME NEW n \in made'
        PROVE  /\ n \in PlaceAlbums
               /\ \E m \in made : n.photos = m.photos \ {x} /\ n.asked = m.asked /\ n.filled = m.filled /\ n.visit = m.visit
    <3>1. PICK m \in made : n = [m EXCEPT !.photos = @ \ {x}]
      BY ONLY <2>1, <2>4
    <3> QED BY ONLY <2>3, <3>1
  <2>5. ASSUME NEW n \in made'
        PROVE  IF n.filled THEN n.photos = n.asked \ (AtMidnight(n) \cup deleted') ELSE making'.pc = "add"
    <3>1. PICK m \in made : n.photos = m.photos \ {x} /\ n.asked = m.asked /\ n.filled = m.filled /\ n.visit = m.visit
      BY <2>4
    <3>2. AtMidnight(n) = AtMidnight(m)
      BY <3>1, MidnightStays
    <3>3. IF m.filled THEN m.photos = m.asked \ (AtMidnight(m) \cup deleted) ELSE making.pc = "add"
      BY DEF PlaceAlbumsAreWhole
    <3> QED BY <2>1, <3>1, <3>2, <3>3
  <2>6. PlaceAlbumsAreWhole'
    BY <2>1, <2>5 DEF PlaceAlbumsAreWhole, AtMidnight
  <2>7. making'.ids = making'.asked \ AtMidnight(making)'
    BY <2>1 DEF AtMidnight
  <2> QED BY <2>1, <2>2, <2>4, <2>6, <2>7
<1>5. ASSUME UNCHANGED <<snaps, deleted, making, made>>, inView' \subseteq DOMAIN snaps PROVE PlacesInv'
  BY <1>5 DEF Makings, PlaceAlbums, PlaceAlbumsAreWhole, AtMidnight
<1>6. ASSUME NEW x \in DOMAIN snaps, Appears(x) \/ Disappears(x) PROVE PlacesInv'
  BY <1>5, <1>6 DEF Appears, Disappears
<1>7. CASE UNCHANGED <<snaps, inView, deleted, making, made>>
  BY <1>5, <1>7
<1> QED BY <1>1, <1>2, <1>3, <1>4, <1>6, <1>7 DEF PaNext, paVars, ResetCover, SetCover, SetSpotName, ResetSpotName

LEMMA PlacesTypesStep == ASSUME PlacesInv, PaTypeOK, [PaNext]_paVars PROVE PaTypeOK'
<1> USE DEF PaTypeOK
<1>1. ASSUME NEW x \in DOMAIN snaps, RowDeleted(x) PROVE PaTypeOK'
  <2>1. /\ inView' = inView \ {x} /\ deleted' = deleted \cup {x} /\ UNCHANGED <<snaps, covers, making>>
        /\ made' = {[m EXCEPT !.photos = @ \ {x}] : m \in made}
    BY <1>1 DEF RowDeleted
  <2>2. \A m \in made : [m EXCEPT !.photos = @ \ {x}].photos = m.photos \ {x}
    BY DEF PlacesInv, PlacesTyped, PlaceAlbums
  <2>3. \A n \in made' : \E m \in made : n.photos = m.photos \ {x}
    BY <2>1, <2>2
  <2> QED BY <2>1, <2>3
<1>2. CASE MakeAdds
  <2>1. /\ making' = NotMaking /\ UNCHANGED <<snaps, inView, deleted, covers>>
        /\ made' = {m \in made : m.filled} \cup (IF making.ids \cap deleted = {} THEN {Filled} ELSE {})
    BY <1>2 DEF MakeAdds
  <2>2. Filled.photos = making.ids /\ NotMaking.pc = "idle"
    BY DEF Filled, AlbumOf, NotMaking
  <2>3. \A n \in made' : n \in made \/ (n = Filled /\ making.ids \cap deleted = {})
    BY <2>1
  <2> HIDE DEF Filled, NotMaking
  <2> QED BY <2>1, <2>2, <2>3
<1>3. CASE MakeCreates
  <2> DEFINE empty == AlbumOf({}, FALSE)
  <2>1. making'.pc = "add" /\ UNCHANGED <<snaps, inView, deleted, covers>> /\ made' = made \cup {empty}
    BY <1>3 DEF MakeCreates, PlacesInv, PlacesTyped, Makings
  <2>2. empty.photos = {}
    BY DEF AlbumOf
  <2> HIDE DEF empty
  <2> QED BY <2>1, <2>2
<1>4. ASSUME NEW c \in Towns, ResetCover(c) \/ MakeReads(c) \/ \E x \in DOMAIN snaps : SetCover(c, x) PROVE PaTypeOK'
  <2>1. CASE ResetCover(c)
    BY <2>1 DEF ResetCover
  <2>2. CASE MakeReads(c)
    <3>1. making'.pc = "create" /\ UNCHANGED <<snaps, inView, deleted, covers, made>>
      BY <2>2 DEF MakeReads
    <3> QED BY <3>1
  <2>3. CASE \E x \in DOMAIN snaps : SetCover(c, x)
    BY <2>3 DEF SetCover
  <2> QED BY <1>4, <2>1, <2>2, <2>3
<1>5. ASSUME NEW x \in DOMAIN snaps, Appears(x) \/ Disappears(x) PROVE PaTypeOK'
  BY <1>5 DEF Appears, Disappears
<1>6. CASE UNCHANGED <<snaps, inView, deleted, covers, making, made>>
  BY <1>6
<1> QED BY <1>1, <1>2, <1>3, <1>4, <1>5, <1>6 DEF PaNext, paVars, SetSpotName, ResetSpotName

-----------------------------------------------------------------------------
(* The trips that the places page tells.                                       *)

LEMMA DatedFit ==
    ASSUME PlacesTyped
    PROVE  \A c \in Towns : /\ Dated(c) \subseteq DOMAIN snaps /\ IsFiniteSet(Dated(c))
                            /\ \A x \in Dated(c) : snaps[x].taken \in Nat /\ x \in Nat /\ snaps[x].town = c
<1>1. IsFiniteSet(DOMAIN snaps) /\ DOMAIN snaps \subseteq Nat /\ \A y \in DOMAIN snaps : snaps[y].taken \in Nat
  BY AtlasesFit, FS_EmptySet DEF PlacesTyped
<1>2. \A c \in Towns : Dated(c) \subseteq DOMAIN snaps /\ \A x \in Dated(c) : snaps[x].town = c
  BY DEF Dated, In, PlacesTyped
<1>3. \A c \in Towns : IsFiniteSet(Dated(c))
  BY <1>1, <1>2, FS_Subset
<1> QED BY <1>1, <1>2, <1>3

\* A trip of a set of photos is known by the time it begins at.
LEMMA TripOf ==
    ASSUME NEW S, NEW trip \in splitTrips(S)
    PROVE  \E s \in S : /\ StartsTrip(S, s) /\ trip \subseteq S
                        /\ \A y \in S : y \in trip <=> /\ snaps[y].taken >= snaps[s].taken
                                                       /\ \A z \in S : StartsTrip(S, z) /\ snaps[z].taken > snaps[s].taken
                                                                         => snaps[y].taken < snaps[z].taken
<1>1. PICK s \in S : StartsTrip(S, s) /\ trip = TripFrom(S, s)
  BY DEF splitTrips
<1> QED BY <1>1 DEF TripFrom

\* The trips of a town divide its dated photos, where a gap is too long.
LEMMA TripsDivide ==
    ASSUME PlacesTyped, NEW c \in Towns
    PROVE  /\ \A x \in Dated(c) : \E trip \in splitTrips(Dated(c)) : x \in trip
           /\ \A trip, other \in splitTrips(Dated(c)) : trip \cap other # {} => trip = other
           /\ \A trip \in splitTrips(Dated(c)) :
                /\ trip \subseteq Dated(c) /\ trip # {}
                /\ \A x \in trip, y \in Dated(c) : snaps[x].taken = snaps[y].taken => y \in trip
           /\ \A x, y \in Dated(c) : snaps[x].taken <= snaps[y].taken =>
                (OneTrip(c, x, y) <=> \E trip \in splitTrips(Dated(c)) : {x, y} \subseteq trip)
<1> DEFINE S == Dated(c)
           T == [x \in S |-> snaps[x].taken]
           starts == {x \in S : StartsTrip(S, x)}
           gap == Day * TripGap
           First(trip, s) == \A y \in S : y \in trip <=> T[y] >= T[s] /\ \A z \in starts : T[z] > T[s] => T[y] < T[z]
<1>1. IsFiniteSet(S) /\ gap \in Nat /\ \A x \in S : T[x] = snaps[x].taken /\ T[x] \in Nat /\ T[x] \in Int
  BY DatedFit, PlaceSizes
<1>2. starts \subseteq S /\ \A x \in S : x \in starts <=> \A y \in S : T[y] < T[x] => T[x] - T[y] > gap
  BY <1>1 DEF StartsTrip, Taken
<1>3. \A trip \in splitTrips(S) : trip \subseteq S /\ \E s \in starts : First(trip, s)
  <2>1. SUFFICES ASSUME NEW trip \in splitTrips(S) PROVE trip \subseteq S /\ \E s \in starts : First(trip, s)
    OBVIOUS
  <2>2. PICK s \in S : /\ StartsTrip(S, s) /\ trip \subseteq S
                       /\ \A y \in S : y \in trip <=> /\ snaps[y].taken >= snaps[s].taken
                                                      /\ \A z \in S : StartsTrip(S, z) /\ snaps[z].taken > snaps[s].taken
                                                                        => snaps[y].taken < snaps[z].taken
    BY TripOf
  <2>3. First(trip, s)
    BY <1>1, <2>2
  <2> QED BY <2>2, <2>3
<1>4. \A s \in starts : TripFrom(S, s) \in splitTrips(S) /\ First(TripFrom(S, s), s)
  BY <1>1 DEF splitTrips, TripFrom
<1>5. \A x, y \in S : OneTrip(c, x, y) <=> \A u \in S : T[u] >= T[x] /\ T[u] < T[y] => \E v \in S : T[v] - T[u] \in 1..gap
  BY <1>1 DEF OneTrip
<1> HIDE DEF S, T, starts, gap
<1>6. ASSUME NEW x \in S PROVE \E s \in starts : T[s] <= T[x] /\ \A z \in starts : T[z] > T[s] => T[x] < T[z]
  <2>1. PICK m \in S : \A y \in S : T[m] <= T[y]
    BY <1>1, SmallestOf
  <2>2. m \in starts /\ T[m] <= T[x]
    <3>1. \A y \in S : ~(T[y] < T[m])
      BY <1>1, <2>1
    <3> QED BY <1>2, <2>1, <3>1
  <2> DEFINE past == {z \in starts : T[z] <= T[x]}
  <2>3. past # {} /\ IsFiniteSet(past) /\ \A z \in past : T[z] \in Int
    <3>1. m \in past /\ past \subseteq S
      BY <1>2, <2>2
    <3>2. IsFiniteSet(past)
      BY <1>1, <3>1, FS_Subset
    <3> QED BY <1>1, <3>1, <3>2
  <2>4. PICK s \in past : \A z \in past : T[z] <= T[s]
    <3> HIDE DEF past
    <3> QED BY <2>3, GreatestOf
  <2>5. ASSUME NEW z \in starts, T[z] > T[s] PROVE T[x] < T[z]
    <3>1. z \in S /\ s \in S /\ T[z] \in Nat /\ T[s] \in Nat /\ T[x] \in Nat
      BY <1>1, <1>2, <2>4
    <3>2. z \notin past
      BY <2>4, <2>5, <3>1
    <3> QED BY <2>5, <3>1, <3>2
  <2> QED BY <2>4, <2>5
<1>7. ASSUME NEW x \in S PROVE \E trip \in splitTrips(S) : x \in trip
  <2>1. PICK s \in starts : T[s] <= T[x] /\ \A z \in starts : T[z] > T[s] => T[x] < T[z]
    BY <1>6
  <2>2. T[x] >= T[s]
    BY <1>1, <1>2, <2>1
  <2> QED BY <1>4, <2>1, <2>2
<1>8. ASSUME NEW trip \in splitTrips(S), NEW other \in splitTrips(S), NEW x \in trip, x \in other PROVE trip = other
  <2>1. PICK s \in starts : First(trip, s)
    BY <1>3
  <2>2. PICK r \in starts : First(other, r)
    BY <1>3
  <2>3. x \in S /\ T[x] \in Nat /\ T[s] \in Nat /\ T[r] \in Nat
    BY <1>1, <1>2, <1>3
  <2>4. T[x] >= T[s] /\ T[x] >= T[r] /\ (T[r] > T[s] => T[x] < T[r]) /\ (T[s] > T[r] => T[x] < T[s])
    BY <1>8, <2>1, <2>2, <2>3
  <2>5. T[s] = T[r]
    BY <2>3, <2>4
  <2>6. \A y \in S : y \in trip <=> y \in other
    BY <2>1, <2>2, <2>5
  <2> QED BY <1>3, <2>6
<1>9. ASSUME NEW trip \in splitTrips(S)
      PROVE  trip \subseteq S /\ trip # {} /\ \A x \in trip, y \in S : T[x] = T[y] => y \in trip
  <2>1. PICK s \in starts : First(trip, s)
    BY <1>3
  <2>2. s \in trip
    BY <1>1, <1>2, <2>1
  <2> QED BY <1>3, <2>1, <2>2
<1>10. ASSUME NEW trip \in splitTrips(S), NEW x \in trip, NEW y \in trip, NEW u \in S, T[u] >= T[x], T[u] < T[y]
       PROVE  \E v \in S : T[v] - T[u] \in 1..gap
  <2>1. PICK s \in starts : First(trip, s)
    BY <1>3
  <2>2. x \in S /\ y \in S /\ T[x] \in Nat /\ T[y] \in Nat /\ T[u] \in Nat /\ T[s] \in Nat /\ T[x] >= T[s]
    BY <1>1, <1>2, <1>3, <2>1
  <2> DEFINE later == {v \in S : T[v] > T[u]}
  <2>3. later # {} /\ IsFiniteSet(later) /\ \A v \in later : T[v] \in Int
    <3>1. y \in later /\ later \subseteq S
      BY <1>10, <2>2
    <3>2. IsFiniteSet(later)
      BY <1>1, <3>1, FS_Subset
    <3> QED BY <1>1, <3>1, <3>2
  <2>4. PICK v \in later : \A w \in later : T[v] <= T[w]
    <3> HIDE DEF later
    <3> QED BY <2>3, SmallestOf
  <2>5. v \in S /\ T[v] \in Nat /\ T[v] > T[u] /\ T[v] <= T[y]
    BY <1>1, <1>10, <2>2, <2>4
  <2>6. v \notin starts
    <3>1. SUFFICES ASSUME v \in starts PROVE FALSE
      OBVIOUS
    <3>2. T[v] > T[s]
      BY <1>10, <2>2, <2>5
    <3>3. T[y] < T[v]
      BY <2>1, <2>2, <3>1, <3>2
    <3> QED BY <2>2, <2>5, <3>3
  <2>7. PICK w \in S : T[w] < T[v] /\ ~(T[v] - T[w] > gap)
    BY <1>2, <2>5, <2>6
  <2>8. T[w] \in Nat /\ ~(T[w] > T[u])
    BY <1>1, <2>4, <2>5, <2>7
  <2>9. T[v] - T[u] \in 1..gap
    BY <1>1, <2>2, <2>5, <2>7, <2>8
  <2> QED BY <2>5, <2>9
<1>11. ASSUME NEW x \in S, NEW y \in S, T[x] <= T[y],
              \A u \in S : T[u] >= T[x] /\ T[u] < T[y] => \E v \in S : T[v] - T[u] \in 1..gap
       PROVE  \E trip \in splitTrips(S) : {x, y} \subseteq trip
  <2>1. PICK s \in starts : T[s] <= T[x] /\ \A z \in starts : T[z] > T[s] => T[x] < T[z]
    BY <1>6
  <2>2. s \in S /\ T[x] \in Nat /\ T[y] \in Nat /\ T[s] \in Nat
    BY <1>1, <1>2
  <2>3. ASSUME NEW z \in starts, T[z] > T[s] PROVE T[y] < T[z]
    <3>1. z \in S /\ T[z] \in Nat /\ T[x] < T[z]
      BY <1>1, <1>2, <2>1, <2>3
    <3>2. SUFFICES ASSUME T[z] <= T[y] PROVE FALSE
      BY <2>2, <3>1
    <3> DEFINE sooner == {u \in S : T[u] < T[z]}
    <3>3. sooner # {} /\ IsFiniteSet(sooner) /\ \A u \in sooner : T[u] \in Int
      <4>1. x \in sooner /\ sooner \subseteq S
        BY <3>1
      <4>2. IsFiniteSet(sooner)
        BY <1>1, <4>1, FS_Subset
      <4> QED BY <1>1, <4>1, <4>2
    <3>4. PICK u \in sooner : \A w \in sooner : T[w] <= T[u]
      <4> HIDE DEF sooner
      <4> QED BY <3>3, GreatestOf
    <3>5. u \in S /\ T[u] \in Nat /\ T[u] < T[z] /\ T[u] >= T[x] /\ T[u] < T[y]
      BY <1>1, <2>2, <3>1, <3>2, <3>4
    <3>6. PICK v \in S : T[v] - T[u] \in 1..gap
      BY <1>11, <3>5
    <3>7. T[v] \in Nat /\ T[v] > T[u] /\ T[v] - T[u] <= gap
      BY <1>1, <3>5, <3>6
    <3>8. ~(T[v] < T[z])
      BY <3>4, <3>5, <3>7
    <3>9. T[z] - T[u] > gap
      BY <1>2, <3>1, <3>5
    <3> QED BY <1>1, <3>1, <3>5, <3>7, <3>8, <3>9
  <2>4. T[x] >= T[s] /\ T[y] >= T[s]
    BY <1>11, <2>1, <2>2
  <2>5. x \in TripFrom(S, s) /\ y \in TripFrom(S, s)
    BY <1>4, <2>1, <2>3, <2>4
  <2> QED BY <1>4, <2>1, <2>5
<1>12. \A x, y \in S : T[x] <= T[y] => (OneTrip(c, x, y) <=> \E trip \in splitTrips(S) : {x, y} \subseteq trip)
  BY <1>5, <1>10, <1>11
<1> QED BY <1>1, <1>7, <1>8, <1>9, <1>12 DEF S

VisitOf(c, trip) ==
    [from |-> Min(Taken(trip)) \div Day, to |-> Max(Taken(trip)) \div Day, shots |-> trip,
     current |-> c \in currentTripCity /\ Latest(c, trip)]

LEMMA VisitsAreTrips ==
    /\ \A c, trip : VisitOf(c, trip).shots = trip /\ VisitOf(c, trip).current = (c \in currentTripCity /\ Latest(c, trip))
    /\ \A c : Visits(c) = {VisitOf(c, trip) : trip \in splitTrips(Dated(c))}
BY DEF VisitOf, Visits

LEMMA LatestIs ==
    ASSUME PlacesTyped, NEW c \in Towns, NEW trip \in splitTrips(Dated(c))
    PROVE  Latest(c, trip) <=> \E m \in trip : \A y \in Dated(c) : snaps[y].taken <= snaps[m].taken
<1> DEFINE S == Dated(c)
           T == [x \in S |-> snaps[x].taken]
           times == Taken(trip)
<1>1. /\ IsFiniteSet(S) /\ \A x \in S : T[x] = snaps[x].taken /\ T[x] \in Nat /\ T[x] \in Int
      /\ trip \subseteq S /\ trip # {}
  BY DatedFit, TripsDivide
<1>2. times = {T[x] : x \in trip} /\ (Latest(c, trip) <=> \A y \in S : T[y] <= Max(times))
  BY <1>1 DEF Taken, Latest
<1> HIDE DEF S, T, times
<1>3. PICK m \in trip : \A x \in trip : T[x] <= T[m]
  <2>1. IsFiniteSet(trip) /\ \A x \in trip : T[x] \in Int
    BY <1>1, FS_Subset
  <2> QED BY <1>1, <2>1, GreatestOf
<1>4. Max(times) = T[m]
  <2>1. T[m] \in times /\ \A t \in times : t \in Nat /\ t <= T[m]
    BY <1>1, <1>2, <1>3
  <2>2. \A t \in times : (\A u \in times : t >= u) => t = T[m]
    BY <1>1, <1>3, <2>1
  <2> QED BY <2>1, <2>2 DEF Max
<1>5. (\E k \in trip : \A y \in S : T[y] <= T[k]) <=> \A y \in S : T[y] <= T[m]
  <2>1. ASSUME NEW k \in trip, NEW y \in S, T[y] <= T[k] PROVE T[y] <= T[m]
    BY <1>1, <1>3, <2>1
  <2> QED BY <2>1
<1> QED BY <1>1, <1>2, <1>4, <1>5 DEF S

\* The place of the latest photo of all is the only current one.
LEMMA CurrentIs ==
    ASSUME PlacesTyped
    PROVE  LET dated == UNION {Dated(c) : c \in Towns} IN
           \/ dated = {} /\ currentTripCity = {}
           \/ \E n \in dated : /\ snaps[n].town \in Towns /\ n \in Dated(snaps[n].town) /\ currentTripCity = {snaps[n].town}
                               /\ \A y \in dated : snaps[y].taken <= snaps[n].taken
<1> DEFINE dated == UNION {Dated(c) : c \in Towns}
           T == [x \in dated |-> snaps[x].taken]
           NoNewer(x) == \A y \in dated : snaps[y].taken < snaps[x].taken \/ (snaps[y].taken = snaps[x].taken /\ x <= y)
<1>1. currentTripCity = {snaps[x].town : x \in {y \in dated : NoNewer(y)}}
  BY DEF currentTripCity
<1>2. dated \subseteq DOMAIN snaps /\ \A x \in dated : T[x] = snaps[x].taken /\ T[x] \in Nat /\ T[x] \in Int /\ x \in Nat
  BY DatedFit
<1>3. IsFiniteSet(dated)
  <2>1. IsFiniteSet(DOMAIN snaps)
    BY AtlasesFit, FS_EmptySet DEF PlacesTyped
  <2> QED BY <1>2, <2>1, FS_Subset
<1>4. \A x \in dated : snaps[x].town \in Towns /\ x \in Dated(snaps[x].town)
  BY DatedFit
<1>5. \A x \in dated : NoNewer(x) <=> \A y \in dated : T[y] < T[x] \/ (T[y] = T[x] /\ x <= y)
  BY <1>2
<1> HIDE DEF dated, T, NoNewer
<1>6. CASE dated = {}
  BY <1>1, <1>6 DEF dated
<1>7. CASE dated # {}
  <2>1. PICK m \in dated : \A y \in dated : T[y] <= T[m]
    BY <1>2, <1>3, <1>7, GreatestOf
  <2> DEFINE top == {y \in dated : T[y] = T[m]}
  <2>2. top \in SUBSET Nat /\ top # {}
    BY <1>2, <2>1
  <2>3. PICK n \in top : \A y \in top : n <= y
    <3> HIDE DEF top
    <3> QED BY <2>2, Least
  <2>4. n \in dated /\ NoNewer(n) /\ \A y \in dated : T[y] <= T[n]
    BY <1>2, <1>5, <2>1, <2>3
  <2>5. \A x \in dated : NoNewer(x) => x = n
    <3>1. SUFFICES ASSUME NEW x \in dated, NoNewer(x) PROVE x = n
      OBVIOUS
    <3>2. T[x] \in Nat /\ T[n] \in Nat /\ x \in Nat /\ n \in Nat
      BY <1>2, <2>4
    <3>3. T[x] < T[n] \/ (T[x] = T[n] /\ n <= x)
      BY <1>5, <2>4, <3>1
    <3>4. T[n] < T[x] \/ (T[n] = T[x] /\ x <= n)
      BY <1>5, <2>4, <3>1
    <3> QED BY <3>2, <3>3, <3>4
  <2>6. currentTripCity = {snaps[n].town}
    BY <1>1, <2>4, <2>5
  <2>7. \A y \in dated : snaps[y].taken <= snaps[n].taken
    BY <1>2, <2>4
  <2> QED BY <1>4, <2>4, <2>6, <2>7 DEF dated
<1> QED BY <1>6, <1>7

LEMMA AsManyVisits ==
    ASSUME PlacesTyped, NEW c \in Towns PROVE Cardinality(Visits(c)) = Cardinality(splitTrips(Dated(c)))
<1> DEFINE trips == splitTrips(Dated(c))
           f == [trip \in trips |-> VisitOf(c, trip)]
<1>1. IsFiniteSet(trips)
  <2>1. trips \subseteq SUBSET Dated(c)
    BY TripsDivide
  <2>2. IsFiniteSet(SUBSET Dated(c))
    BY DatedFit, FS_SUBSET
  <2> QED BY <2>1, <2>2, FS_Subset
<1>2. f \in Bijection(trips, Visits(c))
  <2>1. f \in [trips -> Visits(c)]
    BY VisitsAreTrips
  <2>2. \A x, y \in trips : f[x] = f[y] => x = y
    BY VisitsAreTrips
  <2>3. \A v \in Visits(c) : \E x \in trips : f[x] = v
    BY VisitsAreTrips
  <2> HIDE DEF f, trips
  <2> QED BY <2>1, <2>2, <2>3 DEF Bijection, Injection, Surjection, IsInjective
<1> HIDE DEF f, trips
<1>3. Cardinality(Visits(c)) = Cardinality(trips)
  BY <1>1, <1>2, FS_Bijection DEF ExistsBijection
<1> QED BY <1>3 DEF trips

LEMMA PlacesFit == ASSUME PlacesTyped PROVE PlacesAgree
<1> DEFINE dated  == UNION {Dated(c) : c \in Towns}
           visits == UNION {{c} \X Visits(c) : c \in Towns}
           now    == {v \in visits : v[2].current}
<1>1. \A c \in Towns : \A x \in Dated(c) : x \in dated /\ snaps[x].town = c
  BY DatedFit
<1>2. \A v \in visits : \E c \in Towns : \E trip \in splitTrips(Dated(c)) : v = <<c, VisitOf(c, trip)>>
  BY VisitsAreTrips
<1>3. \A c \in Towns : \A trip \in splitTrips(Dated(c)) : <<c, VisitOf(c, trip)>> \in visits
  BY VisitsAreTrips
<1>4. \A v \in visits : /\ v[1] \in Towns /\ v[2].shots \in splitTrips(Dated(v[1])) /\ v = <<v[1], VisitOf(v[1], v[2].shots)>>
                        /\ v[2].current <=> v[1] \in currentTripCity /\ Latest(v[1], v[2].shots)
  <2>1. SUFFICES ASSUME NEW v \in visits
                 PROVE  /\ v[1] \in Towns /\ v[2].shots \in splitTrips(Dated(v[1])) /\ v = <<v[1], VisitOf(v[1], v[2].shots)>>
                        /\ v[2].current <=> v[1] \in currentTripCity /\ Latest(v[1], v[2].shots)
    OBVIOUS
  <2>2. PICK c \in Towns : \E trip \in splitTrips(Dated(c)) : v = <<c, VisitOf(c, trip)>>
    BY <1>2
  <2>3. PICK trip \in splitTrips(Dated(c)) : v = <<c, VisitOf(c, trip)>>
    BY <2>2
  <2>4. v[1] = c /\ v[2] = VisitOf(c, trip)
    BY ONLY <2>3
  <2>5. VisitOf(c, trip).shots = trip /\ VisitOf(c, trip).current = (c \in currentTripCity /\ Latest(c, trip))
    BY VisitsAreTrips
  <2> QED BY ONLY <2>2, <2>3, <2>4, <2>5
<1> HIDE DEF dated, visits
<1>5. \A c \in Towns : \A x, y \in Dated(c) : snaps[x].taken <= snaps[y].taken =>
        (OneTrip(c, x, y) <=> \E v \in visits : {x, y} \subseteq v[2].shots)
  <2>1. SUFFICES ASSUME NEW c \in Towns, NEW x \in Dated(c), NEW y \in Dated(c)
                 PROVE  (\E trip \in splitTrips(Dated(c)) : {x, y} \subseteq trip) <=> \E v \in visits : {x, y} \subseteq v[2].shots
    BY TripsDivide
  <2>2. ASSUME NEW trip \in splitTrips(Dated(c)), {x, y} \subseteq trip PROVE \E v \in visits : {x, y} \subseteq v[2].shots
    <3>1. <<c, VisitOf(c, trip)>> \in visits /\ <<c, VisitOf(c, trip)>>[2] = VisitOf(c, trip)
      BY <1>3
    <3> QED BY <2>2, <3>1, VisitsAreTrips
  <2>3. ASSUME NEW v \in visits, {x, y} \subseteq v[2].shots PROVE \E trip \in splitTrips(Dated(c)) : {x, y} \subseteq trip
    <3>1. v[2].shots \in splitTrips(Dated(v[1])) /\ v[1] \in Towns
      BY <1>4
    <3>2. x \in Dated(v[1])
      BY <2>3, <3>1, TripsDivide
    <3>3. v[1] = c
      BY <1>1, <3>1, <3>2
    <3> QED BY <2>3, <3>1, <3>3
  <2> QED BY <2>2, <2>3
<1>6. ASSUME NEW v \in visits, NEW w \in visits, v # w PROVE v[2].shots \cap w[2].shots = {}
  <2>1. SUFFICES ASSUME NEW x \in v[2].shots, x \in w[2].shots PROVE FALSE
    OBVIOUS
  <2>2. x \in Dated(v[1]) /\ x \in Dated(w[1])
    BY <1>4, <2>1, TripsDivide
  <2>3. v[1] = w[1]
    BY <1>1, <1>4, <2>2
  <2>4. v[2].shots = w[2].shots
    BY <1>4, <2>1, <2>3, TripsDivide
  <2> QED BY <1>4, <1>6, <2>3, <2>4
<1>7. CASE dated = {}
  <2>1. currentTripCity = {}
    BY <1>7, CurrentIs DEF dated
  <2>2. now = {}
    BY <1>4, <2>1
  <2>3. Cardinality(now) = 0
    BY <2>2, FS_EmptySet
  <2>4. {c \in DOMAIN ListPlaces : ListPlaces[c].recent} = {v[1] : v \in now}
    BY <2>1, <2>2 DEF ListPlaces
  <2>5. \A c \in DOMAIN ListPlaces : ListPlaces[c].trips = Max({1, Cardinality(Visits(c))})
    BY AsManyVisits DEF ListPlaces, tripCount
  <2> QED BY <1>5, <1>6, <1>7, <2>2, <2>3, <2>4, <2>5 DEF PlacesAgree, dated, visits
<1>8. CASE dated # {}
  <2>1. PICK n \in dated : /\ snaps[n].town \in Towns /\ n \in Dated(snaps[n].town) /\ currentTripCity = {snaps[n].town}
                           /\ \A y \in dated : snaps[y].taken <= snaps[n].taken
    BY <1>8, CurrentIs DEF dated
  <2> DEFINE c == snaps[n].town
  <2>2. PICK trip \in splitTrips(Dated(c)) : n \in trip
    BY <2>1, TripsDivide
  <2> DEFINE v0 == <<c, VisitOf(c, trip)>>
  <2>3. v0 \in visits /\ v0[1] = c /\ v0[2].shots = trip
    BY <1>3, <2>1, <2>2, VisitsAreTrips
  <2>4. Latest(c, trip)
    BY <1>1, <2>1, <2>2, LatestIs
  <2>5. v0 \in now
    BY <1>4, <2>1, <2>3, <2>4
  <2>6. ASSUME NEW v \in now PROVE v = v0
    <3>1. v \in visits /\ v[1] = c /\ Latest(c, v[2].shots) /\ v[2].shots \in splitTrips(Dated(c))
      BY <1>4, <2>1, <2>6
    <3>2. PICK m \in v[2].shots : \A y \in Dated(c) : snaps[y].taken <= snaps[m].taken
      BY <2>1, <3>1, LatestIs
    <3>3. m \in Dated(c) /\ snaps[m].taken \in Nat /\ snaps[n].taken \in Nat
      BY <2>1, <3>1, DatedFit, TripsDivide
    <3>4. snaps[m].taken = snaps[n].taken
      BY <1>1, <2>1, <3>2, <3>3
    <3>5. n \in v[2].shots
      BY <2>1, <3>1, <3>4, TripsDivide
    <3>6. v[2].shots = trip
      BY <2>1, <2>2, <3>1, <3>5, TripsDivide
    <3> QED BY <1>4, <3>1, <3>6
  <2>7. now = {v0}
    BY <2>5, <2>6
  <2>8. Cardinality(now) = 1
    BY <2>7, FS_Singleton
  <2>9. \A v \in now : \E x \in v[2].shots : \A y \in dated : snaps[y].taken <= snaps[x].taken
    BY <2>1, <2>2, <2>3, <2>7
  <2>10. {k \in DOMAIN ListPlaces : ListPlaces[k].recent} = {v[1] : v \in now}
    <3>1. c \in {k \in Towns : In(k) # {}}
      BY <2>1 DEF Dated
    <3>2. {v[1] : v \in now} = {c}
      BY <2>3, <2>7
    <3>3. DOMAIN ListPlaces = {k \in Towns : In(k) # {}} /\ \A k \in DOMAIN ListPlaces : ListPlaces[k].recent <=> k \in currentTripCity
      BY DEF ListPlaces
    <3> QED BY <2>1, <3>1, <3>2, <3>3
  <2>11. \A k \in DOMAIN ListPlaces : ListPlaces[k].trips = Max({1, Cardinality(Visits(k))})
    BY AsManyVisits DEF ListPlaces, tripCount
  <2> HIDE DEF now
  <2> QED BY <1>5, <1>6, <1>8, <2>8, <2>9, <2>10, <2>11 DEF PlacesAgree, dated, visits, now
<1> QED BY <1>7, <1>8

-----------------------------------------------------------------------------
(* The photos that the moments start from.                                     *)

LEMMA PoolFits ==
    ASSUME lib \in Libraries
    PROVE  Candidates \subseteq Pool /\ Pool \subseteq AllShots /\ IsFiniteSet(Pool) /\ MinAssets \in Nat \ {0}
<1>1. Candidates \subseteq Pool /\ Pool \subseteq AllShots
  BY DEF Candidates, Pool
<1>2. LibrarySize \in Nat /\ MinAssets \in Nat \ {0}
  BY CurationSizes
<1>3. IsFiniteSet(AllShots)
  BY <1>2, FS_Interval DEF AllShots
<1> QED BY <1>1, <1>2, <1>3, FS_Subset

\* A moment has a photo, and all its photos may be shown.
LEMMA DraftsFit ==
    ASSUME lib \in Libraries, NEW d, d \in BuildTripMoments \/ d \in BuildFamilyMoments
    PROVE  d.members # {} /\ d.members \subseteq Pool
<1>1. d.members \subseteq Pool /\ Cardinality(d.members) >= MinAssets
  <2>1. CASE d \in BuildTripMoments
    <3>1. PICK trip : /\ trip \subseteq Candidates /\ Cardinality(trip) >= MinAssets
                      /\ d = [id |-> TripMomentID(Min({lib.taken[x] : x \in trip})), members |-> trip, place |-> dominantPlace(trip)]
      BY <2>1 DEF BuildTripMoments, SegItems
    <3>2. d.members = trip
      BY ONLY <3>1
    <3> QED BY <3>1, <3>2, PoolFits
  <2>2. CASE d \in BuildFamilyMoments
    <3>1. /\ Cardinality(d.members) >= MinAssets
          /\ \/ d = [id |-> <<"family", 0>>, members |-> Together, place |-> <<>>]
             \/ \E p \in MinePersonEntities : d = [id |-> <<"person", p>>, members |-> PhotosOf(p) \cap Pool, place |-> <<>>]
      BY <2>2 DEF BuildFamilyMoments
    <3>2. d.members = Together \/ \E p \in MinePersonEntities : d.members = PhotosOf(p) \cap Pool
      BY ONLY <3>1
    <3> QED BY ONLY <3>1, <3>2 DEF Together
  <2> QED BY <2>1, <2>2
<1>2. Cardinality({}) = 0
  BY FS_EmptySet
<1> QED BY <1>1, <1>2, PoolFits

-----------------------------------------------------------------------------
(* Strict orders of finite sets, by place.                                    *)

Before(B, Q, x) == {z \in B : <<z, x>> \in Q}

Ordered(B, Q) ==
    /\ IsFiniteSet(B)
    /\ \A x \in B : <<x, x>> \notin Q
    /\ \A x, y, z \in B : <<x, y>> \in Q /\ <<y, z>> \in Q => <<x, z>> \in Q
    /\ \A x, y \in B : x = y \/ <<x, y>> \in Q \/ <<y, x>> \in Q

\* As many come before an element as its place says, and no place is taken twice.
LEMMA PlacesInOrder ==
    ASSUME NEW B, NEW Q, Ordered(B, Q)
    PROVE  /\ Cardinality(B) \in Nat
           /\ \A x \in B : Cardinality(Before(B, Q, x)) \in 0..(Cardinality(B) - 1)
           /\ \A x, y \in B : Cardinality(Before(B, Q, x)) = Cardinality(Before(B, Q, y)) => x = y
           /\ \A x, y \in B : <<x, y>> \in Q => Cardinality(Before(B, Q, x)) < Cardinality(Before(B, Q, y))
<1> DEFINE n == Cardinality(B)
           f == [x \in B |-> Cardinality(Before(B, Q, x))]
<1>1. n \in Nat
  BY FS_CardinalityType DEF Ordered
<1>2. \A x \in B : IsFiniteSet(Before(B, Q, x)) /\ f[x] \in 0..(n - 1) /\ f[x] \in Nat
  <2>1. SUFFICES ASSUME NEW x \in B PROVE IsFiniteSet(Before(B, Q, x)) /\ f[x] \in 0..(n - 1) /\ f[x] \in Nat
    OBVIOUS
  <2>2. Before(B, Q, x) \in SUBSET B /\ x \notin Before(B, Q, x)
    BY DEF Before, Ordered
  <2>3. /\ IsFiniteSet(Before(B, Q, x)) /\ Cardinality(Before(B, Q, x)) <= n
        /\ Cardinality(Before(B, Q, x)) \in Nat /\ Cardinality(Before(B, Q, x)) # n
    BY <2>2, FS_Subset, FS_CardinalityType DEF Ordered
  <2> HIDE DEF n
  <2> QED BY <1>1, <2>3
<1>3. \A x, y \in B : <<x, y>> \in Q => f[x] < f[y]
  <2>1. SUFFICES ASSUME NEW x \in B, NEW y \in B, <<x, y>> \in Q PROVE f[x] < f[y]
    OBVIOUS
  <2>2. Before(B, Q, x) \in SUBSET Before(B, Q, y) /\ x \in Before(B, Q, y) /\ x \notin Before(B, Q, x)
    BY <2>1 DEF Before, Ordered
  <2>3. /\ IsFiniteSet(Before(B, Q, y)) /\ IsFiniteSet(Before(B, Q, x))
        /\ f[x] = Cardinality(Before(B, Q, x)) /\ f[y] = Cardinality(Before(B, Q, y))
    BY <1>2
  <2>4. f[x] \in Nat /\ f[y] \in Nat
    BY <2>3, FS_CardinalityType
  <2> HIDE DEF f
  <2>5. /\ Cardinality(Before(B, Q, x)) <= Cardinality(Before(B, Q, y))
        /\ Cardinality(Before(B, Q, x)) # Cardinality(Before(B, Q, y))
    BY <2>2, <2>3, FS_Subset
  <2> QED BY <2>3, <2>4, <2>5
<1>4. \A x, y \in B : f[x] = f[y] => x = y
  <2>1. SUFFICES ASSUME NEW x \in B, NEW y \in B, f[x] = f[y], x # y PROVE FALSE
    OBVIOUS
  <2> HIDE DEF f, n
  <2>2. f[x] \in Nat /\ f[y] \in Nat
    BY <1>2
  <2>3. <<x, y>> \in Q \/ <<y, x>> \in Q
    BY <2>1 DEF Ordered
  <2>4. f[x] < f[y] \/ f[y] < f[x]
    BY <1>3, <2>3
  <2> QED BY <2>1, <2>2, <2>4
<1>5. \A x \in B : f[x] = Cardinality(Before(B, Q, x))
  OBVIOUS
<1> HIDE DEF f
<1> QED BY <1>1, <1>2, <1>3, <1>4, <1>5

\* Every place is taken.
LEMMA RanksInOrder ==
    ASSUME NEW B, NEW Q, Ordered(B, Q)
    PROVE  \A i \in 0..(Cardinality(B) - 1) : \E x \in B : Cardinality(Before(B, Q, x)) = i
<1> DEFINE n == Cardinality(B)
           f == [x \in B |-> Cardinality(Before(B, Q, x))]
           T == 0..(n - 1)
<1>1. n \in Nat
  BY PlacesInOrder
<1>2. IsFiniteSet(T) /\ Cardinality(T) = n
  <2>1. 0 \in Int /\ n - 1 \in Int
    BY <1>1
  <2> HIDE DEF n
  <2> QED BY <1>1, <2>1, FS_Interval
<1>3. f \in [B -> T] /\ \A x, y \in B : f[x] = f[y] => x = y
  BY PlacesInOrder
<1>4. f \in Injection(B, T)
  <2> HIDE DEF f, T
  <2> QED BY <1>3, Fun_IsInj
<1>5. f \in Surjection(B, T)
  <2> HIDE DEF f, T
  <2>1. Cardinality(B) = Cardinality(T) /\ IsFiniteSet(B)
    BY <1>2 DEF Ordered
  <2> QED BY <1>2, <1>4, <2>1, FS_Injection
<1>6. \A i \in T : \E x \in B : f[x] = i
  <2> HIDE DEF f, T
  <2> QED BY <1>5 DEF Surjection
<1> QED BY <1>6

\* Some element comes before all others.
LEMMA FirstInOrder ==
    ASSUME NEW B, NEW Q, Ordered(B, Q), B # {}
    PROVE  \E x \in B : \A y \in B \ {x} : <<x, y>> \in Q
<1>1. Cardinality(B) \in Nat \ {0}
  BY PlacesInOrder, FS_EmptySet DEF Ordered
<1>2. 0 \in 0..(Cardinality(B) - 1)
  BY <1>1
<1>3. PICK x \in B : Cardinality(Before(B, Q, x)) = 0
  BY <1>2, RanksInOrder
<1>4. \A y \in B : Cardinality(Before(B, Q, y)) \in Nat
  BY <1>1, PlacesInOrder
<1>5. \A y \in B : <<y, x>> \notin Q
  BY <1>3, <1>4, PlacesInOrder
<1> QED BY <1>5 DEF Ordered

\* The first k places are k, unless there are fewer in all.
LEMMA FirstPlaces ==
    ASSUME NEW B, NEW Q, Ordered(B, Q), NEW k \in Nat, NEW y \in B, Cardinality(Before(B, Q, y)) >= k
    PROVE  Cardinality({x \in B : Cardinality(Before(B, Q, x)) < k}) = k
<1> DEFINE n == Cardinality(B)
           f == [x \in B |-> Cardinality(Before(B, Q, x))]
           T == {x \in B : f[x] < k}
           g == [x \in T |-> f[x]]
           K == 0..(k - 1)
<1>1. n \in Nat /\ \A x \in B : f[x] \in 0..(n - 1) /\ f[x] \in Nat
  BY PlacesInOrder
<1>2. \A x, z \in B : f[x] = f[z] => x = z
  BY PlacesInOrder
<1>3. \A i \in 0..(n - 1) : \E x \in B : f[x] = i
  BY RanksInOrder
<1>4. k \in Nat /\ k <= n - 1
  <2>1. f[y] >= k /\ f[y] \in 0..(n - 1)
    BY <1>1
  <2> HIDE DEF f, n
  <2> QED BY <1>1, <2>1
<1>5. IsFiniteSet(K) /\ Cardinality(K) = k
  BY FS_Interval
<1>6. T = {x \in B : Cardinality(Before(B, Q, x)) < k}
  OBVIOUS
<1> HIDE DEF f, n
<1>7. \A x \in T : g[x] \in K
  BY <1>1
<1>8. IsFiniteSet(T)
  BY FS_Subset DEF Ordered
<1>9. \A x, z \in T : g[x] = g[z] => x = z
  BY <1>2
<1>10. \A i \in K : \E x \in T : g[x] = i
  <2>1. SUFFICES ASSUME NEW i \in K PROVE \E x \in T : g[x] = i
    OBVIOUS
  <2>2. PICK x \in B : f[x] = i
    BY <1>1, <1>3, <1>4
  <2> QED BY <2>2
<1>11. g \in [T -> K]
  BY <1>7
<1> HIDE DEF T, g, K
<1>12. g \in Injection(T, K) /\ g \in Surjection(T, K)
  BY <1>9, <1>10, <1>11, Fun_IsInj, Fun_IsSurj
<1>13. Cardinality(T) = Cardinality(K)
  BY <1>8, <1>12, FS_Surjection
<1> QED BY <1>5, <1>6, <1>13

-----------------------------------------------------------------------------
(* The photos picked for a moment: the windows have no hole in time, a group   *)
(* is what no closed set keeps apart, and the best of each are taken in order. *)

\* The better looking of two photos, the lesser id on a tie.
Looks == {p \in AllShots \X AllShots : Better(p[1], p[2])}

LEMMA LooksOrder ==
    ASSUME lib \in Libraries, NEW B \in SUBSET AllShots
    PROVE  Ordered(B, Looks) /\ \A x, y \in B : <<x, y>> \in Looks <=> Better(x, y)
<1> DEFINE L == [x \in AllShots |-> lib.look[x]]
<1>1. LibrarySize \in Nat
  BY CurationSizes
<1>2. AllShots = 1..LibrarySize /\ \A x \in AllShots : x \in Nat
  BY <1>1 DEF AllShots
<1>3. IsFiniteSet(B)
  <2>1. IsFiniteSet(AllShots)
    BY <1>1, <1>2, FS_Interval
  <2> HIDE DEF L
  <2> QED BY <2>1, FS_Subset
<1>4. \A x \in AllShots : L[x] \in Int /\ lib.look[x] = L[x]
  BY <1>2, LibrariesFit
<1>5. \A x, y \in AllShots : Better(x, y) <=> L[x] > L[y] \/ (L[x] = L[y] /\ x < y)
  BY <1>4 DEF Better
<1>6. \A x, y \in AllShots : <<x, y>> \in Looks <=> Better(x, y)
  BY DEF Looks
<1> HIDE DEF L
<1>7. \A x \in B : <<x, x>> \notin Looks
  <2>1. SUFFICES ASSUME NEW x \in B PROVE ~Better(x, x)
    BY <1>6
  <2>2. L[x] \in Int /\ x \in Nat
    BY <1>2, <1>4
  <2> QED BY <1>5, <2>2
<1>8. \A x, y \in B : x = y \/ <<x, y>> \in Looks \/ <<y, x>> \in Looks
  <2>1. SUFFICES ASSUME NEW x \in B, NEW y \in B PROVE x = y \/ Better(x, y) \/ Better(y, x)
    BY <1>6
  <2>2. L[x] \in Int /\ x \in Nat /\ L[y] \in Int /\ y \in Nat
    BY <1>2, <1>4
  <2> QED BY <1>5, <2>2
<1>9. \A x, y, z \in B : <<x, y>> \in Looks /\ <<y, z>> \in Looks => <<x, z>> \in Looks
  <2>1. SUFFICES ASSUME NEW x \in B, NEW y \in B, NEW z \in B, Better(x, y), Better(y, z) PROVE Better(x, z)
    BY <1>6
  <2>2. L[x] \in Int /\ x \in Nat /\ L[y] \in Int /\ y \in Nat /\ L[z] \in Int /\ z \in Nat
    BY <1>2, <1>4
  <2> QED BY <1>5, <2>1, <2>2
<1> QED BY <1>3, <1>6, <1>7, <1>8, <1>9 DEF Ordered

\* The best of a group beats the rest of it.
LEMMA BestIsBest ==
    ASSUME lib \in Libraries, NEW B \in SUBSET AllShots, B # {}
    PROVE  bestByAestheticInGroup(B) \in B /\ \A y \in B \ {bestByAestheticInGroup(B)} : Better(bestByAestheticInGroup(B), y)
<1>1. Ordered(B, Looks) /\ \A x, y \in B : <<x, y>> \in Looks <=> Better(x, y)
  BY LooksOrder
<1>2. \E x \in B : \A y \in B \ {x} : <<x, y>> \in Looks
  BY <1>1, FirstInOrder
<1>3. \E x \in B : \A y \in B \ {x} : Better(x, y)
  BY <1>1, <1>2
<1> QED BY <1>3 DEF bestByAestheticInGroup

\* Of the best, the first MaxFeatured are featured.
LEMMA FirstAreFeatured ==
    ASSUME lib \in Libraries, NEW B \in SUBSET AllShots, B # {},
           NEW F, F = {x \in B : Cardinality({y \in B : Better(y, x)}) < MaxFeatured}
    PROVE  /\ F # {} /\ F \subseteq B
           /\ \A y \in B \ F : Cardinality(F) = MaxFeatured /\ \A x \in F : Better(x, y)
<1>1. Ordered(B, Looks) /\ \A x, y \in B : <<x, y>> \in Looks <=> Better(x, y)
  BY LooksOrder
<1>2. MaxFeatured \in Nat /\ MaxFeatured > 0
  BY CurationSizes
<1>3. \A x \in B : {y \in B : Better(y, x)} = Before(B, Looks, x)
  BY <1>1 DEF Before
<1>4. F = {x \in B : Cardinality(Before(B, Looks, x)) < MaxFeatured}
  BY <1>3
<1>5. Cardinality(B) \in Nat /\ \A x \in B : Cardinality(Before(B, Looks, x)) \in 0..(Cardinality(B) - 1)
  BY <1>1, PlacesInOrder
<1>6. \A x \in B : Cardinality(Before(B, Looks, x)) \in Nat
  BY <1>5
<1>7. F # {}
  <2>1. 0 \in 0..(Cardinality(B) - 1)
    BY <1>5
  <2>2. PICK x \in B : Cardinality(Before(B, Looks, x)) = 0
    BY <1>1, <2>1, RanksInOrder
  <2> QED BY <1>2, <1>4, <2>2
<1>8. ASSUME NEW y \in B \ F PROVE Cardinality(F) = MaxFeatured
  <2>1. Cardinality(Before(B, Looks, y)) >= MaxFeatured
    BY <1>2, <1>4, <1>6
  <2> QED BY <1>1, <1>2, <1>4, <2>1, FirstPlaces
<1>9. ASSUME NEW y \in B \ F, NEW x \in F PROVE Better(x, y)
  <2>1. x \in B /\ x # y /\ Cardinality(Before(B, Looks, x)) < Cardinality(Before(B, Looks, y))
    BY <1>2, <1>4, <1>6
  <2>2. <<y, x>> \notin Looks
    BY <1>1, <1>6, <2>1, PlacesInOrder
  <2> QED BY <1>1, <2>1, <2>2 DEF Ordered
<1> QED BY <1>4, <1>7, <1>8, <1>9

\* The photos of a window are those that no hole in time keeps apart from any of them.
LEMMA WindowsAreNear ==
    ASSUME lib \in Libraries, NEW S \in SUBSET Pool
    PROVE  /\ \A x \in S : \E c \in clusterByTimeWindow(S) : x \in c
           /\ \A c \in clusterByTimeWindow(S) : c \in SUBSET S /\ \A x \in c, y \in S : y \in c <=> Near(S, x, y)
<1> DEFINE T == [x \in S |-> lib.taken[x]]
           First(x) == \A y \in S : T[y] < T[x] => T[x] - T[y] > BurstWindow
           Since(w) == {y \in S : T[y] >= T[w] /\ \A z \in S : First(z) /\ T[z] > T[w] => T[y] < T[z]}
           Followed(t) == \E z \in S : T[z] \in (t + 1)..(t + BurstWindow)
           Whole(x, y) == \A t \in (T[x]..(T[y] - 1)) \cup (T[y]..(T[x] - 1)) : Followed(t)
<1>0. BurstWindow \in Nat /\ BurstWindow > 0
  BY CurationSizes
<1>1. IsFiniteSet(S) /\ \A x \in S : lib.taken[x] \in Nat \ {0}
  <2>1. IsFiniteSet(Pool) /\ Pool \subseteq AllShots
    BY PoolFits
  <2>2. IsFiniteSet(S)
    BY <2>1, FS_Subset
  <2>3. \A x \in S : lib.taken[x] \in Nat \ {0}
    BY <2>1, LibrariesFit DEF Pool, AllShots
  <2> QED BY <2>2, <2>3
<1>2. \A x \in S : T[x] = lib.taken[x] /\ T[x] \in Nat /\ T[x] \in Int /\ lib.taken[x] # 0
  BY <1>1
<1>3. Timed(S) = S
  BY <1>1 DEF Timed
<1>4. \A x \in S : Opens(S, x) <=> First(x)
  BY <1>2, <1>3 DEF Opens
<1>5. \A w \in S : Window(S, w) = Since(w)
  <2>1. SUFFICES ASSUME NEW w \in S PROVE \A y \in S : y \in Window(S, w) <=> y \in Since(w)
    BY <1>3 DEF Window
  <2>2. \A y \in S : y \in Window(S, w) <=> /\ lib.taken[y] >= lib.taken[w]
                                            /\ \A z \in S : Opens(S, z) /\ lib.taken[z] > lib.taken[w] => lib.taken[y] < lib.taken[z]
    BY <1>3 DEF Window
  <2> HIDE DEF First, T
  <2> QED BY <1>2, <1>4, <2>2
<1>6. \A x, y \in S : Near(S, x, y) <=> Whole(x, y)
  <2>1. SUFFICES ASSUME NEW x \in S, NEW y \in S PROVE Near(S, x, y) <=> Whole(x, y)
    OBVIOUS
  <2> HIDE DEF T
  <2> QED BY <1>0, <1>2 DEF Near
<1>7. clusterByTimeWindow(S) = {Since(w) : w \in {z \in S : First(z)}}
  <2> HIDE DEF First, Since
  <2> QED BY <1>3, <1>4, <1>5 DEF clusterByTimeWindow
<1> HIDE DEF T
<1>8. ASSUME NEW x \in S PROVE \E w \in S : First(w) /\ x \in Since(w)
  <2> DEFINE D == {z \in S : First(z) /\ T[z] <= T[x]}
  <2>1. D # {}
    <3>1. S # {} /\ \A z \in S : T[z] \in Int
      BY <1>2
    <3>2. PICK z \in S : \A y \in S : T[z] <= T[y]
      BY <1>1, <3>1, SmallestOf
    <3>3. First(z) /\ T[z] <= T[x]
      BY <1>2, <3>2
    <3> QED BY <3>3
  <2>2. IsFiniteSet(D) /\ \A z \in D : T[z] \in Int
    BY <1>1, <1>2, FS_Subset
  <2>3. PICK w \in D : \A z \in D : T[z] <= T[w]
    <3> HIDE DEF D
    <3> QED BY <2>1, <2>2, GreatestOf
  <2>4. ASSUME NEW z \in S, First(z), T[z] > T[w] PROVE T[x] < T[z]
    <3>1. z \notin D
      BY <1>2, <2>3, <2>4
    <3>2. T[x] \in Nat /\ T[z] \in Nat
      BY <1>2
    <3> QED BY <2>4, <3>1, <3>2
  <2>5. T[x] >= T[w] /\ w \in S /\ First(w)
    BY <1>2
  <2> HIDE DEF First, D
  <2> QED BY <2>4, <2>5
<1>9. ASSUME NEW w \in S, First(w), NEW x \in Since(w), NEW y \in Since(w), NEW t \in T[x]..(T[y] - 1) PROVE Followed(t)
  <2>1. SUFFICES ASSUME \A z \in S : T[z] \notin (t + 1)..(t + BurstWindow) PROVE FALSE
    OBVIOUS
  <2> DEFINE U == {z \in S : T[z] > t}
  <2>2. x \in S /\ y \in S /\ T[x] \in Nat /\ T[y] \in Nat /\ t \in Nat /\ T[w] \in Nat /\ T[x] <= t /\ t < T[y] /\ T[w] <= T[x]
    BY <1>2, <2>1
  <2>3. U # {} /\ IsFiniteSet(U) /\ y \in U /\ \A z \in U : T[z] \in Int /\ z \in S
    BY <1>1, <1>2, <2>2, FS_Subset
  <2>4. PICK u \in U : \A z \in U : T[u] <= T[z]
    <3> HIDE DEF U
    <3> QED BY <2>3, SmallestOf
  <2>5. u \in S /\ T[u] \in Nat /\ T[u] > t /\ T[u] <= T[y]
    BY <1>2, <2>3, <2>4
  <2>6. ASSUME NEW v \in S, T[v] < T[u] PROVE T[u] - T[v] > BurstWindow
    <3>1. T[v] \in Nat
      BY <1>2
    <3>2. v \notin U
      BY <2>4, <2>5, <2>6, <3>1
    <3>3. T[v] <= t
      BY <2>2, <3>1, <3>2
    <3>4. T[u] > t + BurstWindow
      BY <1>0, <2>1, <2>2, <2>5
    <3> QED BY <1>0, <2>2, <2>5, <3>1, <3>3, <3>4
  <2>7. First(u)
    BY <2>6
  <2>8. T[u] > T[w]
    BY <2>2, <2>5
  <2>9. T[y] < T[u]
    BY <2>5, <2>7, <2>8
  <2> QED BY <2>2, <2>5, <2>9
<1>10. ASSUME NEW w \in S, First(w), NEW x \in Since(w), NEW y \in S, Whole(x, y) PROVE y \in Since(w)
  <2>1. x \in S /\ T[x] \in Nat /\ T[y] \in Nat /\ T[w] \in Nat /\ T[w] <= T[x]
    BY <1>2
  <2>2. T[y] >= T[w]
    <3>1. SUFFICES ASSUME T[y] < T[w] PROVE FALSE
      BY <2>1
    <3>2. T[w] - T[y] > BurstWindow
      BY <1>10, <3>1
    <3>3. T[w] - BurstWindow - 1 \in T[y]..(T[x] - 1)
      BY <1>0, <2>1, <3>2
    <3>4. Followed(T[w] - BurstWindow - 1)
      BY <1>10, <3>3
    <3>5. PICK z \in S : T[z] \in (T[w] - BurstWindow)..(T[w] - 1)
      BY <1>0, <2>1, <3>4
    <3> QED BY <1>0, <1>2, <1>10, <2>1, <3>5
  <2>3. ASSUME NEW z \in S, First(z), T[z] > T[w], ~(T[y] < T[z]) PROVE FALSE
    <3>1. T[z] \in Nat /\ T[x] < T[z]
      BY <1>2, <2>3
    <3>2. T[z] - T[x] > BurstWindow
      BY <2>1, <2>3, <3>1
    <3>3. T[z] - BurstWindow - 1 \in T[x]..(T[y] - 1)
      BY <1>0, <2>1, <2>3, <3>1, <3>2
    <3>4. Followed(T[z] - BurstWindow - 1)
      BY <1>10, <3>3
    <3>5. PICK v \in S : T[v] \in (T[z] - BurstWindow)..(T[z] - 1)
      BY <1>0, <3>1, <3>4
    <3> QED BY <1>0, <1>2, <2>3, <3>1, <3>5
  <2> HIDE DEF First
  <2> QED BY <2>2, <2>3
<1>11. ASSUME NEW w \in S, First(w) PROVE Since(w) \in SUBSET S /\ \A x \in Since(w), y \in S : y \in Since(w) <=> Near(S, x, y)
  <2>1. Since(w) \in SUBSET S
    OBVIOUS
  <2>2. ASSUME NEW x \in Since(w), NEW y \in Since(w) PROVE Whole(x, y)
    <3> HIDE DEF First, Since
    <3> QED BY <1>9, <1>11
  <2>3. ASSUME NEW x \in Since(w), NEW y \in S, Whole(x, y) PROVE y \in Since(w)
    BY <1>10, <1>11, <2>3
  <2> HIDE DEF First, Since, Whole
  <2> QED BY <1>6, <2>1, <2>2, <2>3
<1> HIDE DEF First, Since, Whole
<1> QED BY <1>7, <1>8, <1>11

\* What is put together is one group from whichever photo it is seen.
LEMMA UnitedDivide ==
    ASSUME NEW S, NEW x \in S
    PROVE  /\ x \in United(S, x) /\ United(S, x) \in SUBSET S
           /\ \A y \in United(S, x) : United(S, y) = United(S, x)
<1> DEFINE Shut(R) == \A u \in R, v \in S : Alike(u, v) => v \in R
<1>1. \A z \in S : \A y : y \in United(S, z) <=> y \in S /\ \A R \in SUBSET S : z \in R /\ Shut(R) => y \in R
  BY DEF United
<1>2. \A u, v : Alike(u, v) => Alike(v, u)
  <2>1. \A u, v : {u, v} = {v, u}
    OBVIOUS
  <2> QED BY <2>1 DEF Alike
<1>3. \A R \in SUBSET S : Shut(R) => Shut(S \ R)
  BY <1>2
<1> HIDE DEF Shut
<1>4. ASSUME NEW y \in United(S, x), NEW z \in United(S, y) PROVE z \in United(S, x)
  BY <1>1
<1>5. ASSUME NEW y \in United(S, x), NEW z \in United(S, x) PROVE z \in United(S, y)
  <2>1. SUFFICES ASSUME NEW R \in SUBSET S, y \in R, Shut(R) PROVE z \in R
    BY <1>1
  <2>2. x \in R
    <3>1. SUFFICES ASSUME x \notin R PROVE FALSE
      OBVIOUS
    <3>2. x \in S \ R /\ Shut(S \ R) /\ S \ R \in SUBSET S
      BY <1>3, <2>1, <3>1
    <3> QED BY <1>1, <2>1, <3>2
  <2> QED BY <1>1, <2>1, <2>2
<1>6. x \in United(S, x) /\ United(S, x) \in SUBSET S
  BY <1>1
<1> QED BY <1>4, <1>5, <1>6

\* The groups of a window are the bursts of its photos.
LEMMA GroupsAreBursts ==
    ASSUME NEW S, NEW c \in SUBSET S, \A x \in c, y \in S : y \in c <=> Near(S, x, y), NEW x \in c
    PROVE  United(c, x) = Burst(S, x)
<1> DEFINE Shut(R) == \A u \in R, v \in c : Alike(u, v) => v \in R
           ShutNear(R) == \A u \in R, v \in S : Alike(u, v) /\ Near(S, u, v) => v \in R
<1>1. \A y : y \in United(c, x) <=> y \in c /\ \A R \in SUBSET c : x \in R /\ Shut(R) => y \in R
  BY DEF United
<1>2. \A y : y \in Burst(S, x) <=> y \in S /\ \A R \in SUBSET S : x \in R /\ ShutNear(R) => y \in R
  BY DEF Burst
<1>3. \A R \in SUBSET S : ShutNear(R) => Shut(R \cap c)
  OBVIOUS
<1>4. \A R \in SUBSET c : Shut(R) => ShutNear(R)
  OBVIOUS
<1>5. ShutNear(c)
  OBVIOUS
<1> HIDE DEF Shut, ShutNear
<1>6. ASSUME NEW y \in United(c, x) PROVE y \in Burst(S, x)
  <2>1. SUFFICES ASSUME NEW R \in SUBSET S, x \in R, ShutNear(R) PROVE y \in R
    BY <1>1, <1>2
  <2>2. x \in R \cap c /\ Shut(R \cap c) /\ R \cap c \in SUBSET c
    BY <1>3, <2>1
  <2> QED BY <1>1, <2>2
<1>7. ASSUME NEW y \in Burst(S, x) PROVE y \in United(c, x)
  <2>1. y \in c
    BY <1>2, <1>5
  <2>2. SUFFICES ASSUME NEW R \in SUBSET c, x \in R, Shut(R) PROVE y \in R
    BY <1>1, <2>1
  <2>3. ShutNear(R) /\ R \in SUBSET S
    BY <1>4, <2>2
  <2> QED BY <1>2, <2>2, <2>3
<1> QED BY <1>6, <1>7

\* The groups that the best are chosen from are the bursts, and they divide the photos.
LEMMA GroupsFit ==
    ASSUME lib \in Libraries, NEW S \in SUBSET Pool
    PROVE  /\ UNION {groupByCosine(c) : c \in clusterByTimeWindow(S)} = {Burst(S, x) : x \in S}
           /\ \A x \in S : x \in Burst(S, x) /\ Burst(S, x) \in SUBSET S /\ \A y \in Burst(S, x) : Burst(S, y) = Burst(S, x)
<1> DEFINE W == clusterByTimeWindow(S)
           groups == UNION {groupByCosine(c) : c \in W}
<1>1. /\ \A x \in S : \E c \in W : x \in c
      /\ \A c \in W : c \in SUBSET S /\ \A x \in c, y \in S : y \in c <=> Near(S, x, y)
  BY WindowsAreNear
<1> HIDE DEF W
<1>2. \A c \in W : \A x \in c : United(c, x) = Burst(S, x)
  <2>1. SUFFICES ASSUME NEW c \in W, NEW x \in c PROVE United(c, x) = Burst(S, x)
    OBVIOUS
  <2>2. c \in SUBSET S /\ \A y \in c, z \in S : z \in c <=> Near(S, y, z)
    BY <1>1
  <2> QED BY <2>2, GroupsAreBursts
<1>3. ASSUME NEW g \in groups PROVE \E x \in S : g = Burst(S, x)
  <2>1. PICK c \in W : g \in groupByCosine(c)
    OBVIOUS
  <2>2. PICK x \in c : g = United(c, x)
    BY <2>1 DEF groupByCosine
  <2>3. x \in S
    BY <1>1
  <2> QED BY <1>2, <2>2, <2>3
<1>4. ASSUME NEW x \in S PROVE Burst(S, x) \in groups
  <2>1. PICK c \in W : x \in c
    BY <1>1
  <2>2. United(c, x) \in groupByCosine(c)
    BY <2>1 DEF groupByCosine
  <2> QED BY <1>2, <2>1, <2>2
<1>5. ASSUME NEW x \in S PROVE x \in Burst(S, x) /\ Burst(S, x) \in SUBSET S /\ \A y \in Burst(S, x) : Burst(S, y) = Burst(S, x)
  <2>1. PICK c \in W : x \in c /\ c \in SUBSET S
    BY <1>1
  <2>2. x \in United(c, x) /\ United(c, x) \in SUBSET c /\ \A y \in United(c, x) : United(c, y) = United(c, x)
    BY <2>1, UnitedDivide
  <2>3. \A y \in c : United(c, y) = Burst(S, y)
    BY <1>2, <2>1
  <2> QED BY <2>1, <2>2, <2>3
<1> HIDE DEF groups
<1>6. groups = {Burst(S, x) : x \in S}
  BY <1>3, <1>4
<1> QED BY <1>5, <1>6 DEF groups, W

\* The cover is featured, and the gate refuses it only if it refuses all.
LEMMA CoverPasses ==
    ASSUME lib \in Libraries, NEW f \in SUBSET AllShots, f # {}
    PROVE  pickCover(f) \in f /\ (lib.plain[pickCover(f)] => \A x \in f : lib.plain[x])
<1> DEFINE passing == {x \in f : ~lib.plain[x]}
<1>1. passing \in SUBSET AllShots
  OBVIOUS
<1>2. CASE passing # {}
  <2>1. bestByAestheticInGroup(passing) \in passing
    BY <1>1, <1>2, BestIsBest
  <2>2. pickCover(f) = bestByAestheticInGroup(passing)
    BY <1>2 DEF pickCover
  <2> QED BY <2>1, <2>2
<1>3. CASE passing = {}
  <2>1. bestByAestheticInGroup(f) \in f
    BY BestIsBest
  <2>2. pickCover(f) = bestByAestheticInGroup(f)
    BY <1>3 DEF pickCover
  <2> QED BY <1>3, <2>1, <2>2
<1> QED BY <1>2, <1>3

LEMMA PicksAreFair ==
    ASSUME lib \in Libraries, NEW S \in SUBSET Pool, S # {}, NEW f, NEW c,
           f = PickFeaturedAndCover(S).featured, c = PickFeaturedAndCover(S).cover
    PROVE  /\ f # {} /\ f \subseteq S
           /\ \A x \in f : \A y \in Burst(S, x) \ {x} : y \notin f /\ Better(x, y)
           /\ \A y \in S \ f : \/ \E z \in Burst(S, y) : Better(z, y)
                               \/ Cardinality(f) = MaxFeatured /\ \A x \in f : Better(x, y)
           /\ c \in f /\ (lib.plain[c] => \A x \in f : lib.plain[x])
<1> DEFINE b(x) == bestByAestheticInGroup(Burst(S, x))
           best == {b(x) : x \in S}
<1>1. S \in SUBSET AllShots
  BY PoolFits
<1>2. \A x \in S : x \in Burst(S, x) /\ Burst(S, x) \in SUBSET S /\ \A y \in Burst(S, x) : Burst(S, y) = Burst(S, x)
  BY GroupsFit
<1>3. f = {x \in best : Cardinality({y \in best : Better(y, x)}) < MaxFeatured} /\ c = pickCover(f)
  <2> DEFINE groups == UNION {groupByCosine(w) : w \in clusterByTimeWindow(S)}
  <2>1. groups = {Burst(S, x) : x \in S}
    BY GroupsFit
  <2> HIDE DEF groups
  <2>2. {bestByAestheticInGroup(g) : g \in groups} = best
    BY <2>1
  <2> HIDE DEF best
  <2> QED BY <2>2 DEF PickFeaturedAndCover, groups
<1>4. \A x \in S : b(x) \in Burst(S, x) /\ \A y \in Burst(S, x) \ {b(x)} : Better(b(x), y)
  <2>1. SUFFICES ASSUME NEW x \in S PROVE b(x) \in Burst(S, x) /\ \A y \in Burst(S, x) \ {b(x)} : Better(b(x), y)
    OBVIOUS
  <2>2. Burst(S, x) \in SUBSET AllShots /\ Burst(S, x) # {}
    BY <1>1, <1>2
  <2> QED BY <2>2, BestIsBest
<1>5. best \in SUBSET S /\ best # {} /\ best \in SUBSET AllShots
  <2>1. \A x \in S : b(x) \in S
    BY <1>2, <1>4
  <2> QED BY <1>1, <2>1
<1>6. \A x, y \in S : y \in Burst(S, x) => b(y) = b(x)
  BY <1>2
<1>7. \A x \in best : b(x) = x /\ x \in S
  <2>1. SUFFICES ASSUME NEW x \in S PROVE b(b(x)) = b(x) /\ b(x) \in S
    OBVIOUS
  <2>2. b(x) \in Burst(S, x) /\ b(x) \in S
    BY <1>2, <1>4
  <2> QED BY <1>6, <2>2
<1>8. \A x \in S : b(x) \in best
  OBVIOUS
<1> HIDE DEF b, best
<1>9. f # {} /\ f \subseteq best /\ \A y \in best \ f : Cardinality(f) = MaxFeatured /\ \A x \in f : Better(x, y)
  BY <1>3, <1>5, FirstAreFeatured
<1>10. ASSUME NEW x \in f, NEW y \in Burst(S, x) \ {x} PROVE y \notin f /\ Better(x, y)
  <2>1. x \in best /\ x \in S /\ b(x) = x /\ y \in S
    BY <1>2, <1>7, <1>9
  <2>2. b(y) = x
    BY <1>6, <2>1
  <2>3. y \notin best
    BY <1>7, <2>2
  <2> QED BY <1>4, <1>9, <2>1, <2>3
<1>11. ASSUME NEW y \in S \ f
       PROVE  \/ \E z \in Burst(S, y) : Better(z, y)
              \/ Cardinality(f) = MaxFeatured /\ \A x \in f : Better(x, y)
  <2>1. CASE b(y) = y
    BY <1>8, <1>9, <2>1
  <2>2. CASE b(y) # y
    BY <1>2, <1>4, <2>2
  <2> QED BY <2>1, <2>2
<1>12. f \in SUBSET AllShots /\ f \subseteq S
  BY <1>5, <1>9
<1>13. c \in f /\ (lib.plain[c] => \A x \in f : lib.plain[x])
  BY <1>3, <1>9, <1>12, CoverPasses
<1> QED BY <1>9, <1>10, <1>11, <1>12, <1>13

\* Each moment shows what was picked from its photos.
CurationInv ==
    /\ part = "curation" => lib \in Libraries
    /\ drafts # {} => part = "curation"
    /\ CuTypeOK
    /\ DOMAIN curated \subseteq drafts
    /\ \A d \in DOMAIN curated : curated[d] = PickFeaturedAndCover(d.members)

LEMMA CurationPicks == ASSUME CurationInv PROVE CurationIsFair
<1>1. SUFFICES ASSUME NEW d \in DOMAIN curated
               PROVE  LET S == d.members  f == curated[d].featured  c == curated[d].cover IN
                      /\ f # {} /\ f \subseteq S
                      /\ \A x \in f : \A y \in Burst(S, x) \ {x} : y \notin f /\ Better(x, y)
                      /\ \A y \in S \ f : \/ \E z \in Burst(S, y) : Better(z, y)
                                          \/ Cardinality(f) = MaxFeatured /\ \A x \in f : Better(x, y)
                      /\ c \in f /\ (lib.plain[c] => \A x \in f : lib.plain[x])
  BY DEF CurationIsFair
<1>2. lib \in Libraries /\ curated[d] = PickFeaturedAndCover(d.members) /\ d.members \in SUBSET Pool /\ d.members # {}
  BY <1>1 DEF CurationInv, CuTypeOK
<1>3. \A f, c : f = curated[d].featured /\ c = curated[d].cover =>
        /\ f # {} /\ f \subseteq d.members
        /\ \A x \in f : \A y \in Burst(d.members, x) \ {x} : y \notin f /\ Better(x, y)
        /\ \A y \in d.members \ f : \/ \E z \in Burst(d.members, y) : Better(z, y)
                                    \/ Cardinality(f) = MaxFeatured /\ \A x \in f : Better(x, y)
        /\ c \in f /\ (lib.plain[c] => \A x \in f : lib.plain[x])
  BY <1>2, PicksAreFair
<1> QED BY <1>3

-----------------------------------------------------------------------------
(* The spots of a town.                                                        *)

\* Fractions are compared by their products, in a chain.
LEMMA FractionsChain ==
    ASSUME NEW a \in Int, NEW c \in Int, NEW e \in Int, NEW b \in Nat \ {0}, NEW d \in Nat \ {0}, NEW f \in Nat \ {0},
           a * d <= c * b, c * f <= e * d
    PROVE  a * f <= e * b
<1>1. (a * d) * f <= (c * b) * f
  <2> DEFINE x == a * d
             y == c * b
  <2>1. x \in Int /\ y \in Int /\ x <= y
    OBVIOUS
  <2> HIDE DEF x, y
  <2>2. x * f <= y * f
    BY <2>1, BlocksMonotone
  <2> QED BY <2>2 DEF x, y
<1>2. (c * f) * b <= (e * d) * b
  <2> DEFINE x == c * f
             y == e * d
  <2>1. x \in Int /\ y \in Int /\ x <= y
    OBVIOUS
  <2> HIDE DEF x, y
  <2>2. x * b <= y * b
    BY <2>1, BlocksMonotone
  <2> QED BY <2>2 DEF x, y
<1>3. (a * d) * f = (a * f) * d /\ (c * b) * f = (c * f) * b /\ (e * d) * b = (e * b) * d
  OBVIOUS
<1> DEFINE p == a * f
           q == e * b
<1>4. p \in Int /\ q \in Int /\ p * d <= q * d
  <2>1. (a * f) * d \in Int /\ (c * f) * b \in Int /\ (e * b) * d \in Int
    OBVIOUS
  <2> QED BY <1>1, <1>2, <1>3, <2>1
<1> HIDE DEF p, q
<1>5. p <= q
  <2>1. SUFFICES ASSUME q + 1 <= p PROVE FALSE
    BY <1>4
  <2>2. (q + 1) * d <= p * d
    BY <1>4, <2>1, BlocksMonotone
  <2>3. (q + 1) * d = q * d + d
    BY <1>4
  <2>4. q * d \in Int /\ p * d \in Int
    BY <1>4
  <2> QED BY <1>4, <2>2, <2>3, <2>4
<1> QED BY <1>5 DEF p, q

\* A centroid that takes a point no farther from it than from another centroid does not
\* fall on that other one: the cell of the points nearer to it is convex.
LEMMA CentroidsKeepApart ==
    ASSUME NEW A \in Int, NEW n \in Nat \ {0}, NEW B \in Int, NEW m \in Nat \ {0}, NEW s \in Int, A * m # B * n,
           LET x == A - s * n  y == B - s * m IN (IF x < 0 THEN -x ELSE x) * m <= (IF y < 0 THEN -y ELSE y) * n
    PROVE  (A + s) * m # B * (n + 1)
<1> DEFINE x == A - s * n
           y == B - s * m
<1>1. SUFFICES ASSUME (A + s) * m = B * (n + 1) PROVE FALSE
  OBVIOUS
<1>2. x \in Int /\ y \in Int
  OBVIOUS
<1>3. A * m - B * n = y
  <2>1. (A + s) * m = A * m + s * m /\ B * (n + 1) = B * n + B
    OBVIOUS
  <2>2. A * m \in Int /\ s * m \in Int /\ B * n \in Int
    OBVIOUS
  <2> QED BY <1>1, <2>1, <2>2
<1>4. x * m = n * y + y
  <2>1. x * m = A * m - (s * n) * m /\ n * y = n * B - n * (s * m) /\ (s * n) * m = n * (s * m) /\ n * B = B * n
    OBVIOUS
  <2>2. A * m \in Int /\ (s * n) * m \in Int /\ B * n \in Int
    OBVIOUS
  <2> HIDE DEF x, y
  <2> QED BY <1>2, <1>3, <2>1, <2>2
<1>5. y # 0
  <2>1. A * m \in Int /\ B * n \in Int
    OBVIOUS
  <2> HIDE DEF y
  <2> QED BY <1>3, <2>1
<1>6. (IF x < 0 THEN -x ELSE x) * m <= (IF y < 0 THEN -y ELSE y) * n
  OBVIOUS
<1> HIDE DEF x, y
<1>7. CASE y > 0
  <2>1. n * y > 0 /\ n * y \in Int
    BY <1>2, <1>7
  <2>2. x > 0
    <3>1. SUFFICES ASSUME 0 - x >= 0 PROVE FALSE
      BY <1>2
    <3>2. (0 - x) * m >= 0 /\ (0 - x) * m = 0 - x * m /\ x * m \in Int
      BY <1>2, <3>1
    <3> QED BY <1>2, <1>4, <1>7, <2>1, <3>2
  <2>3. x * m <= y * n /\ y * n = n * y /\ x * m \in Int
    BY <1>2, <1>6, <1>7, <2>2
  <2> QED BY <1>2, <1>4, <1>7, <2>1, <2>3
<1>8. CASE y < 0
  <2> DEFINE u == 0 - x
             v == 0 - y
  <2>1. u \in Int /\ v \in Int /\ v > 0 /\ u * m = n * v + v /\ n * v > 0 /\ n * v \in Int
    <3>1. u * m = 0 - x * m /\ n * v = 0 - n * y /\ x * m \in Int /\ n * y \in Int
      BY <1>2
    <3>2. u \in Int /\ v \in Int /\ v > 0
      BY <1>2, <1>8
    <3>3. u * m = n * v + v
      BY <1>2, <1>4, <3>1
    <3> HIDE DEF u, v
    <3>4. n * v > 0 /\ n * v \in Int
      BY <3>2
    <3> QED BY <3>2, <3>3, <3>4
  <2>2. x < 0 => u * m <= v * n
    BY <1>2, <1>6, <1>8
  <2>3. x < 0 <=> u > 0
    BY <1>2
  <2> HIDE DEF u, v
  <2>4. u > 0
    <3>1. SUFFICES ASSUME 0 - u >= 0 PROVE FALSE
      BY <2>1
    <3>2. (0 - u) * m >= 0 /\ (0 - u) * m = 0 - u * m /\ u * m \in Int
      BY <2>1, <3>1
    <3> QED BY <2>1, <3>2
  <2>5. u * m <= v * n /\ v * n = n * v /\ u * m \in Int
    BY <2>1, <2>2, <2>3, <2>4
  <2> QED BY <2>1, <2>5
<1> QED BY <1>2, <1>5, <1>7, <1>8

SpotClusters == [count : Nat \ {0}, sum : Int, ids : SUBSET Nat]

LEMMA OffFits ==
    ASSUME NEW k \in SpotClusters, NEW s \in Int, NEW n \in Nat \ {0}
    PROVE  /\ k.count \in Nat \ {0} /\ k.sum \in Int /\ k.sum * n - s * k.count \in Int
           /\ Off(k, s, n) \in Nat /\ SpotRadius * n \in Nat \ {0}
<1>1. k.count \in Nat \ {0} /\ k.sum \in Int /\ SpotRadius \in Nat \ {0}
  BY PlaceSizes DEF SpotClusters
<1> DEFINE d == k.sum * n - s * k.count
<1>2. d \in Int /\ SpotRadius * n \in Nat \ {0}
  BY <1>1
<1> HIDE DEF d
<1>3. (IF d < 0 THEN -d ELSE d) \in Nat
  BY <1>2
<1> QED BY <1>1, <1>2, <1>3 DEF Off, d

\* The distances to a point are ordered.
LEMMA DistancesChain ==
    ASSUME NEW s \in Int, NEW n \in Nat \ {0}
    PROVE  /\ \A k, m \in SpotClusters : NoFarther(k, m, s, n) \/ NoFarther(m, k, s, n)
           /\ \A k, m, q \in SpotClusters : NoFarther(k, m, s, n) /\ NoFarther(m, q, s, n) => NoFarther(k, q, s, n)
           /\ \A k, m \in SpotClusters : WithinRadius(k, s, n) /\ ~WithinRadius(m, s, n) => NoFarther(k, m, s, n)
<1>1. ASSUME NEW k \in SpotClusters, NEW m \in SpotClusters PROVE NoFarther(k, m, s, n) \/ NoFarther(m, k, s, n)
  <2>1. Off(k, s, n) * m.count \in Int /\ Off(m, s, n) * k.count \in Int
    <3>1. Off(k, s, n) \in Int /\ Off(m, s, n) \in Int /\ k.count \in Int /\ m.count \in Int
      BY OffFits
    <3> QED BY <3>1
  <2> DEFINE x == Off(k, s, n) * m.count
             y == Off(m, s, n) * k.count
  <2> HIDE DEF x, y
  <2>2. x <= y \/ y <= x
    BY <2>1 DEF x, y
  <2> QED BY <2>2 DEF NoFarther, x, y
<1>2. ASSUME NEW k \in SpotClusters, NEW m \in SpotClusters, NEW q \in SpotClusters,
             NoFarther(k, m, s, n), NoFarther(m, q, s, n)
      PROVE  NoFarther(k, q, s, n)
  <2>1. /\ Off(k, s, n) \in Int /\ Off(m, s, n) \in Int /\ Off(q, s, n) \in Int
        /\ k.count \in Nat \ {0} /\ m.count \in Nat \ {0} /\ q.count \in Nat \ {0}
    BY OffFits
  <2>2. Off(k, s, n) * m.count <= Off(m, s, n) * k.count /\ Off(m, s, n) * q.count <= Off(q, s, n) * m.count
    BY <1>2 DEF NoFarther
  <2>3. Off(k, s, n) * q.count <= Off(q, s, n) * k.count
    BY <2>1, <2>2, FractionsChain
  <2> QED BY <2>3 DEF NoFarther
<1>3. ASSUME NEW k \in SpotClusters, NEW m \in SpotClusters, WithinRadius(k, s, n), ~WithinRadius(m, s, n)
      PROVE  NoFarther(k, m, s, n)
  <2> DEFINE r == SpotRadius * n
  <2>1. /\ Off(k, s, n) \in Int /\ Off(m, s, n) \in Int /\ r \in Int
        /\ k.count \in Nat \ {0} /\ m.count \in Nat \ {0}
    BY OffFits
  <2>2. Off(k, s, n) <= r * k.count /\ ~(Off(m, s, n) <= r * m.count)
    BY <1>3 DEF WithinRadius
  <2> HIDE DEF r
  <2>3. Off(k, s, n) * 1 <= r * k.count /\ r * m.count <= Off(m, s, n) * 1
    <3>1. r * m.count \in Int
      BY <2>1
    <3> QED BY <2>1, <2>2, <3>1
  <2>4. Off(k, s, n) * m.count <= Off(m, s, n) * k.count
    BY <2>1, <2>3, FractionsChain
  <2> QED BY <2>4 DEF NoFarther
<1> QED BY <1>1, <1>2, <1>3

\* There is a nearest cluster when there is one within the radius, and all others are no
\* nearer.
LEMMA NearestIsThere ==
    ASSUME NEW C \in Seq(SpotClusters), NEW s \in Int, NEW n \in Nat \ {0}
    PROVE  /\ (\E i \in DOMAIN C : WithinRadius(C[i], s, n)) => \E i \in DOMAIN C : Nearest(C, s, n) = {i}
           /\ (\A i \in DOMAIN C : ~WithinRadius(C[i], s, n)) => Nearest(C, s, n) = {}
           /\ \A i \in Nearest(C, s, n) : i \in DOMAIN C /\ \A j \in DOMAIN C \ {i} : NoFarther(C[i], C[j], s, n)
<1> DEFINE close == {i \in DOMAIN C : WithinRadius(C[i], s, n)}
           NF(i, j) == NoFarther(C[i], C[j], s, n)
           R == {p \in close \X close : NF(p[1], p[2]) /\ (NF(p[2], p[1]) => p[2] < p[1])}
<1>1. /\ DOMAIN C = 1..Len(C) /\ Len(C) \in Nat /\ \A i \in DOMAIN C : C[i] \in SpotClusters
  OBVIOUS
<1>2. IsFiniteSet(close) /\ close \subseteq Nat
  <2>1. IsFiniteSet(1..Len(C))
    BY <1>1, FS_Interval
  <2> QED BY <1>1, <2>1, FS_Subset
<1>3. \A i \in close : C[i] \in SpotClusters /\ i \in DOMAIN C
  BY <1>1
<1>4. \A i, j \in close : <<i, j>> \in R <=> NF(i, j) /\ (NF(j, i) => j < i)
  OBVIOUS
<1>5. Nearest(C, s, n) = {i \in close : \A j \in close \ {i} : NF(i, j) /\ (NF(j, i) => j < i)}
  BY DEF Nearest
<1>6. /\ \A i, j \in close : NF(i, j) \/ NF(j, i)
      /\ \A i, j, k \in close : NF(i, j) /\ NF(j, k) => NF(i, k)
      /\ \A i \in close, j \in DOMAIN C \ close : NF(i, j)
  <2>1. \A i, j \in close : NF(i, j) \/ NF(j, i)
    BY <1>3, DistancesChain
  <2>2. \A i, j, k \in close : NF(i, j) /\ NF(j, k) => NF(i, k)
    BY <1>3, DistancesChain
  <2>3. ASSUME NEW i \in close, NEW j \in DOMAIN C \ close PROVE NF(i, j)
    <3>1. C[i] \in SpotClusters /\ C[j] \in SpotClusters /\ WithinRadius(C[i], s, n) /\ ~WithinRadius(C[j], s, n)
      BY <1>1
    <3> QED BY <3>1, DistancesChain
  <2> QED BY <2>1, <2>2, <2>3
<1>7. close \subseteq DOMAIN C
  OBVIOUS
<1> HIDE DEF close, NF, R
<1>8. close # {} => \E i \in close : \A j \in close \ {i} : <<i, j>> \in R
  <2>1. \A x \in close : <<x, x>> \notin R
    BY <1>2, <1>4, <1>6
  <2>2. ASSUME NEW i \in close, NEW j \in close, NEW k \in close, <<i, j>> \in R, <<j, k>> \in R PROVE <<i, k>> \in R
    <3>1. NF(i, j) /\ (NF(j, i) => j < i) /\ NF(j, k) /\ (NF(k, j) => k < j) /\ NF(i, k)
      BY <1>4, <1>6, <2>2
    <3>2. ASSUME NF(k, i) PROVE k < i
      <4>1. NF(k, j) /\ NF(j, i)
        BY <1>6, <3>1, <3>2
      <4>2. i \in Nat /\ j \in Nat /\ k \in Nat
        BY <1>2
      <4> QED BY <3>1, <4>1, <4>2
    <3> QED BY <1>4, <3>1, <3>2
  <2>3. ASSUME NEW i \in close, NEW j \in close, i # j PROVE <<i, j>> \in R \/ <<j, i>> \in R
    <3>1. i \in Nat /\ j \in Nat
      BY <1>2
    <3>2. i < j \/ j < i
      BY <2>3, <3>1
    <3> QED BY <1>4, <1>6, <3>2
  <2>4. Ordered(close, R)
    BY <1>2, <2>1, <2>2, <2>3 DEF Ordered
  <2> QED BY <2>4, FirstInOrder
<1>9. \A i \in Nearest(C, s, n) : i \in close /\ \A j \in DOMAIN C \ {i} : NF(i, j)
  BY <1>5, <1>6
<1>10. ASSUME close # {} PROVE \E i \in DOMAIN C : Nearest(C, s, n) = {i}
  <2>1. PICK i \in close : \A j \in close \ {i} : NF(i, j) /\ (NF(j, i) => j < i)
    BY <1>4, <1>8, <1>10
  <2>2. i \in Nearest(C, s, n)
    BY <1>5, <2>1
  <2>3. ASSUME NEW k \in Nearest(C, s, n), k # i PROVE FALSE
    <3>1. k \in close /\ NF(k, i) /\ (NF(i, k) => i < k) /\ NF(i, k) /\ (NF(k, i) => k < i)
      BY <1>5, <2>1, <2>3
    <3>2. i \in Nat /\ k \in Nat
      BY <1>2, <3>1
    <3> QED BY <3>1, <3>2
  <2> QED BY <1>7, <2>1, <2>2, <2>3
<1>11. close = {} => Nearest(C, s, n) = {}
  BY <1>5
<1> QED BY <1>7, <1>9, <1>10, <1>11 DEF close, NF

\* The photos of a town are numbered, each once.
LEMMA PhotosInOrder ==
    ASSUME snaps \in Atlases \cup {<<>>}, NEW S \in SUBSET DOMAIN snaps
    PROVE  /\ IsFiniteSet(S) /\ Cardinality(S) \in Nat /\ S \subseteq Nat
           /\ \A i \in 1..Cardinality(S) : NewestFirst(S)[i] \in S
           /\ \A i, j \in 1..Cardinality(S) : NewestFirst(S)[i] = NewestFirst(S)[j] => i = j
<1> DEFINE R == {p \in S \X S : Newer(p[1], p[2])}
           n == Cardinality(S)
<1>1. IsFiniteSet(DOMAIN snaps) /\ DOMAIN snaps \subseteq Nat /\ \A y \in DOMAIN snaps : snaps[y].taken \in Nat
  BY AtlasesFit, FS_EmptySet
<1>2. IsFiniteSet(S) /\ n \in Nat /\ S \subseteq Nat /\ \A x \in S : snaps[x].taken \in Nat /\ x \in Nat
  BY <1>1, FS_Subset, FS_CardinalityType
<1>3. \A x, y \in S : <<x, y>> \in R <=> Newer(x, y)
  OBVIOUS
<1>4. \A x \in S : Before(S, R, x) = {y \in S : Newer(y, x)}
  BY <1>3 DEF Before
<1>5. Ordered(S, R)
  <2> DEFINE T == [x \in S |-> snaps[x].taken]
  <2>1. \A x \in S : T[x] \in Nat /\ x \in Nat
    BY <1>2
  <2>2. \A x, y \in S : <<x, y>> \in R <=> T[x] > T[y] \/ (T[x] = T[y] /\ x < y)
    BY <1>3 DEF Newer
  <2> HIDE DEF R, T
  <2>3. \A x \in S : <<x, x>> \notin R
    BY <2>1, <2>2
  <2>4. ASSUME NEW x \in S, NEW y \in S PROVE x = y \/ <<x, y>> \in R \/ <<y, x>> \in R
    <3>1. T[x] \in Nat /\ T[y] \in Nat /\ x \in Nat /\ y \in Nat
      BY <2>1
    <3>2. x = y \/ (T[x] > T[y] \/ (T[x] = T[y] /\ x < y)) \/ (T[y] > T[x] \/ (T[y] = T[x] /\ y < x))
      BY <3>1
    <3> QED BY <2>2, <3>2
  <2>5. ASSUME NEW x \in S, NEW y \in S, NEW z \in S, <<x, y>> \in R, <<y, z>> \in R PROVE <<x, z>> \in R
    <3>1. T[x] \in Nat /\ T[y] \in Nat /\ T[z] \in Nat /\ x \in Nat /\ y \in Nat /\ z \in Nat
      BY <2>1
    <3>2. (T[x] > T[y] \/ (T[x] = T[y] /\ x < y)) /\ (T[y] > T[z] \/ (T[y] = T[z] /\ y < z))
      BY <2>2, <2>5
    <3>3. T[x] > T[z] \/ (T[x] = T[z] /\ x < z)
      BY <3>1, <3>2
    <3> QED BY <2>2, <3>3
  <2> QED BY <1>2, <2>3, <2>4, <2>5 DEF Ordered
<1> HIDE DEF R
<1>6. ASSUME NEW i \in 1..n PROVE NewestFirst(S)[i] \in S /\ Cardinality({y \in S : Newer(y, NewestFirst(S)[i])}) = i - 1
  <2>1. NewestFirst(S)[i] = CHOOSE x \in S : Cardinality({y \in S : Newer(y, x)}) = i - 1
    BY DEF NewestFirst
  <2>2. i - 1 \in 0..(n - 1)
    BY <1>2
  <2>3. \E x \in S : Cardinality(Before(S, R, x)) = i - 1
    BY <1>5, <2>2, RanksInOrder
  <2>4. \E x \in S : Cardinality({y \in S : Newer(y, x)}) = i - 1
    BY <1>4, <2>3
  <2> QED BY <2>1, <2>4
<1>7. ASSUME NEW i \in 1..n, NEW j \in 1..n, NewestFirst(S)[i] = NewestFirst(S)[j] PROVE i = j
  <2>1. i - 1 = j - 1
    BY <1>6, <1>7
  <2>2. i \in Int /\ j \in Int
    BY <1>2
  <2> QED BY <2>1, <2>2
<1> QED BY <1>2, <1>6, <1>7

\* Clusters of photos X: each has as many photos as it counts, no photo is in two, and no
\* two have one centroid.
SpotsApart(C, X) ==
    /\ C \in Seq(SpotClusters)
    /\ \A j \in DOMAIN C : C[j].ids \subseteq X /\ IsFiniteSet(C[j].ids) /\ Cardinality(C[j].ids) = C[j].count
    /\ \A j, k \in DOMAIN C : j # k => C[j].ids \cap C[k].ids = {} /\ C[j].sum * C[k].count # C[k].sum * C[j].count

LEMMA PhotoIsAssigned ==
    ASSUME NEW C, NEW X \in SUBSET Nat, NEW x \in Nat \ X, snaps[x].at \in Int, SpotsApart(C, X)
    PROVE  SpotsApart(Assigned(C, x), X \cup {x})
<1> DEFINE at_ == snaps[x].at
           D == Assigned(C, x)
           len == Len(C)
<1>1. /\ C \in Seq(SpotClusters) /\ len \in Nat /\ DOMAIN C = 1..len
      /\ \A j \in DOMAIN C : /\ C[j] \in SpotClusters /\ C[j].count \in Nat \ {0} /\ C[j].sum \in Int /\ C[j].ids \subseteq X
                             /\ IsFiniteSet(C[j].ids) /\ Cardinality(C[j].ids) = C[j].count
  <2>1. C \in Seq(SpotClusters)
    BY DEF SpotsApart
  <2>2. \A j \in DOMAIN C : C[j] \in SpotClusters
    BY <2>1
  <2>3. \A k \in SpotClusters : k.count \in Nat \ {0} /\ k.sum \in Int
    BY DEF SpotClusters
  <2>4. \A j \in DOMAIN C : C[j].count \in Nat \ {0} /\ C[j].sum \in Int
    BY <2>2, <2>3
  <2>5. \A j \in DOMAIN C : C[j].ids \subseteq X /\ IsFiniteSet(C[j].ids) /\ Cardinality(C[j].ids) = C[j].count
    BY DEF SpotsApart
  <2> QED BY <2>1, <2>2, <2>4, <2>5
<1>2. \A j, k \in DOMAIN C : j # k => C[j].ids \cap C[k].ids = {} /\ C[j].sum * C[k].count # C[k].sum * C[j].count
  BY DEF SpotsApart
<1>3. at_ \in Int /\ 1 \in Nat \ {0}
  OBVIOUS
<1>4. CASE \A i \in DOMAIN C : ~WithinRadius(C[i], at_, 1)
  <2> DEFINE new == [count |-> 1, sum |-> at_, ids |-> {x}]
  <2>1. Nearest(C, at_, 1) = {}
    BY <1>1, <1>3, <1>4, NearestIsThere
  <2>2. D = Append(C, new)
    BY <2>1 DEF Assigned
  <2>3. new \in SpotClusters /\ new.count = 1 /\ new.sum = at_ /\ new.ids = {x}
    BY DEF SpotClusters
  <2>4. IsFiniteSet(new.ids) /\ Cardinality(new.ids) = 1
    BY <2>3, FS_Singleton
  <2> HIDE DEF new, D
  <2>5. /\ D \in Seq(SpotClusters) /\ DOMAIN D = 1..(len + 1) /\ D[len + 1] = new
        /\ \A j \in 1..len : D[j] = C[j]
    BY <1>1, <2>2, <2>3
  <2>6. \A j \in DOMAIN C : C[j].sum * 1 # at_ * C[j].count /\ at_ * C[j].count # C[j].sum * 1
    <3>1. SUFFICES ASSUME NEW j \in DOMAIN C, C[j].sum * 1 = at_ * C[j].count PROVE FALSE
      OBVIOUS
    <3>2. Off(C[j], at_, 1) = 0
      <4>1. C[j].sum * 1 - at_ * C[j].count = 0
        <5>1. C[j].sum * 1 \in Int
          BY <1>1
        <5> QED BY <3>1, <5>1
      <4> HIDE DEF at_
      <4> QED BY <4>1 DEF Off
    <3>3. 0 <= SpotRadius * 1 * C[j].count
      <4>1. SpotRadius \in Nat /\ C[j].count \in Nat
        BY <1>1, PlaceSizes
      <4> QED BY <4>1
    <3> QED BY <1>4, <3>2, <3>3 DEF WithinRadius
  <2>7. \A j \in DOMAIN D : D[j].ids \subseteq X \cup {x} /\ IsFiniteSet(D[j].ids) /\ Cardinality(D[j].ids) = D[j].count
    <3>1. \A j \in DOMAIN D : j \in DOMAIN C \/ j = len + 1
      BY <1>1, <2>5
    <3> QED BY <1>1, <2>3, <2>4, <2>5, <3>1
  <2>8. ASSUME NEW j \in DOMAIN D, NEW k \in DOMAIN D, j # k
        PROVE  D[j].ids \cap D[k].ids = {} /\ D[j].sum * D[k].count # D[k].sum * D[j].count
    <3>1. (j \in DOMAIN C \/ j = len + 1) /\ (k \in DOMAIN C \/ k = len + 1)
      BY <1>1, <2>5
    <3>2. CASE j \in DOMAIN C /\ k \in DOMAIN C
      BY <1>1, <1>2, <2>5, <2>8, <3>2
    <3>3. CASE j \in DOMAIN C /\ k = len + 1
      <4>1. D[j] = C[j] /\ D[k] = new /\ x \notin C[j].ids
        BY <1>1, <2>5, <3>3
      <4> QED BY <2>3, <2>6, <3>3, <4>1
    <3>4. CASE j = len + 1 /\ k \in DOMAIN C
      <4>1. D[k] = C[k] /\ D[j] = new /\ x \notin C[k].ids
        BY <1>1, <2>5, <3>4
      <4> QED BY <2>3, <2>6, <3>4, <4>1
    <3> QED BY <2>8, <3>1, <3>2, <3>3, <3>4
  <2> QED BY <2>5, <2>7, <2>8 DEF SpotsApart, D
<1>5. CASE \E i \in DOMAIN C : WithinRadius(C[i], at_, 1)
  <2>1. PICK b \in DOMAIN C : Nearest(C, at_, 1) = {b}
    BY <1>1, <1>3, <1>5, NearestIsThere
  <2>2. \A j \in DOMAIN C \ {b} : NoFarther(C[b], C[j], at_, 1)
    BY <1>1, <1>3, <2>1, NearestIsThere
  <2> DEFINE grown == [count |-> C[b].count + 1, sum |-> C[b].sum + at_, ids |-> C[b].ids \cup {x}]
  <2>3. D = [i \in DOMAIN C |-> IF i \notin {b} THEN C[i]
                                ELSE [count |-> C[i].count + 1, sum |-> C[i].sum + at_, ids |-> C[i].ids \cup {x}]]
    BY <2>1 DEF Assigned
  <2>4. DOMAIN D = DOMAIN C /\ D[b] = grown /\ \A j \in DOMAIN C \ {b} : D[j] = C[j]
    BY <2>3
  <2>5. grown \in SpotClusters /\ grown.count = C[b].count + 1 /\ grown.sum = C[b].sum + at_ /\ grown.ids = C[b].ids \cup {x}
    BY <1>1, <1>3 DEF SpotClusters
  <2>6. IsFiniteSet(grown.ids) /\ Cardinality(grown.ids) = grown.count
    <3>1. x \notin C[b].ids
      BY <1>1
    <3> QED BY <1>1, <2>5, <3>1, FS_AddElement
  <2>7. D \in Seq(SpotClusters)
    <3>1. D \in [1..len -> SpotClusters]
      <4>1. \A j \in DOMAIN C : D[j] \in SpotClusters
        BY <1>1, <2>4, <2>5
      <4>2. D = [j \in 1..len |-> D[j]]
        BY <1>1, <2>3
      <4> HIDE DEF D
      <4> QED BY <1>1, <4>1, <4>2
    <3> HIDE DEF D, len
    <3> QED BY <1>1, <3>1
  <2> HIDE DEF grown, D
  <2>8. \A j \in DOMAIN D : D[j].ids \subseteq X \cup {x} /\ IsFiniteSet(D[j].ids) /\ Cardinality(D[j].ids) = D[j].count
    <3>1. \A j \in DOMAIN D : j = b \/ j \in DOMAIN C \ {b}
      BY <2>4
    <3>2. grown.ids \subseteq X \cup {x}
      BY <1>1, <2>5
    <3> QED BY <1>1, <2>4, <2>6, <3>1, <3>2
  <2>9. ASSUME NEW j \in DOMAIN C \ {b}
        PROVE  grown.ids \cap C[j].ids = {} /\ grown.sum * C[j].count # C[j].sum * grown.count
    <3>1. x \notin C[j].ids /\ C[b].ids \cap C[j].ids = {} /\ C[b].sum * C[j].count # C[j].sum * C[b].count
      BY <1>1, <1>2
    <3> DEFINE y == C[b].sum - at_ * C[b].count
               z == C[j].sum - at_ * C[j].count
    <3>2. /\ C[b].sum \in Int /\ C[b].count \in Nat \ {0} /\ C[j].sum \in Int /\ C[j].count \in Nat \ {0}
          /\ C[b].sum * 1 = C[b].sum /\ C[j].sum * 1 = C[j].sum
      BY <1>1
    <3>3. Off(C[b], at_, 1) = (IF y < 0 THEN -y ELSE y) /\ Off(C[j], at_, 1) = (IF z < 0 THEN -z ELSE z)
      BY <3>2 DEF Off
    <3>4. (IF y < 0 THEN -y ELSE y) * C[j].count <= (IF z < 0 THEN -z ELSE z) * C[b].count
      <4>1. Off(C[b], at_, 1) * C[j].count <= Off(C[j], at_, 1) * C[b].count
        BY <2>2 DEF NoFarther
      <4> HIDE DEF y, z
      <4> QED BY <3>3, <4>1
    <3>5. (C[b].sum + at_) * C[j].count # C[j].sum * (C[b].count + 1)
      <4>1. \A A \in Int, n \in Nat \ {0}, B \in Int, m \in Nat \ {0}, s \in Int :
               /\ A * m # B * n
               /\ (IF A - s * n < 0 THEN -(A - s * n) ELSE A - s * n) * m
                    <= (IF B - s * m < 0 THEN -(B - s * m) ELSE B - s * m) * n
               => (A + s) * m # B * (n + 1)
        BY ONLY CentroidsKeepApart
      <4> DEFINE A == C[b].sum  n == C[b].count  B == C[j].sum  m == C[j].count
      <4>2. A \in Int /\ n \in Nat \ {0} /\ B \in Int /\ m \in Nat \ {0} /\ at_ \in Int /\ A * m # B * n
        BY <1>3, <3>1, <3>2
      <4>3. (IF A - at_ * n < 0 THEN -(A - at_ * n) ELSE A - at_ * n) * m
              <= (IF B - at_ * m < 0 THEN -(B - at_ * m) ELSE B - at_ * m) * n
        BY ONLY <3>4
      <4>4. (A + at_) * m # B * (n + 1)
        <5> HIDE DEF A, n, B, m, at_
        <5> QED BY ONLY <4>1, <4>2, <4>3, Zenon
      <4> QED BY ONLY <4>4
    <3> QED BY <2>5, <3>1, <3>5
  <2>10. ASSUME NEW j \in DOMAIN D, NEW k \in DOMAIN D, j # k
         PROVE  D[j].ids \cap D[k].ids = {} /\ D[j].sum * D[k].count # D[k].sum * D[j].count
    <3>1. CASE j = b
      <4>1. k \in DOMAIN C \ {b} /\ D[j] = grown /\ D[k] = C[k]
        BY <2>4, <2>10, <3>1
      <4> QED BY <2>9, <4>1
    <3>2. CASE k = b
      <4>1. j \in DOMAIN C \ {b} /\ D[k] = grown /\ D[j] = C[j]
        BY <2>4, <2>10, <3>2
      <4>2. grown.ids \cap C[j].ids = {} /\ grown.sum * C[j].count # C[j].sum * grown.count
        BY <2>9, <4>1
      <4> QED BY <4>1, <4>2
    <3>3. CASE j # b /\ k # b
      BY <1>2, <2>4, <2>10, <3>3
    <3> QED BY <3>1, <3>2, <3>3
  <2> QED BY <2>7, <2>8, <2>10 DEF SpotsApart, D
<1> QED BY <1>4, <1>5

\* There is a run of the loop over any list of photos, by the least length without one.
LEMMA LoopRuns ==
    ASSUME NEW n \in Nat, NEW O
    PROVE  \E f : f = [i \in 0..n |-> IF i = 0 THEN <<>> ELSE Assigned(f[i - 1], O[i])]
<1> DEFINE Runs(k) == \E f : f = [i \in 0..k |-> IF i = 0 THEN <<>> ELSE Assigned(f[i - 1], O[i])]
           bad == {k \in Nat : ~Runs(k)}
<1>1. SUFFICES ASSUME bad # {} PROVE FALSE
  OBVIOUS
<1>2. PICK k \in bad : \A j \in bad : k <= j
  <2>1. bad \in SUBSET Nat
    OBVIOUS
  <2> HIDE DEF bad
  <2> QED BY <1>1, <2>1, Least
<1>3. k \in Nat /\ ~Runs(k)
  OBVIOUS
<1>4. k # 0
  <2>1. ASSUME k = 0 PROVE Runs(k)
    <3> DEFINE f == [i \in 0..k |-> <<>>]
    <3>1. \A i \in 0..k : i = 0
      BY <2>1
    <3>2. f = [i \in 0..k |-> IF i = 0 THEN <<>> ELSE Assigned(f[i - 1], O[i])]
      BY <3>1
    <3> HIDE DEF f
    <3> QED BY <3>2
  <2> HIDE DEF Runs
  <2> QED BY <1>3, <2>1
<1>5. Runs(k - 1)
  <2>1. k - 1 \in Nat /\ ~(k <= k - 1)
    BY <1>3, <1>4
  <2>2. k - 1 \notin bad
    <3> HIDE DEF bad
    <3> QED BY <1>2, <2>1
  <2> QED BY <2>1, <2>2
<1>6. PICK g : g = [i \in 0..(k - 1) |-> IF i = 0 THEN <<>> ELSE Assigned(g[i - 1], O[i])]
  BY <1>5
<1> DEFINE f == [i \in 0..k |-> IF i = k THEN Assigned(g[k - 1], O[k]) ELSE g[i]]
<1>7. ASSUME NEW i \in 0..k PROVE f[i] = IF i = 0 THEN <<>> ELSE Assigned(f[i - 1], O[i])
  <2>1. CASE i = k
    <3>1. i # 0 /\ f[i] = Assigned(g[k - 1], O[i]) /\ k - 1 \in 0..k /\ k - 1 # k
      BY <1>3, <1>4, <2>1
    <3>2. f[k - 1] = g[k - 1]
      BY <3>1
    <3> HIDE DEF f
    <3> QED BY <2>1, <3>1, <3>2
  <2>2. CASE i # k
    <3>1. i \in 0..(k - 1) /\ f[i] = g[i]
      BY <1>3, <1>4, <2>2
    <3>2. g[i] = IF i = 0 THEN <<>> ELSE Assigned(g[i - 1], O[i])
      BY <1>6, <3>1
    <3>3. i # 0 => i - 1 \in 0..k /\ i - 1 # k
      BY <1>3, <2>2
    <3>4. i # 0 => f[i - 1] = g[i - 1]
      BY <3>3
    <3> HIDE DEF f
    <3> QED BY <3>1, <3>2, <3>4
  <2> QED BY <2>1, <2>2
<1>8. f = [i \in 0..k |-> IF i = 0 THEN <<>> ELSE Assigned(f[i - 1], O[i])]
  <2>1. f = [i \in 0..k |-> f[i]]
    OBVIOUS
  <2> HIDE DEF f
  <2> QED BY <1>7, <2>1
<1> HIDE DEF f
<1> QED BY <1>3, <1>8

\* The clusters of a town keep apart.
LEMMA TownKeepsApart ==
    ASSUME PlacesTyped, NEW c \in Towns
    PROVE  SpotsApart(clusterCity(c), In(c))
<1> DEFINE S == In(c)
           n == Cardinality(S)
           O == NewestFirst(S)
<1>1. /\ snaps \in Atlases \cup {<<>>} /\ S \in SUBSET DOMAIN snaps
      /\ \A x \in DOMAIN snaps : snaps[x].at \in Int
  BY AtlasesFit DEF PlacesTyped, In
<1>2. /\ IsFiniteSet(S) /\ n \in Nat /\ S \subseteq Nat
      /\ \A i \in 1..n : O[i] \in S
      /\ \A i, j \in 1..n : O[i] = O[j] => i = j
  <2> HIDE DEF S
  <2> QED BY <1>1, PhotosInOrder
<1>3. PICK f : f = [i \in 0..n |-> IF i = 0 THEN <<>> ELSE Assigned(f[i - 1], O[i])] /\ clusterCity(c) = f[n]
  <2> DEFINE a == CHOOSE f : f = [i \in 0..n |-> IF i = 0 THEN <<>> ELSE Assigned(f[i - 1], O[i])]
  <2>1. clusterCity(c) = a[n]
    BY DEF clusterCity
  <2>2. \E f : f = [i \in 0..n |-> IF i = 0 THEN <<>> ELSE Assigned(f[i - 1], O[i])]
    BY ONLY <1>2, LoopRuns
  <2> HIDE DEF S, n, O
  <2>3. a = [i \in 0..n |-> IF i = 0 THEN <<>> ELSE Assigned(a[i - 1], O[i])]
    BY <2>2
  <2> HIDE DEF a
  <2> QED BY <2>1, <2>3
<1> DEFINE X(i) == {O[j] : j \in 1..i}
           bad == {i \in 0..n : ~SpotsApart(f[i], X(i))}
<1> HIDE DEF n, O, S
<1>4. bad = {}
  <2>1. SUFFICES ASSUME bad # {} PROVE FALSE
    OBVIOUS
  <2>2. PICK i \in bad : \A j \in bad : i <= j
    <3>1. bad \in SUBSET Nat
      BY <1>2
    <3> HIDE DEF bad
    <3> QED BY <2>1, <3>1, Least
  <2>3. i \in 0..n /\ ~SpotsApart(f[i], X(i)) /\ i \in Nat
    BY <1>2
  <2>4. CASE i = 0
    <3>1. f[i] = <<>>
      BY <1>3, <2>3, <2>4
    <3>2. SpotsApart(<<>>, X(i))
      <4>1. <<>> \in Seq(SpotClusters) /\ DOMAIN <<>> = {}
        OBVIOUS
      <4> QED BY <4>1 DEF SpotsApart
    <3> QED BY <2>3, <3>1, <3>2
  <2>5. CASE i # 0
    <3>1. i - 1 \in 0..n /\ ~(i <= i - 1) /\ i \in 1..n
      BY <1>2, <2>3, <2>5
    <3>2. SpotsApart(f[i - 1], X(i - 1))
      <4>1. i - 1 \notin bad
        <5> HIDE DEF bad
        <5> QED BY <2>2, <3>1
      <4> QED BY <3>1, <4>1
    <3>3. f[i] = Assigned(f[i - 1], O[i])
      BY <1>3, <2>3, <2>5
    <3>4. \A j \in 1..i : j \in 1..n
      BY <1>2, <2>3
    <3>5. X(i) = X(i - 1) \cup {O[i]}
      <4>1. \A j \in 1..i : j = i \/ j \in 1..(i - 1)
        BY <2>3
      <4>2. \A j \in 1..(i - 1) : j \in 1..i
        BY <2>3
      <4> QED BY <3>1, <4>1, <4>2
    <3>6. O[i] \in Nat /\ X(i - 1) \in SUBSET Nat /\ O[i] \notin X(i - 1) /\ O[i] \in DOMAIN snaps
      <4>1. \A j \in 1..(i - 1) : j \in 1..n /\ j # i
        BY <1>2, <2>3
      <4>2. O[i] \in S /\ \A j \in 1..(i - 1) : O[j] \in S /\ O[j] # O[i]
        BY <1>2, <3>1, <4>1
      <4> QED BY <1>1, <1>2, <4>2
    <3>7. snaps[O[i]].at \in Int
      BY <1>1, <3>6
    <3>8. SpotsApart(Assigned(f[i - 1], O[i]), X(i - 1) \cup {O[i]})
      <4> HIDE DEF X
      <4> QED BY <3>2, <3>6, <3>7, PhotoIsAssigned
    <3> HIDE DEF X
    <3> QED BY <2>3, <3>3, <3>5, <3>8
  <2> QED BY <2>4, <2>5
<1>5. SpotsApart(f[n], X(n))
  <2>1. n \in 0..n
    BY <1>2
  <2> QED BY <1>4, <2>1
<1>6. X(n) \subseteq S
  BY <1>2
<1> HIDE DEF X
<1>7. SpotsApart(clusterCity(c), S)
  BY <1>3, <1>5, <1>6 DEF SpotsApart
<1> QED BY <1>7 DEF S

\* A cluster is the nearest one to its own centroid, and no other is.
LEMMA CentroidFindsItsOwn ==
    ASSUME NEW C, NEW X, SpotsApart(C, X), NEW i \in DOMAIN C
    PROVE  Nearest(C, C[i].sum, C[i].count) = {i}
<1> DEFINE s == C[i].sum
           n == C[i].count
<1>1. C \in Seq(SpotClusters) /\ \A j \in DOMAIN C : C[j] \in SpotClusters
  BY DEF SpotsApart
<1>2. \A k \in SpotClusters : k.count \in Nat \ {0} /\ k.sum \in Int
  BY DEF SpotClusters
<1>3. s \in Int /\ n \in Nat \ {0}
  BY <1>1, <1>2
<1>4. Off(C[i], s, n) = 0
  <2>1. s * n - s * n = 0
    <3>1. s * n \in Int
      BY <1>3
    <3> HIDE DEF s, n
    <3> QED BY <3>1
  <2> QED BY <2>1 DEF Off
<1>5. WithinRadius(C[i], s, n)
  <2>1. SpotRadius * n * C[i].count >= 0
    <3>1. SpotRadius \in Nat /\ n \in Nat /\ C[i].count \in Nat
      BY <1>3, PlaceSizes
    <3> QED BY <3>1
  <2> QED BY <1>4, <2>1 DEF WithinRadius
<1> HIDE DEF s, n
<1>6. PICK b \in DOMAIN C : Nearest(C, s, n) = {b}
  BY <1>1, <1>3, <1>5, NearestIsThere
<1>7. \A j \in DOMAIN C \ {b} : NoFarther(C[b], C[j], s, n)
  BY <1>1, <1>3, <1>6, NearestIsThere
<1>8. ASSUME b # i PROVE FALSE
  <2>1. Off(C[b], s, n) * C[i].count <= Off(C[i], s, n) * C[b].count
    BY <1>7, <1>8 DEF NoFarther
  <2>2. C[b].sum * C[i].count # C[i].sum * C[b].count
    BY <1>8 DEF SpotsApart
  <2>3. C[b].sum * n # s * C[b].count
    BY <2>2 DEF s, n
  <2>4. C[b].sum \in Int /\ C[b].count \in Nat \ {0} /\ C[i].count \in Nat \ {0}
    BY <1>1, <1>2
  <2> DEFINE d == C[b].sum * n - s * C[b].count
  <2>5. d \in Int /\ d # 0
    <3>1. C[b].sum * n \in Int /\ s * C[b].count \in Int
      BY <1>3, <2>4
    <3> QED BY <2>3, <3>1
  <2> HIDE DEF d
  <2>6. Off(C[b], s, n) = IF d < 0 THEN -d ELSE d
    BY DEF Off, d
  <2>7. Off(C[b], s, n) \in Nat \ {0}
    BY <2>5, <2>6
  <2>8. Off(C[i], s, n) * C[b].count = 0
    BY <1>4, <2>4
  <2>9. Off(C[b], s, n) * C[i].count > 0
    BY <2>4, <2>7
  <2>10. Off(C[b], s, n) * C[i].count \in Int
    BY <2>4, <2>7
  <2> QED BY <2>1, <2>8, <2>9, <2>10
<1> QED BY <1>6, <1>8 DEF s, n

\* Of some clusters one is the largest, the earlier one on a tie.
LEMMA LargestIsThere ==
    ASSUME NEW C \in Seq(SpotClusters), NEW T \in SUBSET DOMAIN C, T # {}
    PROVE  \E b \in T : {j \in T : \A m \in T : C[j].count > C[m].count \/ (C[j].count = C[m].count /\ j <= m)} = {b}
<1> DEFINE Size == [j \in T |-> C[j].count]
           R == {p \in T \X T : Size[p[1]] > Size[p[2]] \/ (Size[p[1]] = Size[p[2]] /\ p[1] < p[2])}
<1>1. /\ IsFiniteSet(T)
      /\ \A j \in T : Size[j] \in Nat /\ j \in Nat /\ Size[j] = C[j].count
  <2>1. DOMAIN C = 1..Len(C) /\ Len(C) \in Nat /\ \A j \in T : C[j] \in SpotClusters /\ j \in Nat
    OBVIOUS
  <2>2. \A k \in SpotClusters : k.count \in Nat
    BY DEF SpotClusters
  <2>3. IsFiniteSet(1..Len(C))
    BY <2>1, FS_Interval
  <2> QED BY <2>1, <2>2, <2>3, FS_Subset
<1>2. \A x, y \in T : <<x, y>> \in R <=> Size[x] > Size[y] \/ (Size[x] = Size[y] /\ x < y)
  OBVIOUS
<1> HIDE DEF Size, R
<1>3. \A x \in T : <<x, x>> \notin R
  BY <1>1, <1>2
<1>4. ASSUME NEW x \in T, NEW y \in T PROVE x = y \/ <<x, y>> \in R \/ <<y, x>> \in R
  <2>1. Size[x] \in Nat /\ Size[y] \in Nat /\ x \in Nat /\ y \in Nat
    BY <1>1
  <2>2. x = y \/ (Size[x] > Size[y] \/ (Size[x] = Size[y] /\ x < y)) \/ (Size[y] > Size[x] \/ (Size[y] = Size[x] /\ y < x))
    BY <2>1
  <2> QED BY <1>2, <2>2
<1>5. ASSUME NEW x \in T, NEW y \in T, NEW z \in T, <<x, y>> \in R, <<y, z>> \in R PROVE <<x, z>> \in R
  <2>1. Size[x] \in Nat /\ Size[y] \in Nat /\ Size[z] \in Nat /\ x \in Nat /\ y \in Nat /\ z \in Nat
    BY <1>1
  <2>2. (Size[x] > Size[y] \/ (Size[x] = Size[y] /\ x < y)) /\ (Size[y] > Size[z] \/ (Size[y] = Size[z] /\ y < z))
    BY <1>2, <1>5
  <2>3. Size[x] > Size[z] \/ (Size[x] = Size[z] /\ x < z)
    BY <2>1, <2>2
  <2> QED BY <1>2, <2>3
<1>6. PICK b \in T : \A y \in T \ {b} : <<b, y>> \in R
  <2>1. Ordered(T, R)
    BY <1>1, <1>3, <1>4, <1>5 DEF Ordered
  <2> QED BY <2>1, FirstInOrder
<1> DEFINE L == {j \in T : \A m \in T : Size[j] > Size[m] \/ (Size[j] = Size[m] /\ j <= m)}
<1>7. b \in L
  <2>1. SUFFICES ASSUME NEW m \in T PROVE Size[b] > Size[m] \/ (Size[b] = Size[m] /\ b <= m)
    OBVIOUS
  <2>2. Size[b] \in Nat /\ Size[m] \in Nat /\ b \in Nat /\ m \in Nat
    BY <1>1
  <2>3. m = b \/ Size[b] > Size[m] \/ (Size[b] = Size[m] /\ b < m)
    BY <1>2, <1>6
  <2> QED BY <2>2, <2>3
<1>8. ASSUME NEW j \in L PROVE j = b
  <2>1. j \in T /\ (Size[j] > Size[b] \/ (Size[j] = Size[b] /\ j <= b)) /\ (Size[b] > Size[j] \/ (Size[b] = Size[j] /\ b <= j))
    BY <1>7
  <2>2. Size[b] \in Nat /\ Size[j] \in Nat /\ b \in Nat /\ j \in Nat
    BY <1>1, <2>1
  <2> QED BY <2>1, <2>2
<1>9. L = {j \in T : \A m \in T : C[j].count > C[m].count \/ (C[j].count = C[m].count /\ j <= m)}
  BY <1>1
<1> HIDE DEF L
<1> QED BY <1>7, <1>8, <1>9

\* What the library shows of a spot is what the dialog showed.
LEMMA SpotsFit == ASSUME PlacesTyped PROVE SpotsArePinned
<1>1. SUFFICES ASSUME NEW c \in Towns, NEW shown \in spots(c), NEW i \in shown
      PROVE  LET all == clusterCity(c)  s == all[i]  key == spotKeyForCentroid(c, s)
                 alike == {j \in shown : spotKeyForCentroid(c, all[j]) = key}
             IN /\ SpotMemberIDsAt(c, s.sum, s.count) = s.ids /\ Cardinality(s.ids) = s.count
                /\ \E j \in alike : /\ Cardinality(SpotMemberIDs(key)) = all[j].count
                                    /\ \A m \in alike : all[m].count <= all[j].count
                /\ \A j \in shown \ {i} : s.ids \cap all[j].ids = {}
  BY DEF SpotsArePinned
<1> DEFINE C == clusterCity(c)
           K == [j \in DOMAIN C |-> spotKeyForCentroid(c, C[j])]
           key == spotKeyForCentroid(c, C[i])
           T == {j \in DOMAIN C : K[j] = key}
           large == {j \in DOMAIN C : C[j].count >= SpotMin}
           largest == {j \in T : \A m \in T : C[j].count > C[m].count \/ (C[j].count = C[m].count /\ j <= m)}
<1>2. SpotsApart(C, In(c))
  BY TownKeepsApart
<1>3. /\ shown \in SUBSET large /\ i \in DOMAIN C /\ C[i].count >= SpotMin
      /\ \A k \in shown, j \in large \ shown : C[k].count >= C[j].count
  BY DEF spots
<1>4. /\ C \in Seq(SpotClusters)
      /\ \A j \in DOMAIN C : C[j].count \in Nat /\ Cardinality(C[j].ids) = C[j].count
      /\ \A j \in DOMAIN C \ {i} : C[i].ids \cap C[j].ids = {}
  <2>1. C \in Seq(SpotClusters)
    BY <1>2 DEF SpotsApart
  <2>2. \A k \in SpotClusters : k.count \in Nat
    BY DEF SpotClusters
  <2>3. \A j \in DOMAIN C : C[j] \in SpotClusters
    BY <2>1
  <2> HIDE DEF C
  <2> QED BY <1>2, <1>3, <2>1, <2>2, <2>3 DEF SpotsApart
<1>5. SpotMemberIDsAt(c, C[i].sum, C[i].count) = C[i].ids
  <2>1. SpotMemberIDsAt(c, C[i].sum, C[i].count) = UNION {C[j].ids : j \in Nearest(C, C[i].sum, C[i].count)}
    BY DEF SpotMemberIDsAt
  <2> HIDE DEF C
  <2>2. Nearest(C, C[i].sum, C[i].count) = {i}
    BY <1>2, <1>3, CentroidFindsItsOwn
  <2> QED BY <2>1, <2>2
<1>6. SpotMemberIDs(key) = UNION {C[j].ids : j \in largest}
  <2>1. key[1] = c
    BY DEF spotKeyForCentroid
  <2>2. T = {j \in DOMAIN C : spotKeyForCentroid(key[1], C[j]) = key}
    BY <2>1
  <2> HIDE DEF T, key, K
  <2> QED BY <2>1, <2>2 DEF SpotMemberIDs
<1>7. T \in SUBSET DOMAIN C /\ T # {} /\ i \in T
  BY <1>3
<1>8. \A j \in shown : j \in T <=> spotKeyForCentroid(c, C[j]) = key
  BY <1>3
<1> HIDE DEF C, T, K, key
<1>9. PICK b \in T : largest = {b}
  <2>1. C \in Seq(SpotClusters) /\ T \in SUBSET DOMAIN C /\ T # {}
    BY <1>4, <1>7
  <2> QED BY ONLY <2>1, LargestIsThere
<1>10. \A m \in T : C[b].count > C[m].count \/ (C[b].count = C[m].count /\ b <= m)
  BY <1>9
<1>11. Cardinality(SpotMemberIDs(key)) = C[b].count
  <2> HIDE DEF largest
  <2>1. SpotMemberIDs(key) = C[b].ids
    BY <1>6, <1>9
  <2> QED BY <1>4, <1>7, <2>1
<1>12. \A m \in T : C[m].count <= C[b].count
  BY <1>4, <1>7, <1>10
<1>13. \E j \in shown : j \in T /\ C[j].count = C[b].count
  <2>1. CASE b \in shown
    BY <2>1
  <2>2. CASE b \notin shown
    <3>1. C[b].count >= SpotMin /\ C[i].count <= C[b].count
      <4>1. SpotMin \in Nat /\ C[i].count \in Nat /\ C[b].count \in Nat /\ C[i].count <= C[b].count
        BY <1>3, <1>4, <1>7, <1>12, PlaceSizes
      <4> QED BY <1>3, <4>1
    <3>2. C[i].count >= C[b].count
      BY <1>3, <1>7, <2>2, <3>1
    <3>3. C[i].count = C[b].count
      BY <1>3, <1>4, <1>7, <3>1, <3>2
    <3> QED BY <1>7, <3>3
  <2> QED BY <2>1, <2>2
<1>14. PICK j \in shown : j \in T /\ C[j].count = C[b].count
  BY <1>13
<1>15. \A k \in shown \ {i} : C[i].ids \cap C[k].ids = {}
  BY <1>3, <1>4
<1>16. Cardinality(C[i].ids) = C[i].count
  BY <1>3, <1>4
<1>17. \E q \in {k \in shown : spotKeyForCentroid(c, C[k]) = key} :
         /\ Cardinality(SpotMemberIDs(key)) = C[q].count
         /\ \A m \in {k \in shown : spotKeyForCentroid(c, C[k]) = key} : C[m].count <= C[q].count
  BY <1>8, <1>11, <1>12, <1>14
<1> QED BY <1>5, <1>15, <1>16, <1>17 DEF C, key

-----------------------------------------------------------------------------
(* The pages of a search.                                                      *)

LEMMA CappedIs == ASSUME NEW n \in Nat PROVE Capped(n) = IF n <= MaxK THEN n ELSE MaxK
<1>1. MaxK \in Nat
  BY SearchSizes
<1>2. CASE n <= MaxK
  <2>1. \A x \in {n, MaxK} : (\A y \in {n, MaxK} : x <= y) => x = n
    BY <1>1, <1>2
  <2> QED BY <1>1, <1>2, <2>1 DEF Capped, Min
<1>3. CASE ~(n <= MaxK)
  <2>1. \A x \in {n, MaxK} : (\A y \in {n, MaxK} : x <= y) => x = MaxK
    BY <1>1, <1>3
  <2> QED BY <1>1, <1>3, <2>1 DEF Capped, Min
<1> QED BY <1>2, <1>3

LEMMA MarginsDouble ==
    /\ Slack \in Margins /\ Margins \subseteq 1..MaxK
    /\ \A s \in Margins : 2 * s <= MaxK => 2 * s \in Margins
<1>1. Slack \in 1..MaxK /\ MaxK \in Nat
  BY SearchSizes
<1>2. ASSUME NEW s \in Margins, 2 * s <= MaxK PROVE 2 * s \in Margins
  <2>1. s \in 1..MaxK /\ 2 * s \in 1..MaxK
    BY <1>1, <1>2 DEF Margins
  <2>2. ASSUME NEW D \in SUBSET (1..MaxK), Slack \in D, \A t \in D : 2 * t <= MaxK => 2 * t \in D PROVE 2 * s \in D
    <3>1. s \in D
      BY <2>2 DEF Margins
    <3> QED BY <1>2, <2>2, <3>1
  <2> QED BY <2>1, <2>2 DEF Margins
<1> QED BY <1>1, <1>2 DEF Margins

LEMMA RanksFinite ==
    ASSUME live \subseteq Ranks, NEW S \in SUBSET live PROVE IsFiniteSet(S) /\ S \subseteq Nat /\ Cardinality(S) \in Nat
<1>1. IsFiniteSet(Ranks) /\ Ranks \subseteq Nat
  <2>1. 1 \in Int /\ Vectors \in Int
    BY SearchSizes
  <2>2. IsFiniteSet(1..Vectors)
    BY <2>1, FS_Interval
  <2> QED BY <2>1, <2>2 DEF Ranks
<1>2. S \in SUBSET Ranks
  OBVIOUS
<1>3. IsFiniteSet(S)
  BY <1>1, <1>2, FS_Subset
<1> QED BY <1>1, <1>3, FS_CardinalityType

\* A fetch that holds a page's worth of hits holds the page: what lies beyond comes after it.
LEMMA FetchHoldsPage ==
    ASSUME live \subseteq Ranks, NEW k \in 0..MaxK, NEW from \in Nat, NEW need \in Nat, Cardinality(Filtered(k)) >= need
    PROVE  Slice(Filtered(k), from, need) = Slice(Hits, from, need)
<1> DEFINE F == Filtered(k)
           H == Hits
<1>1. H \subseteq live /\ F = {r \in H : r <= k} /\ \A r \in H : r \in Nat
  <2>1. live \subseteq Nat /\ MaxK \in Nat /\ k \in Nat /\ k <= MaxK
    BY SearchSizes, RanksFinite
  <2>2. \A r \in live : r \in Nat /\ (r <= k => r <= MaxK)
    BY <2>1
  <2> QED BY <2>2 DEF Filtered, Raw, Hits
<1>2. \A r \in F : Position(F, r) = Position(H, r)
  <2>1. SUFFICES ASSUME NEW r \in F PROVE Position(F, r) = Position(H, r)
    OBVIOUS
  <2>2. {q \in F : q < r} = {q \in H : q < r}
    BY <1>1
  <2> QED BY <2>2 DEF Position
<1>3. ASSUME NEW r \in H, r \notin F PROVE ~(Position(H, r) < need)
  <2> DEFINE ahead == {q \in H : q < r}
  <2>1. F \in SUBSET ahead /\ ahead \in SUBSET live
    BY <1>1, <1>3
  <2>2. IsFiniteSet(ahead) /\ Cardinality(ahead) \in Nat
    BY <2>1, RanksFinite
  <2>3. Cardinality(F) <= Cardinality(ahead) /\ Cardinality(F) \in Nat
    BY <2>1, <2>2, FS_Subset, FS_CardinalityType
  <2> HIDE DEF ahead
  <2>4. ~(Cardinality(ahead) < need)
    BY <2>2, <2>3
  <2> QED BY <2>4 DEF Position, ahead
<1> HIDE DEF F, H
<1>4. Slice(F, from, need) = Slice(H, from, need)
  BY <1>1, <1>2, <1>3 DEF Slice
<1> QED BY <1>4 DEF F, H

Page == [exact : SUBSET live, hits : SUBSET live, below : SUBSET live, size : Nat]
Split(page) == page.below \subseteq page.hits /\ page.below \cap page.exact = {}

\* What a fetch was asked for, and the count of the one before it.
FetchFits ==
    LET need == fetch.offset + Limit IN
    /\ fetch.offset = Len(pages) * Limit /\ fetch.k = Capped(need + fetch.slack)
    /\ fetch.slack \in Nat /\ (fetch.slack <= MaxK => fetch.slack \in Margins)
    /\ \/ fetch.prevRaw = -1
       \/ \E s \in Margins : fetch.slack = 2 * s /\ need + s < MaxK /\ fetch.prevRaw = Cardinality(Raw(need + s))

SearchTyped ==
    /\ live \subseteq Ranks /\ (live = {} \/ score \in ScoreSeqs)
    /\ fetch \in [on : BOOLEAN, offset : Nat, k : 0..MaxK, slack : Nat, prevRaw : Int]
    /\ pages \in Seq(Page) /\ \A p \in DOMAIN pages : Split(pages[p])

SearchInv ==
    /\ SearchTyped
    /\ fetch.on => FetchFits
    /\ pages # <<>> => pages[1].below = BelowCut(pages[1].hits)

LEMMA EnoughIsAll ==
    ASSUME SearchInv, live = {} \/ NoDeadRun, fetch.on, Enough
    PROVE  LET to == fetch.offset + Limit IN Slice(Filtered(fetch.k), fetch.offset, to) = Slice(Hits, fetch.offset, to)
<1> DEFINE need == fetch.offset + Limit
<1>1. /\ fetch.offset \in Nat /\ need \in Nat /\ fetch.k \in 0..MaxK /\ Limit \in Nat \ {0} /\ MaxK \in Nat /\ Vectors \in Nat
      /\ live \subseteq Ranks
  BY SearchSizes DEF SearchInv, SearchTyped
<1>2. \A r \in live : r \in Nat /\ r <= Vectors
  BY <1>1 DEF Ranks
<1>3. CASE Cardinality(Filtered(fetch.k)) >= need
  BY <1>1, <1>3, FetchHoldsPage
<1>4. CASE live \cap ((fetch.k + 1)..MaxK) = {}
  <2>1. Filtered(fetch.k) = Hits
    BY <1>1, <1>2, <1>4 DEF Filtered, Raw, Hits
  <2> QED BY <2>1
<1>5. ASSUME Cardinality(Raw(fetch.k)) = fetch.prevRaw, fetch.k < MaxK, live # {} PROVE live \cap ((fetch.k + 1)..MaxK) = {}
  <2>1. \A j \in Nat : Raw(j) \in SUBSET live /\ Cardinality(Raw(j)) \in Nat
    <3>1. \A j \in Nat : Raw(j) \in SUBSET live
      BY DEF Raw
    <3> QED BY <1>1, <3>1, RanksFinite
  <2>2. fetch.prevRaw # -1
    BY <1>1, <1>5, <2>1
  <2>3. PICK s \in Margins : fetch.slack = 2 * s /\ need + s < MaxK /\ fetch.prevRaw = Cardinality(Raw(need + s))
    BY <1>5, <2>2 DEF SearchInv, FetchFits
  <2>4. s \in Nat \ {0}
    BY <1>1, <2>3, MarginsDouble
  <2>5. fetch.k = Capped(need + 2 * s)
    BY <2>3 DEF SearchInv, FetchFits
  <2>6. fetch.k = need + 2 * s
    BY <1>1, <1>5, <2>4, <2>5, CappedIs
  <2>7. SUFFICES ASSUME fetch.k < Vectors PROVE FALSE
    BY <1>1, <1>2
  <2>8. PICK r \in live : need + s < r /\ r <= need + 2 * s
    <3> DEFINE page == Len(pages) + 1
    <3>1. Len(pages) \in Nat
      BY DEF SearchInv, SearchTyped
    <3>2. page * Limit = need
      BY <1>1, <3>1 DEF SearchInv, FetchFits
    <3>3. page \in 1..MaxK
      <4>1. page \in Nat \ {0} /\ page * Limit <= MaxK
        BY <1>1, <1>5, <2>4, <2>6, <3>1, <3>2
      <4>2. page <= page * Limit
        <5> HIDE DEF page
        <5> QED BY <1>1, <4>1
      <4> HIDE DEF page
      <4> QED BY <1>1, <4>1, <4>2
    <3>4. NoDeadRun
      BY <1>5
    <3> HIDE DEF need, page
    <3>5. need + 2 * s < MaxK /\ need + 2 * s < Vectors
      BY <1>5, <2>6, <2>7
    <3> QED BY <2>3, <3>2, <3>3, <3>4, <3>5 DEF NoDeadRun
  <2>9. r \in Raw(fetch.k) /\ r \notin Raw(need + s) /\ Raw(need + s) \subseteq Raw(fetch.k)
    BY <1>1, <1>2, <2>4, <2>6, <2>8 DEF Raw
  <2>10. IsFiniteSet(Raw(fetch.k)) /\ Raw(need + s) \in SUBSET Raw(fetch.k)
    BY <1>1, <2>1, <2>9, RanksFinite
  <2>11. Raw(fetch.k) = Raw(need + s)
    BY <1>5, <2>3, <2>10, FS_Subset
  <2> QED BY <2>9, <2>11
<1>6. fetch.k = MaxK \/ live = {} => live \cap ((fetch.k + 1)..MaxK) = {}
  BY <1>1, <1>2
<1>7. Cardinality(Filtered(fetch.k)) >= need \/ fetch.k >= MaxK \/ Cardinality(Raw(fetch.k)) = fetch.prevRaw
  BY DEF Enough
<1> QED BY <1>1, <1>3, <1>4, <1>5, <1>6, <1>7

LEMMA LeastOf == ASSUME NEW S \in SUBSET Nat, S # {} PROVE Min(S) \in S /\ \A r \in S : Min(S) <= r
<1>1. PICK m \in S : \A r \in S : m <= r
  BY Least
<1>2. \A x \in S : (\A y \in S : x <= y) => x = m
  BY <1>1
<1> QED BY <1>1, <1>2 DEF Min

LEMMA WidestFits ==
    ASSUME live \subseteq Ranks, score \in ScoreSeqs, NEW S \in SUBSET live, Steps(S) # {}
    PROVE  Widest(S) \in Steps(S) /\ \A q \in Steps(S) : Gap(S, q) <= Gap(S, Widest(S))
<1> DEFINE gap == [r \in Steps(S) |-> Gap(S, r)]
           T == Steps(S)
<1>1. T \subseteq S /\ IsFiniteSet(T) /\ T \subseteq Nat
  <2>1. T \in SUBSET live /\ T \subseteq S
    BY DEF Steps
  <2> QED BY <2>1, RanksFinite
<1>2. \A r \in T : gap[r] \in Int /\ gap[r] = Gap(S, r)
  <2>1. SUFFICES ASSUME NEW r \in T PROVE Gap(S, r) \in Int
    OBVIOUS
  <2> DEFINE later == {q \in S : q > r}
  <2>2. later # {} /\ later \in SUBSET Nat /\ later \subseteq S
    BY RanksFinite DEF Steps
  <2>3. Min(later) \in S
    BY <2>2, LeastOf
  <2>4. score[Min(later)] \in Nat /\ score[r] \in Nat
    BY <1>1, <2>3, ScoresFall DEF Ranks
  <2> HIDE DEF later
  <2>5. score[r] - score[Min(later)] \in Int
    BY <2>4
  <2> QED BY <2>5 DEF Gap, later
<1>3. Widest(S) = CHOOSE r \in T : \A q \in T : gap[r] > gap[q] \/ (gap[r] = gap[q] /\ r <= q)
  BY <1>2 DEF Widest
<1> HIDE DEF gap, T
<1>4. PICK m \in T : \A q \in T : gap[q] <= gap[m]
  BY <1>1, <1>2, GreatestOf DEF T
<1> DEFINE top == {r \in T : gap[r] = gap[m]}
<1>5. top \in SUBSET Nat /\ top # {}
  BY <1>1, <1>4
<1>6. PICK n \in top : \A q \in top : n <= q
  <2> HIDE DEF top
  <2> QED BY <1>5, Least
<1>7. n \in T /\ \A q \in T : gap[n] > gap[q] \/ (gap[n] = gap[q] /\ n <= q)
  <2>1. n \in T /\ gap[n] = gap[m]
    BY <1>6
  <2>2. ASSUME NEW q \in T PROVE gap[n] > gap[q] \/ (gap[n] = gap[q] /\ n <= q)
    <3>1. gap[q] <= gap[m] /\ gap[q] \in Int /\ gap[m] \in Int
      BY <1>2, <1>4
    <3>2. gap[q] = gap[m] => n <= q
      BY <1>6
    <3> QED BY <2>1, <3>1, <3>2
  <2> QED BY <2>1, <2>2
<1>8. Widest(S) \in T /\ \A q \in T : gap[Widest(S)] > gap[q] \/ (gap[Widest(S)] = gap[q] /\ Widest(S) <= q)
  BY <1>3, <1>7
<1>9. \A q \in T : gap[q] <= gap[Widest(S)]
  BY <1>2, <1>8
<1> QED BY <1>2, <1>8, <1>9 DEF T

\* The cut leaves the hits that rank before it, at least one, and falls at the widest gap
\* or at the share of the top score.
LEMMA CutFits ==
    ASSUME live \subseteq Ranks, live = {} \/ score \in ScoreSeqs, NEW S \in SUBSET live
    PROVE  LET below == BelowCut(S)  shown == S \ below IN
           /\ S # {} => shown # {}
           /\ \A r \in shown, q \in below : r < q
           /\ below # {} =>
                \/ \E r \in shown : /\ \A q \in shown : q <= r
                                    /\ \A q \in Steps(S) : Gap(S, q) <= Gap(S, r)
                \/ \A r \in S : r \in shown <=> r = Min(S) \/ 100 * score[r] >= Alpha * score[Min(S)]
<1> DEFINE best == semanticCutIndex(S)
<1>1. best \subseteq S /\ BelowCut(S) = S \ best /\ S \ BelowCut(S) = best
  BY DEF semanticCutIndex, BelowCut
<1>2. IsFiniteSet(S) /\ S \in SUBSET Nat /\ \A r \in S : r \in Nat
  BY RanksFinite
<1>3. SUFFICES /\ S # {} => best # {}
               /\ \A r \in best, q \in S \ best : r < q
               /\ S \ best # {} =>
                    \/ \E r \in best : /\ \A q \in best : q <= r
                                       /\ \A q \in Steps(S) : Gap(S, q) <= Gap(S, r)
                    \/ \A r \in S : r \in best <=> r = Min(S) \/ 100 * score[r] >= Alpha * score[Min(S)]
  <2> HIDE DEF best
  <2> QED BY <1>1
<1>4. CASE best = S
  BY <1>4
<1>5. CASE best # S
  <2>1. ~(Cardinality(S) < 3)
    BY <1>5 DEF semanticCutIndex
  <2>2. S # {} /\ score \in ScoreSeqs
    BY <1>1, <1>5
  <2>3. Min(S) \in S /\ Min(S) \in Nat /\ \A r \in S : Min(S) <= r
    BY <1>2, <2>2, LeastOf
  <2>4. CASE Significant(S)
    <3>1. best = {r \in S : r <= Widest(S)}
      BY <2>1, <2>4 DEF semanticCutIndex
    <3>2. Steps(S) # {}
      <4>1. SUFFICES ASSUME \A q \in S : ~(q > Min(S)) PROVE FALSE
        BY <2>3 DEF Steps
      <4>2. \A q \in S : q = Min(S)
        BY <1>2, <2>3, <4>1
      <4>3. S = {Min(S)}
        BY <2>3, <4>2
      <4>4. Cardinality(S) = 1
        BY <4>3, FS_Singleton
      <4> QED BY <2>1, <4>4
    <3>3. Widest(S) \in Steps(S) /\ \A q \in Steps(S) : Gap(S, q) <= Gap(S, Widest(S))
      BY <2>2, <3>2, WidestFits
    <3>4. Widest(S) \in S /\ Widest(S) \in Nat
      BY <1>2, <3>3 DEF Steps
    <3> HIDE DEF best
    <3>5. Widest(S) \in best /\ \A q \in best : q <= Widest(S)
      BY <1>2, <3>1, <3>4
    <3>6. \A r \in best, q \in S \ best : r < q
      BY <1>2, <3>1, <3>4
    <3> QED BY <3>3, <3>5, <3>6
  <2>5. CASE ~Significant(S)
    <3> DEFINE share == Alpha * score[Min(S)]
               p == [r \in S |-> 100 * score[r]]
    <3>1. \A r \in S : score[r] \in Nat /\ \A q \in S : q <= r => score[q] >= score[r]
      BY <2>2, ScoresFall DEF Ranks
    <3>2. share \in Nat
      <4>1. Alpha \in Nat /\ score[Min(S)] \in Nat
        BY <2>3, <3>1, SearchSizes
      <4> QED BY <4>1
    <3>3. \A r \in S : p[r] = 100 * score[r] /\ p[r] \in Nat /\ \A q \in S : q <= r => p[q] >= p[r]
      BY <3>1
    <3>4. best = {r \in S : \A q \in S : q <= r /\ q # Min(S) => p[q] >= share}
      BY <2>1, <2>5, <3>3 DEF semanticCutIndex, Relevant
    <3> HIDE DEF best, share, p
    <3>5. Min(S) \in best
      BY <1>2, <2>3, <3>4
    <3>6. ASSUME NEW r \in best, NEW q \in S, q \notin best PROVE r < q
      <4>1. PICK u \in S : u <= q /\ u # Min(S) /\ ~(p[u] >= share)
        BY <3>4, <3>6
      <4>2. ~(u <= r)
        BY <3>4, <3>6, <4>1
      <4>3. r \in Nat /\ q \in Nat /\ u \in Nat
        BY <1>1, <1>2, <3>6, <4>1
      <4> QED BY <4>1, <4>2, <4>3
    <3>7. ASSUME NEW r \in S PROVE r \in best <=> r = Min(S) \/ p[r] >= share
      <4>1. r \in Nat /\ r <= r
        BY <1>2
      <4>2. ASSUME p[r] >= share PROVE r \in best
        <5>1. ASSUME NEW q \in S, q <= r PROVE p[q] >= share
          <6>1. p[q] >= p[r] /\ p[q] \in Nat /\ p[r] \in Nat
            BY <3>3, <5>1
          <6> QED BY <3>2, <4>2, <6>1
        <5> QED BY <3>4, <5>1
      <4>3. r \in best /\ r # Min(S) => p[r] >= share
        BY <3>4, <4>1
      <4> QED BY <3>5, <4>2, <4>3
    <3> QED BY <3>3, <3>5, <3>6, <3>7 DEF share
  <2> QED BY <2>4, <2>5
<1> QED BY <1>4, <1>5

LEMMA CutKept ==
    ASSUME UNCHANGED score, NEW CONSTANT S PROVE BelowCut(S)' = BelowCut(S)
BY DEF BelowCut, semanticCutIndex, Significant, Relevant, Widest, Gap, Steps

\* Where the search is not the component that runs nothing is found.
LEMMA SearchStart == ASSUME SeInit \/ (live = {} /\ fetch = NoFetch /\ pages = <<>>) PROVE SearchInv
<1>1. live \subseteq Ranks /\ (live = {} \/ score \in ScoreSeqs) /\ fetch = NoFetch /\ pages = <<>>
  BY DEF SeInit
<1>2. NoFetch \in [on : BOOLEAN, offset : Nat, k : 0..MaxK, slack : Nat, prevRaw : Int] /\ ~NoFetch.on
  BY SearchSizes DEF NoFetch
<1>3. pages \in Seq(Page) /\ DOMAIN pages = {}
  BY <1>1
<1> QED BY <1>1, <1>2, <1>3 DEF SearchInv, SearchTyped

LEMMA AnswerOf ==
    ASSUME SearchInv, SearchAnswers
    PROVE  LET slice == Slice(Filtered(fetch.k), fetch.offset, fetch.offset + Limit) IN
           \E page \in Page : /\ pages' = Append(pages, page) /\ Split(page)
                              /\ page.hits = slice \ page.exact
                              /\ page.exact \subseteq (IF fetch.offset = 0 THEN text ELSE {})
                              /\ fetch.offset = 0 => page.below = BelowCut(page.hits)
<1> DEFINE slice == Slice(Filtered(fetch.k), fetch.offset, fetch.offset + Limit)
<1>1. live \subseteq Ranks /\ slice \in SUBSET live
  BY DEF SearchInv, SearchTyped, Slice, Filtered, Raw
<1>2. Cardinality(slice) \in Nat
  BY <1>1, RanksFinite
<1>3. CASE fetch.offset = 0
  <2>1. PICK ocr \in ocrSearch :
          pages' = Append(pages, [exact |-> ocr, hits |-> slice \ ocr, below |-> BelowCut(slice \ ocr), size |-> Cardinality(slice)])
    BY <1>3 DEF SearchAnswers, mergeOCRFirst
  <2>2. ocr \subseteq live /\ ocr \subseteq text
    BY DEF ocrSearch
  <2> DEFINE found == slice \ ocr
             below == BelowCut(found)
             size == Cardinality(slice)
             page == [exact |-> ocr, hits |-> found, below |-> below, size |-> size]
  <2>3. below \subseteq found /\ found \in SUBSET live /\ found \cap ocr = {} /\ size \in Nat
    BY <1>1, <1>2 DEF BelowCut
  <2>4. pages' = Append(pages, page) /\ found = slice \ ocr /\ below = BelowCut(found)
    BY <2>1
  <2> HIDE DEF below, found, size, slice
  <2>5. page \in Page /\ page.exact = ocr /\ page.hits = found /\ page.below = below
    BY <2>2, <2>3 DEF Page
  <2>6. Split(page)
    BY <2>3, <2>5 DEF Split
  <2> QED BY <1>3, <2>2, <2>4, <2>5, <2>6 DEF slice
<1>4. CASE fetch.offset # 0
  <2> DEFINE size == Cardinality(slice)
             page == [exact |-> {}, hits |-> slice, below |-> slice, size |-> size]
  <2>1. pages' = Append(pages, page) /\ size \in Nat
    BY <1>2, <1>4 DEF SearchAnswers
  <2> HIDE DEF size, slice
  <2>2. page \in Page /\ page.exact = {} /\ page.hits = slice /\ page.below = slice
    BY <1>1, <2>1 DEF Page
  <2>3. Split(page) /\ slice = slice \ {}
    BY <2>2 DEF Split
  <2> QED BY <1>4, <2>1, <2>2, <2>3 DEF slice
<1> QED BY <1>3, <1>4

LEMMA SearchSteps == ASSUME SearchInv, [SeNext]_seVars PROVE SearchInv'
<1>1. CASE UNCHANGED seVars
  <2>1. UNCHANGED <<live, clear, text, score, fetch, pages>>
    BY <1>1 DEF seVars
  <2>2. \A S : BelowCut(S)' = BelowCut(S)
    BY <2>1, CutKept
  <2> QED BY <2>1, <2>2 DEF SearchInv, SearchTyped, FetchFits, Raw, Page, Split
<1>2. CASE SearchStarts
  <2> DEFINE need == (Len(pages) + 1) * Limit
             next == [on |-> TRUE, offset |-> Len(pages) * Limit, k |-> Capped(need + Slack), slack |-> Slack, prevRaw |-> -1]
  <2>1. fetch' = next /\ UNCHANGED <<live, clear, text, score, pages>>
    BY <1>2 DEF SearchStarts
  <2>2. Len(pages) \in Nat /\ Limit \in Nat /\ Slack \in Nat /\ MaxK \in Nat
    BY SearchSizes DEF SearchInv, SearchTyped
  <2>3. Len(pages) * Limit \in Nat /\ need = Len(pages) * Limit + Limit
    BY <2>2
  <2>4. Capped(need + Slack) \in 0..MaxK
    BY <2>2, <2>3, CappedIs
  <2>5. \A S : BelowCut(S)' = BelowCut(S)
    BY <2>1, CutKept
  <2>6. /\ next \in [on : BOOLEAN, offset : Nat, k : 0..MaxK, slack : Nat, prevRaw : Int]
        /\ next.offset = Len(pages) * Limit /\ next.k = Capped(Len(pages) * Limit + Limit + Slack)
        /\ next.slack = Slack /\ next.prevRaw = -1
    BY <2>2, <2>3, <2>4
  <2> HIDE DEF next
  <2>7. FetchFits'
    BY <2>1, <2>2, <2>6, MarginsDouble DEF FetchFits
  <2> QED BY <2>1, <2>5, <2>6, <2>7 DEF SearchInv, SearchTyped, Page, Split
<1>3. CASE SearchWidens
  <2> DEFINE need == fetch.offset + Limit
  <2>1. /\ UNCHANGED <<live, clear, text, score, pages>> /\ fetch.on /\ ~Enough
        /\ fetch' = [fetch EXCEPT !.prevRaw = Cardinality(Raw(fetch.k)), !.slack = 2 * @,
                                  !.k = Capped(need + 2 * fetch.slack)]
    BY <1>3 DEF SearchWidens
  <2>2. /\ need \in Nat /\ Limit \in Nat /\ MaxK \in Nat /\ FetchFits /\ fetch.slack \in Nat
        /\ fetch \in [on : BOOLEAN, offset : Nat, k : 0..MaxK, slack : Nat, prevRaw : Int]
    BY <2>1, SearchSizes DEF SearchInv, SearchTyped
  <2>3. Capped(need + 2 * fetch.slack) \in 0..MaxK
    BY <2>2, CappedIs
  <2>4. Raw(fetch.k) \in SUBSET live /\ live \subseteq Ranks
    BY DEF Raw, SearchInv, SearchTyped
  <2>5. Cardinality(Raw(fetch.k)) \in Nat
    BY <2>4, RanksFinite
  <2> DEFINE wide == Capped(need + 2 * fetch.slack)
             count == Cardinality(Raw(fetch.k))
  <2>6. /\ fetch' \in [on : BOOLEAN, offset : Nat, k : 0..MaxK, slack : Nat, prevRaw : Int]
        /\ fetch'.offset = fetch.offset /\ fetch'.slack = 2 * fetch.slack /\ fetch'.k = wide
        /\ fetch'.prevRaw = count
    <3> DEFINE twice == 2 * fetch.slack
    <3>1. fetch' = [fetch EXCEPT !.prevRaw = count, !.slack = twice, !.k = wide] /\ wide \in 0..MaxK /\ count \in Int /\ twice \in Nat
      BY <2>1, <2>2, <2>3, <2>5
    <3>2. fetch \in [on : BOOLEAN, offset : Nat, k : 0..MaxK, slack : Nat, prevRaw : Int]
      BY <2>2
    <3> HIDE DEF wide, count, twice
    <3>3. /\ fetch' \in [on : BOOLEAN, offset : Nat, k : 0..MaxK, slack : Nat, prevRaw : Int]
          /\ fetch'.offset = fetch.offset /\ fetch'.slack = twice /\ fetch'.k = wide /\ fetch'.prevRaw = count
      BY ONLY <3>1, <3>2
    <3> QED BY <3>3 DEF twice
  <2>7. fetch.k = Capped(need + fetch.slack) /\ ~(fetch.k >= MaxK)
    BY <2>1, <2>2 DEF FetchFits, Enough
  <2>8. fetch.k = need + fetch.slack /\ need + fetch.slack < MaxK
    BY <2>2, <2>7, CappedIs
  <2>9. fetch.slack \in Margins
    BY <2>2, <2>8 DEF FetchFits
  <2>10. 2 * fetch.slack <= MaxK => 2 * fetch.slack \in Margins
    BY <2>9, MarginsDouble
  <2>11. \A j : Raw(j)' = Raw(j)
    BY <2>1 DEF Raw
  <2>12. FetchFits'
    BY <2>1, <2>2, <2>6, <2>8, <2>9, <2>10, <2>11 DEF FetchFits
  <2>13. \A S : BelowCut(S)' = BelowCut(S)
    BY <2>1, CutKept
  <2> QED BY <2>1, <2>6, <2>12, <2>13 DEF SearchInv, SearchTyped, Page, Split
<1>4. CASE SearchAnswers
  <2>1. fetch' = NoFetch /\ UNCHANGED <<live, clear, text, score>> /\ fetch.on
    BY <1>4 DEF SearchAnswers
  <2>2. PICK page \in Page : /\ pages' = Append(pages, page) /\ Split(page)
                             /\ fetch.offset = 0 => page.below = BelowCut(page.hits)
    BY <1>4, AnswerOf
  <2>3. \A S : BelowCut(S)' = BelowCut(S)
    BY <2>1, CutKept
  <2>4. NoFetch \in [on : BOOLEAN, offset : Nat, k : 0..MaxK, slack : Nat, prevRaw : Int] /\ ~NoFetch.on
    BY SearchSizes DEF NoFetch
  <2>5. pages \in Seq(Page) /\ Len(pages) \in Nat /\ fetch.offset = Len(pages) * Limit /\ Limit \in Nat
    BY <2>1, SearchSizes DEF SearchInv, SearchTyped, FetchFits
  <2>6. /\ pages' \in Seq(Page) /\ Len(pages') = Len(pages) + 1
        /\ \A p \in 1..Len(pages) : pages'[p] = pages[p]
        /\ pages'[Len(pages) + 1] = page
    BY <2>2, <2>5
  <2>7. \A p \in DOMAIN pages' : Split(pages'[p])
    BY <2>2, <2>5, <2>6 DEF SearchInv, SearchTyped
  <2>8. pages'[1].below = BelowCut(pages'[1].hits)
    <3>1. CASE pages = <<>>
      <4>1. Len(pages) = 0
        BY <3>1
      <4>2. fetch.offset = 0 /\ pages'[1] = page
        BY <2>5, <2>6, <4>1
      <4> QED BY <2>2, <4>2
    <3>2. CASE pages # <<>>
      <4>1. Len(pages) >= 1
        BY <2>5, <3>2
      <4>2. pages'[1] = pages[1]
        BY <2>5, <2>6, <4>1
      <4> QED BY <3>2, <4>2 DEF SearchInv
    <3> QED BY <3>1, <3>2
  <2>9. Page' = Page /\ Ranks' = Ranks /\ \A p : Split(p)' = Split(p)
    BY <2>1 DEF Page, Ranks, Split
  <2>10. SearchTyped'
    BY <2>1, <2>4, <2>6, <2>7, <2>9 DEF SearchInv, SearchTyped, Split
  <2> QED BY <2>1, <2>3, <2>4, <2>8, <2>10 DEF SearchInv
<1> QED BY <1>1, <1>2, <1>3, <1>4 DEF SeNext

\* The pages are complete as long as no widening is dead.
ScrollInv == (live = {} \/ NoDeadRun) /\ ScrollIsComplete

LEMMA ScrollStart ==
    ASSUME ~DeadRuns, SeInit \/ (live = {} /\ fetch = NoFetch /\ pages = <<>>) PROVE ScrollInv
BY DEF SeInit, ScrollInv, ScrollIsComplete

LEMMA ScrollSteps == ASSUME SearchInv, ScrollInv, [SeNext]_seVars PROVE ScrollInv'
<1>1. UNCHANGED <<live, clear, text, score>>
  BY DEF SeNext, seVars, SearchStarts, SearchWidens, SearchAnswers
<1>2. Hits' = Hits /\ (NoDeadRun' <=> NoDeadRun) /\ \A S, from, to : Slice(S, from, to)' = Slice(S, from, to)
  BY <1>1 DEF Hits, Filtered, Raw, NoDeadRun, Slice, Position
<1>3. CASE pages' = pages
  BY <1>1, <1>2, <1>3 DEF ScrollInv, ScrollIsComplete
<1>4. CASE SearchAnswers
  <2> DEFINE to == fetch.offset + Limit
  <2>1. PICK page \in Page : /\ pages' = Append(pages, page)
                             /\ page.hits = Slice(Filtered(fetch.k), fetch.offset, to) \ page.exact
                             /\ page.exact \subseteq (IF fetch.offset = 0 THEN text ELSE {})
    BY <1>4, AnswerOf
  <2>2. Slice(Filtered(fetch.k), fetch.offset, to) = Slice(Hits, fetch.offset, to)
    BY <1>4, EnoughIsAll DEF SearchAnswers, ScrollInv
  <2>3. pages \in Seq(Page) /\ Len(pages) \in Nat /\ fetch.offset = Len(pages) * Limit /\ Limit \in Nat \ {0}
    BY <1>4, SearchSizes DEF SearchAnswers, SearchInv, SearchTyped, FetchFits
  <2> DEFINE n == Len(pages) + 1
  <2>4. /\ DOMAIN pages = 1..Len(pages) /\ DOMAIN pages' = 1..n
        /\ \A p \in 1..Len(pages) : pages'[p] = pages[p]
        /\ pages'[n] = page
    BY <2>1, <2>3
  <2>5. (n - 1) * Limit = fetch.offset /\ n * Limit = to /\ (fetch.offset = 0 <=> n = 1)
    BY <2>3
  <2>6. /\ pages'[n].hits = Slice(Hits, (n - 1) * Limit, n * Limit) \ pages'[n].exact
        /\ pages'[n].exact \subseteq (IF n = 1 THEN text ELSE {})
    BY <2>1, <2>2, <2>4, <2>5
  <2>7. \A p \in DOMAIN pages' : p = n \/ p \in DOMAIN pages
    BY <2>3, <2>4
  <2> HIDE DEF n
  <2>8. \A p \in DOMAIN pages' : /\ pages'[p].hits = Slice(Hits, (p - 1) * Limit, p * Limit) \ pages'[p].exact
                                 /\ pages'[p].exact \subseteq (IF p = 1 THEN text ELSE {})
    BY <2>4, <2>6, <2>7 DEF ScrollInv, ScrollIsComplete
  <2> QED BY <1>1, <1>2, <2>8 DEF ScrollInv, ScrollIsComplete
<1> QED BY <1>3, <1>4 DEF SeNext, seVars, SearchStarts, SearchWidens

LEMMA SearchFits == ASSUME SearchInv PROVE SeTypeOK /\ TiersAreSound
<1>1. SeTypeOK
  <2>1. \A p \in DOMAIN pages : pages[p] \in Page /\ Split(pages[p])
    BY DEF SearchInv, SearchTyped
  <2> QED BY <2>1 DEF SearchInv, SearchTyped, SeTypeOK, Page, Split
<1>2. ASSUME 1 \in DOMAIN pages
      PROVE  LET found == pages[1].hits  below == pages[1].below  shown == found \ below IN
             /\ below \cap pages[1].exact = {}
             /\ found # {} => shown # {}
             /\ \A r \in shown, q \in below : r < q
             /\ below # {} =>
                  \/ \E r \in shown : /\ \A q \in shown : q <= r
                                      /\ \A q \in Steps(found) : Gap(found, q) <= Gap(found, r)
                  \/ \A r \in found : r \in shown <=> r = Min(found) \/ 100 * score[r] >= Alpha * score[Min(found)]
  <2>1. pages[1] \in Page /\ pages[1].below \cap pages[1].exact = {} /\ pages[1].below = BelowCut(pages[1].hits)
    BY <1>2 DEF SearchInv, SearchTyped, Split
  <2>2. pages[1].hits \in SUBSET live /\ live \subseteq Ranks /\ (live = {} \/ score \in ScoreSeqs)
    BY <2>1 DEF SearchInv, SearchTyped, Page
  <2> QED BY <2>1, <2>2, CutFits
<1> QED BY <1>1, <1>2 DEF TiersAreSound

-----------------------------------------------------------------------------
(* Side by side: a step of one component is a step of its own specification,   *)
(* and no step of any other.                                                   *)

mcVars == <<clVars, ppVars, abVars, svVars, moVars, seVars, cuVars, paVars, part>>

LEMMA StartSideBySide ==
    MCInit => /\ ClInit /\ PpInit /\ AbInit /\ SvInit /\ MoInit
              /\ PaInit \/ (snaps = <<>> /\ inView = {} /\ making = NotMaking /\ made = {})
              /\ SeInit \/ (live = {} /\ fetch = NoFetch /\ pages = <<>>)
BY DEF MCInit

LEMMA StepSideBySide ==
    [MCNext]_mcVars => /\ [ClNext]_clVars /\ [PpNext]_ppVars /\ [AbNext]_abVars
                       /\ [SvNext]_svVars /\ [MoNext]_moVars /\ [PaNext]_paVars /\ [SeNext]_seVars
<1>1. SUFFICES ASSUME [MCNext]_mcVars
               PROVE  /\ [ClNext]_clVars /\ [PpNext]_ppVars /\ [AbNext]_abVars
                      /\ [SvNext]_svVars /\ [MoNext]_moVars /\ [PaNext]_paVars /\ [SeNext]_seVars
  OBVIOUS
<1>2. CASE MCNext
  BY <1>2 DEF MCNext
<1>3. CASE UNCHANGED mcVars
  BY <1>3 DEF mcVars
<1> QED BY <1>1, <1>2, <1>3

LEMMA CurationStarts == ASSUME MCInit PROVE CurationInv
<1>1. drafts = {} /\ curated = <<>> /\ (part = "curation" => lib \in Libraries)
  BY DEF MCInit, CuInit
<1>2. DOMAIN curated = {}
  BY <1>1
<1> QED BY <1>1, <1>2 DEF CurationInv, CuTypeOK

LEMMA PicksStay == ASSUME lib' = lib, NEW S PROVE PickFeaturedAndCover(S)' = PickFeaturedAndCover(S)
BY DEF PickFeaturedAndCover, clusterByTimeWindow, Window, Opens, Timed, groupByCosine, United, Alike,
       bestByAestheticInGroup, Better, pickCover

LEMMA CurationSteps == ASSUME CurationInv, [MCNext]_mcVars PROVE CurationInv'
<1>1. part' = part /\ lib' = lib /\ \/ drafts' = drafts /\ curated' = curated
                                    \/ part = "curation" /\ (MineTrips \/ MineFamily)
                                    \/ \E d \in drafts : Curate(d)
  <2>1. CASE part = "curation" /\ CuNext /\ part' = part
    BY <2>1 DEF CuNext, MineTrips, MineFamily, Curate
  <2>2. CASE UNCHANGED <<part, cuVars>>
    BY <2>2 DEF cuVars
  <2> QED BY <2>1, <2>2 DEF MCNext, mcVars
<1>2. Pool' = Pool
  BY <1>1 DEF Pool
<1>3. \A S : PickFeaturedAndCover(S)' = PickFeaturedAndCover(S)
  BY <1>1, PicksStay
<1>4. CASE drafts' = drafts /\ curated' = curated
  BY <1>1, <1>2, <1>3, <1>4 DEF CurationInv, CuTypeOK
<1>5. CASE part = "curation" /\ (MineTrips \/ MineFamily)
  <2>1. drafts = {} /\ curated' = curated /\ (drafts' = BuildTripMoments \/ drafts' = BuildFamilyMoments)
    BY <1>5 DEF MineTrips, MineFamily
  <2>2. DOMAIN curated' = {}
    BY <2>1 DEF CurationInv
  <2>3. lib \in Libraries
    BY <1>5 DEF CurationInv
  <2>4. CuTypeOK'
    BY <1>2, <2>1, <2>3, DraftsFit DEF CuTypeOK
  <2> QED BY <1>1, <1>5, <2>2, <2>3, <2>4 DEF CurationInv
<1>6. ASSUME NEW d \in drafts, Curate(d) PROVE CurationInv'
  <2>1. /\ drafts' = drafts /\ DOMAIN curated' = DOMAIN curated \cup {d}
        /\ \A e \in DOMAIN curated' : curated'[e] = IF e = d THEN PickFeaturedAndCover(d.members) ELSE curated[e]
    BY <1>6 DEF Curate
  <2>2. CuTypeOK'
    BY <1>2, <2>1 DEF CurationInv, CuTypeOK
  <2>3. ASSUME NEW e \in DOMAIN curated' PROVE curated'[e] = PickFeaturedAndCover(e.members)'
    <3>1. CASE e = d
      BY <1>3, <2>1, <3>1
    <3>2. CASE e # d
      BY <1>3, <2>1, <3>2 DEF CurationInv
    <3> QED BY <3>1, <3>2
  <2> QED BY <1>1, <2>1, <2>2, <2>3 DEF CurationInv
<1> QED BY <1>1, <1>4, <1>5, <1>6

\* Whatever the workers' order and however many faces, neighbours and processors there
\* are: the progress climbs to the last row and says so once (faces.go:244), and with one
\* point enough for a cluster two faces share a label exactly when a chain of near faces
\* links them (faces.go:176).
THEOREM ClustersCorrect == MCSpec => []ClustersSound
<1>1. ClInv => ClustersSound
  BY ClInvSuffices DEF ClustersSound
<1>2. MCInit => ClInv
  BY StartSideBySide, ClStarts
<1>3. ClInv /\ [MCNext]_mcVars => ClInv'
  BY StepSideBySide, ClSteps
<1> QED BY <1>1, <1>2, <1>3, PTL DEF MCSpec, mcVars

\* What the user decided about persons outlives re-clustering, sweeps, purges, rescans and
\* restarts: an excluded face stays out, a named person stays, and a cover is a face of
\* its person (persons.go), when no user request falls between two steps of a batch.
THEOREM PeopleCorrect == ASSUME PeopleUndisturbed PROVE MCSpec => []PeopleSound
<1>1. PeopleInv => PeopleSound
  BY DEF PeopleInv, PeopleSound
<1>2. MCInit => PeopleInv
  BY StartSideBySide, PeopleStart
<1>3. PeopleInv /\ [MCNext]_mcVars => PeopleInv'
  BY StepSideBySide, PeopleSteps
<1> QED BY <1>1, <1>2, <1>3, PTL DEF MCSpec, mcVars

\* The tables of the albums stay sound (album.go): no two members share a position, no two
\* albums a name, a cover is a member; what three reads say of one album agrees; and an album
\* made of a place or of a trip holds its photos (places.go), when no request falls between
\* the check and the write of another.
THEOREM AlbumsCorrect == ASSUME ~AlbumRaces PROVE MCSpec => []AlbumsAgree
<1>1. AlbumsInv /\ PlacesInv => AlbumsAgree
  BY ReadsFit DEF AlbumsInv, PlacesInv, AlbumsAgree
<1>2. MCInit => AlbumsInv /\ PlacesInv
  BY StartSideBySide, AlbumsStart, PlacesStart
<1>3. AlbumsInv /\ PlacesInv /\ [MCNext]_mcVars => (AlbumsInv /\ PlacesInv)'
  BY StepSideBySide, AlbumSteps, PlacesStep
<1> QED BY <1>1, <1>2, <1>3, PTL DEF MCSpec, mcVars

\* The picks of every moment are fair, in every library and with every threshold that a
\* recipe may set: a burst is shown by its best photo only, nothing left out beats what is
\* featured, and the cover passes the gate if a featured photo does (moments_pick.go:210).
THEOREM CurationCorrect == MCSpec => []CurationIsFair
<1> QED BY CurationPicks, CurationStarts, CurationSteps, PTL DEF MCSpec, mcVars

\* Scrolling through a search repeats no hit and skips none (search.go:155), whatever the
\* filters drop, whatever the sizes of pages, margins and cap, as long as no widening that
\* stays inside the ranking finds only rows that the filters drop.
THEOREM PagesCorrect == ASSUME ~DeadRuns PROVE MCSpec => []ScrollIsComplete
<1>1. MCInit => SearchInv /\ ScrollInv
  BY StartSideBySide, SearchStart, ScrollStart
<1>2. SearchInv /\ ScrollInv /\ [MCNext]_mcVars => (SearchInv /\ ScrollInv)'
  BY StepSideBySide, SearchSteps, ScrollSteps
<1>3. ScrollInv => ScrollIsComplete
  BY DEF ScrollInv
<1> QED BY <1>1, <1>2, <1>3, PTL DEF MCSpec, mcVars

\* What a search folds away never outranks what it shows, and something is always shown, for
\* all falling scores and every share of the top score (searchcut.go).
THEOREM TiersCorrect == MCSpec => []TiersAreSound
<1>1. MCInit => SearchInv
  BY StartSideBySide, SearchStart
<1>2. SearchInv /\ [MCNext]_mcVars => SearchInv'
  BY StepSideBySide, SearchSteps
<1>3. SearchInv => TiersAreSound
  BY SearchFits
<1> QED BY <1>1, <1>2, <1>3, PTL DEF MCSpec, mcVars

\* What the app answers is right in every library and for all sizes: scrolling repeats and
\* skips nothing, what is folded away never outranks what is shown, trips and spots are what
\* the dialog showed.
THEOREM AnswersCorrect == ASSUME ~DeadRuns PROVE MCSpec => []AnswersSound
<1>1. MCInit => SearchInv /\ ScrollInv /\ PlacesInv
  BY StartSideBySide, SearchStart, ScrollStart, PlacesStart
<1>2. SearchInv /\ ScrollInv /\ PlacesInv /\ [MCNext]_mcVars => (SearchInv /\ ScrollInv /\ PlacesInv)'
  BY StepSideBySide, SearchSteps, ScrollSteps, PlacesStep
<1>3. SearchInv /\ ScrollInv /\ PlacesInv => AnswersSound
  <2>1. SearchInv => TiersAreSound
    BY SearchFits
  <2>2. ScrollInv => ScrollIsComplete
    BY DEF ScrollInv
  <2>3. PlacesInv => PlacesTyped
    BY DEF PlacesInv
  <2>4. PlacesInv => PlacesAgree /\ SpotsArePinned
    BY <2>3, PlacesFit, SpotsFit
  <2> QED BY <2>1, <2>2, <2>4 DEF AnswersSound
<1> QED BY <1>1, <1>2, <1>3, PTL DEF MCSpec, mcVars

\* What the user placed, excluded or pinned stays so: evaluations and conversions of smart
\* views (smartview.go) and recomputes of moments (momentstore.go) replay the user's edits
\* and never undo them.
THEOREM UserEditsCorrect == ASSUME ViewUndisturbed PROVE MCSpec => []UserEditsStay
<1>1. ViewInv /\ MomentsInv => UserEditsStay
  BY DEF ViewInv, PlacedSomewhere, PlacedIsKept, PinnedRows, MomentsInv, UserEditsStay
<1>2. MCInit => ViewInv /\ MomentsInv
  BY StartSideBySide, ViewStarts, MomentsStart
<1>3. ViewInv /\ MomentsInv /\ [MCNext]_mcVars => (ViewInv /\ MomentsInv)'
  BY StepSideBySide, ViewSteps, MomentsStep
<1> QED BY <1>1, <1>2, <1>3, PTL DEF MCSpec, mcVars

\* No recompute takes a face from a person the user named, hid or gave a cover
\* (faces.go), and none makes an old member of a moment look added this week
\* (momentstore.go).
THEOREM RecomputesCorrect == ASSUME PeopleUndisturbed PROVE MCSpec => RecomputesKeep
<1>1. MCInit => PeopleInv /\ MomentsInv
  BY StartSideBySide, PeopleStart, MomentsStart
<1>2. PeopleInv /\ MomentsInv /\ [MCNext]_mcVars => (PeopleInv /\ MomentsInv)'
  BY StepSideBySide, PeopleSteps, MomentsStep
<1>3. PeopleInv /\ [MCNext]_mcVars =>
        [run.pc = "rebuild" /\ run'.pc = "idle" =>
           \A p \in Persons : Anchored(p) => person'[p].here /\ \A f \in Members(p) : bind'[f] = p]_ppVars
  BY StepSideBySide, AnchoredKept
<1>4. MomentsInv /\ [MCNext]_mcVars =>
        [\A m \in MomentIds, x \in Shots : member[m][x] = "old" => member'[m][x] # "week"]_moVars
  BY StepSideBySide, OldStays
<1> QED BY <1>1, <1>2, <1>3, <1>4, PTL DEF MCSpec, mcVars, RecomputesKeep, AnchorsKeepFaces, AddedAtKept

\* The variables of clusters, persons, albums, smart views, moments, search, curation and
\* places keep their types: bindings lead to persons, statuses are those of the schema, counts
\* stay in range, nothing is listed that was deleted.
THEOREM EntityTypesCorrect ==
    ASSUME PeopleUndisturbed, ViewUndisturbed, ~AlbumRaces PROVE MCSpec => []EntityTypesOK
<1> DEFINE Inv == /\ ClInv /\ PeopleInv /\ AlbumsInv /\ ViewInv /\ MomentsInv /\ SearchInv /\ CurationInv
                  /\ PlacesInv /\ PaTypeOK
<1>1. MCInit => Inv
  <2>1. MCInit => PaTypeOK
    BY DEF MCInit, PaInit, PaTypeOK, NotMaking
  <2> QED BY <2>1, StartSideBySide, ClStarts, PeopleStart, AlbumsStart, ViewStarts, MomentsStart, SearchStart,
             CurationStarts, PlacesStart
<1>2. Inv /\ [MCNext]_mcVars => Inv'
  <2>1. PlacesInv /\ PaTypeOK /\ [MCNext]_mcVars => PlacesInv' /\ PaTypeOK'
    BY StepSideBySide, PlacesStep, PlacesTypesStep
  <2> QED BY <2>1, StepSideBySide, ClSteps, PeopleSteps, AlbumSteps, ViewSteps, MomentsStep, SearchSteps, CurationSteps
<1>3. Inv => EntityTypesOK
  <2>1. PeopleInv => PpTypeOK
    BY DEF PeopleInv, PeopleTyped, HandFits, PpTypeOK, FaceStates, PersonRows, FaceRuns
  <2>2. AlbumsInv => AbTypeOK
    BY RequestKinds DEF AlbumsInv, AlbumsTyped, AbTypeOK
  <2>3. ViewInv => SvTypeOK
    BY DEF ViewInv, ViewTyped, SvTypeOK, RowSets, RowOrigins, ItemStates, Evals, Convs
  <2>4. MomentsInv => MoTypeOK
    BY DEF MomentsInv, MomentsTyped, MoTypeOK, ShotStates, MomentRows, Memberships, Changes, Rounds
  <2> QED BY <2>1, <2>2, <2>3, <2>4, ClInvSuffices, SearchFits DEF EntityTypesOK, CurationInv
<1> HIDE DEF Inv
<1> QED BY <1>1, <1>2, <1>3, PTL DEF MCSpec, mcVars
=============================================================================
