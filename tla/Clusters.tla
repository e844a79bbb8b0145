------------------------------ MODULE Clusters ------------------------------
(* DBSCANWithProgress (service/faces.go): the workers that fill the neighbour  *)
(* lists and report progress, then the sequential DBSCAN over those lists.     *)
(* Two faces are neighbours when their cosine distance is within epsilon: the  *)
(* distances are a symmetric set of pairs, chosen at the start.                *)
EXTENDS Integers, FiniteSets, Sequences

CONSTANTS
    N,          \* faces, 1..N
    Cpus,       \* runtime.NumCPU()
    Buckets,    \* 100 in the code: progress is reported once per bucket
    MinPoints   \* dbscanMinPoints

ASSUME FacesAreThere == N \in Nat \ {0} /\ Cpus \in Nat \ {0} /\ Buckets \in Nat \ {0} /\ MinPoints \in Nat

VARIABLES
    near,       \* the pairs within epsilon
    lists,      \* the neighbour lists; {0} is a row nobody filled
    nextRow,    \* per worker: the row it is at
    counted,    \* per worker: the value completed.Add gave it, not yet reported, or 0
    completed,  \* the atomic counter
    reported,   \* the calls onProgress(done, n), in order
    phase,      \* "lists", "label", "done"
    at, seeds,  \* the loop variable i, and the queue of the cluster being grown
    visited, labels, clusterID

clVars == <<near, lists, nextRow, counted, completed, reported, phase, at, seeds, visited, labels, clusterID>>
labelling == <<at, seeds, visited, labels, clusterID>>

Points  == 1..N
workers == IF Cpus > N THEN N ELSE Cpus
rowsPerWorker == (N + workers - 1) \div workers
Lo(w) == (w - 1) * rowsPerWorker + 1
\* Mutant: the last block of rows is not cut off at the last face.
HiUncut(w) == w * rowsPerWorker
Hi(w) == IF w * rowsPerWorker > N THEN N ELSE w * rowsPerWorker
bucket(done) == (done * Buckets) \div N
Pairs == {e \in SUBSET Points : Cardinality(e) = 2}

regionQuery(i) == {j \in Points : {i, j} \in near /\ j # i}

ClInit ==
    /\ near \in SUBSET Pairs
    /\ lists = [i \in Points |-> {0}]
    /\ nextRow = [w \in 1..workers |-> Lo(w)] /\ counted = [w \in 1..workers |-> 0]
    /\ completed = 0 /\ reported = <<>> /\ phase = "lists"
    /\ at = 0 /\ seeds = {} /\ visited = {} /\ labels = [i \in Points |-> -1] /\ clusterID = 0

-----------------------------------------------------------------------------
(* buildNeighborLists: one goroutine per block of rows.                        *)

FillRow(w) ==
    /\ phase = "lists" /\ counted[w] = 0 /\ nextRow[w] <= Hi(w)
    /\ lists' = [lists EXCEPT ![nextRow[w]] = regionQuery(nextRow[w])]
    /\ nextRow' = [nextRow EXCEPT ![w] = @ + 1]
    /\ completed' = completed + 1 /\ counted' = [counted EXCEPT ![w] = completed + 1]
    /\ UNCHANGED <<near, reported, phase, labelling>>

lastReported == IF reported = <<>> THEN -1 ELSE bucket(reported[Len(reported)])

\* Mutant: any other bucket is reported, also a smaller one.
ReportOther(w) ==
    /\ counted[w] # 0
    /\ reported' = IF bucket(counted[w]) # lastReported THEN Append(reported, counted[w]) ELSE reported
    /\ counted' = [counted EXCEPT ![w] = 0]
    /\ UNCHANGED <<near, lists, nextRow, completed, phase, labelling>>

\* Under progressMu; onProgress is called with the lock held.
Report(w) ==
    /\ counted[w] # 0
    /\ reported' = IF bucket(counted[w]) > lastReported THEN Append(reported, counted[w]) ELSE reported
    /\ counted' = [counted EXCEPT ![w] = 0]
    /\ UNCHANGED <<near, lists, nextRow, completed, phase, labelling>>

\* wg.Wait, and the trailing call.
ListsDone ==
    /\ phase = "lists" /\ \A w \in 1..workers : nextRow[w] > Hi(w) /\ counted[w] = 0
    /\ reported' = IF lastReported = Buckets THEN reported ELSE Append(reported, N)
    /\ phase' = "label" /\ at' = 1
    /\ UNCHANGED <<near, lists, nextRow, counted, completed, seeds, visited, labels, clusterID>>

-----------------------------------------------------------------------------
(* DBSCAN: the next point that was not visited starts a cluster; the queue of  *)
(* seeds grows by the neighbours of every core point in it.                    *)

NextPoint ==
    /\ phase = "label" /\ seeds = {} /\ at <= N
    /\ IF at \in visited
       THEN UNCHANGED <<seeds, visited, labels, clusterID>>
       ELSE /\ visited' = visited \cup {at}
            /\ labels' = [labels EXCEPT ![at] = clusterID]
            /\ IF Cardinality(lists[at]) < MinPoints
               THEN seeds' = {}
               ELSE seeds' = lists[at]
            /\ clusterID' = clusterID + 1
    /\ at' = at + 1
    /\ UNCHANGED <<near, lists, nextRow, counted, completed, reported, phase>>

\* Mutant: a seed's own neighbours are not appended.
SeedAlone(s) ==
    /\ phase = "label" /\ s \in seeds
    /\ visited' = visited \cup {s} /\ seeds' = seeds \ {s}
    /\ labels' = IF labels[s] = -1 THEN [labels EXCEPT ![s] = clusterID - 1] ELSE labels
    /\ UNCHANGED <<near, lists, nextRow, counted, completed, reported, phase, at, clusterID>>

\* The queue is read in order; the order decides nothing, all its members get one
\* label.  clusterID was advanced when the queue was started.
Seed(s) ==
    /\ phase = "label" /\ s \in seeds /\ \A t \in seeds : s <= t
    /\ visited' = visited \cup {s}
    /\ seeds' = (seeds \ {s}) \cup (IF s \notin visited /\ Cardinality(lists[s]) >= MinPoints
                                    THEN lists[s] \ visited' ELSE {})
    /\ labels' = IF labels[s] = -1 THEN [labels EXCEPT ![s] = clusterID - 1] ELSE labels
    /\ UNCHANGED <<near, lists, nextRow, counted, completed, reported, phase, at, clusterID>>

Labelled ==
    /\ phase = "label" /\ seeds = {} /\ at > N
    /\ phase' = "done"
    /\ UNCHANGED <<near, lists, nextRow, counted, completed, reported, labelling>>

ClNext ==
    \/ \E w \in 1..workers : FillRow(w) \/ Report(w)
    \/ ListsDone
    \/ NextPoint
    \/ \E s \in Points : Seed(s)
    \/ Labelled

ClSpec == ClInit /\ [][ClNext]_clVars

-----------------------------------------------------------------------------

ClTypeOK ==
    /\ near \subseteq Pairs /\ \A i \in Points : lists[i] \subseteq Points \cup {0}
    /\ \A w \in 1..workers : counted[w] \in 0..N /\ nextRow[w] \in {Lo(w)} \cup Lo(w)..(Hi(w) + 1)
    /\ completed \in 0..N /\ \A k \in 1..Len(reported) : reported[k] \in Points
    /\ phase \in {"lists", "label", "done"} /\ at \in 0..(N + 1)
    /\ seeds \subseteq Points /\ visited \subseteq Points
    /\ \A i \in Points : labels[i] \in -1..(N - 1)

\* The progress that workers report in any order never goes back, says "all done"
\* exactly once and no sooner than all rows are counted (the task bar shows it).
ProgressClimbs ==
    /\ \A k \in 1..(Len(reported) - 1) : reported[k] < reported[k + 1]
    /\ phase \in {"label", "done"} => reported[Len(reported)] = N

\* Reference: a chain of near faces leads from i to j when no set of faces that holds i
\* and all the neighbours of its members is without j.
Closed(S) == \A i \in S : regionQuery(i) \subseteq S
Linked(i, j) == \A S \in SUBSET Points : i \in S /\ Closed(S) => j \in S

\* When it ends, every face is labelled, and with dbscanMinPoints = 1 two faces have
\* one label exactly when a chain of near faces links them: no person is split,
\* no two are mixed, whatever the workers' order.
LabelsAreChains ==
    phase = "done" /\ MinPoints = 1 =>
        \A i, j \in Points : labels[i] # -1 /\ (labels[i] = labels[j] <=> Linked(i, j))
=============================================================================
