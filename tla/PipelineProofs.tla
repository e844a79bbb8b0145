--------------------------- MODULE PipelineProofs ---------------------------
(* The stamp of a row vouches for its checksum: for any paths, edits, crashes  *)
(* and prunes, when no two calls process one path at a time and no file is     *)
(* replaced by a copy of another one.                                          *)
EXTENDS Pipeline, TLAPS

Undisturbed == ~Overlap /\ ~Copies

Steps == {"idle", "query", "hashed", "touch", "lookup", "derive", "finish"}
Seen  == 0..edits       \* the versions and stamps there have been
Files == [ver : Seen, stamp : Seen]
Rows  == [id : Ids, sum : Seen, stamp : Seen, status : {"pending", "indexed"}]
Calls == [pc : Steps, path : Paths, stamp : Seen, sum : Seen, id : Ids \cup {0}]

-----------------------------------------------------------------------------
(* The invariant.                                                              *)

PipeTyped ==
    /\ edits \in Nat
    /\ disk \in [Paths -> Files] /\ rows \in [Paths -> Rows \cup {NoRow}] /\ jobs \in [Actors -> Calls]
    /\ \A p \in Paths : On(p) => disk[p].stamp # 0 /\ disk[p].ver # 0
    /\ \A a \in Actors : /\ jobs[a].pc \in {"hashed", "touch"} => jobs[a].sum # 0
                         /\ jobs[a].pc \in {"derive", "finish"} => jobs[a].id # 0

\* A path is in one call.
OneCall == \A a, b \in Actors : a # b /\ jobs[a].pc # "idle" /\ jobs[b].pc # "idle" => jobs[a].path # jobs[b].path

\* The versions that are, or were, the content of a path.
Had(p, v) ==
    \/ disk[p].ver = v
    \/ rows[p].sum = v
    \/ \E a \in Actors : jobs[a].path = p /\ jobs[a].sum = v

OwnVersions == \A p, q \in Paths, v \in Seen : v # 0 /\ Had(p, v) /\ Had(q, v) => p = q

\* While a file is as it was at the stat, what was read of it since is its content.
RowVouches == \A p \in Paths : On(p) /\ rows[p].stamp = disk[p].stamp => rows[p].sum = disk[p].ver

CallVouches ==
    \A a \in Actors :
        LET p == jobs[a].path IN
        /\ jobs[a].pc \in {"hashed", "touch"} /\ On(p) /\ jobs[a].stamp = disk[p].stamp => jobs[a].sum = disk[p].ver
        /\ jobs[a].pc = "touch" => rows[p] = NoRow \/ rows[p].sum = jobs[a].sum

PipeInv == PipeTyped /\ OneCall /\ OwnVersions /\ RowVouches /\ CallVouches

LEMMA IdleTyped == ASSUME edits \in Nat PROVE Idle \in Calls /\ Idle.pc = "idle" /\ Idle.sum = 0
<1>1. (CHOOSE p \in Paths : TRUE) \in Paths
  BY IdsAreIds
<1> QED BY <1>1 DEF Idle, Calls, Steps, Seen

LEMMA NothingTyped ==
    ASSUME edits \in Nat
    PROVE  /\ NoFile \in Files /\ NoFile.ver = 0 /\ NoFile.stamp = 0
           /\ NoRow.sum = 0 /\ NoRow.stamp = 0 /\ NoRow.id = 0 /\ NoRow.status = "none" /\ NoRow \notin Rows
BY DEF NoFile, NoRow, Files, Rows, Seen

LEMMA InitInv == ASSUME PlInit PROVE PipeInv
<1> USE DEF PlInit
<1>1. edits = 0 /\ edits \in Nat
  OBVIOUS
<1>2. \A a \in Actors : jobs[a].pc = "idle" /\ jobs[a].sum = 0
  BY <1>1, IdleTyped
<1>3. \A p \in Paths : disk[p] = NoFile /\ rows[p] = NoRow /\ ~On(p)
  BY DEF On
<1>4. PipeTyped
  BY <1>1, <1>2, <1>3, IdleTyped, NothingTyped DEF PipeTyped
<1>5. \A p \in Paths, v \in Seen : Had(p, v) => v = 0
  BY <1>1, <1>2, <1>3, NothingTyped DEF Had
<1> QED BY <1>2, <1>3, <1>4, <1>5 DEF PipeInv, OneCall, OwnVersions, RowVouches, CallVouches

-----------------------------------------------------------------------------
(* Steps of a call.                                                            *)

LEMMA CallSet ==
    ASSUME jobs \in [Actors -> Calls], NEW a \in Actors, NEW v \in Calls, jobs' = [jobs EXCEPT ![a] = v]
    PROVE  /\ jobs' \in [Actors -> Calls] /\ jobs'[a] = v
           /\ \A b \in Actors : b # a => jobs'[b] = jobs[b]
OBVIOUS

\* A step that changes one call only, to one that knows nothing new but what it read.
LEMMA OneCallKeeps ==
    ASSUME PipeInv, UNCHANGED <<disk, rows, edits>>,
           NEW a \in Actors, NEW v \in Calls, jobs' = [jobs EXCEPT ![a] = v],
           v.pc \in {"hashed", "touch"} => v.sum # 0,
           v.pc \in {"derive", "finish"} => v.id # 0,
           v.pc # "idle" => \A b \in Actors : b # a /\ jobs[b].pc # "idle" => jobs[b].path # v.path,
           v.sum # 0 => Had(v.path, v.sum),
           v.pc \in {"hashed", "touch"} /\ On(v.path) /\ v.stamp = disk[v.path].stamp => v.sum = disk[v.path].ver,
           v.pc = "touch" => rows[v.path] = NoRow \/ rows[v.path].sum = v.sum
    PROVE  PipeInv'
<1> USE DEF PipeInv, PipeTyped
<1>1. /\ jobs' \in [Actors -> Calls] /\ jobs'[a] = v
      /\ \A b \in Actors : b # a => jobs'[b] = jobs[b]
  BY CallSet
<1>2. Calls' = Calls /\ Rows' = Rows /\ Files' = Files /\ Seen' = Seen /\ \A p : On(p)' = On(p)
  BY DEF Calls, Rows, Files, Seen, On
<1>3. PipeTyped'
  BY <1>1, <1>2
<1>4. OneCall'
  BY <1>1 DEF OneCall
<1>5. ASSUME NEW p \in Paths, NEW w \in Seen, w # 0, Had(p, w)' PROVE Had(p, w)
  BY <1>1, <1>5 DEF Had
<1>6. OwnVersions'
  BY <1>2, <1>5 DEF OwnVersions
<1>7. RowVouches'
  BY <1>2 DEF RowVouches
<1>8. CallVouches'
  BY <1>1, <1>2 DEF CallVouches
<1> QED BY <1>3, <1>4, <1>6, <1>7, <1>8

LEMMA TakeKeeps ==
    ASSUME Undisturbed, PipeInv, NEW a \in Actors, NEW p \in Paths, Take(a, p), UNCHANGED <<disk, rows, edits>>
    PROVE  PipeInv'
<1> USE DEF PipeInv, PipeTyped
<1> DEFINE v == [Idle EXCEPT !.pc = "query", !.path = p, !.stamp = disk[p].stamp]
<1>1. v \in Calls /\ v.pc = "query" /\ v.path = p /\ v.sum = 0
  BY IdleTyped DEF Calls, Steps, Files
<1>2. jobs' = [jobs EXCEPT ![a] = v]
  BY DEF Take
<1>3. \A b \in Actors : b # a /\ jobs[b].pc # "idle" => jobs[b].path # p
  BY IdleTyped DEF Take, Busy, Undisturbed
<1> HIDE DEF v
<1> QED BY <1>1, <1>2, <1>3, OneCallKeeps

LEMMA EndsKeeps ==
    ASSUME PipeInv, NEW a \in Actors, Ends(a), UNCHANGED <<disk, rows, edits>> PROVE PipeInv'
BY IdleTyped, OneCallKeeps DEF Ends, PipeInv, PipeTyped

LEMMA HashKeeps == ASSUME PipeInv, NEW a \in Actors, Hash(a) PROVE PipeInv'
<1> USE DEF PipeInv, PipeTyped
<1>1. UNCHANGED <<disk, rows, edits>>
  BY DEF Hash, fileVars
<1> DEFINE f == disk[jobs[a].path]
<1>2. f \in Files /\ jobs[a] \in Calls /\ jobs[a].path \in Paths
  BY DEF Calls
<1>3. CASE f = NoFile
  BY <1>1, <1>3, EndsKeeps DEF Hash, Ends
<1>4. CASE f # NoFile
  <2> DEFINE v == [jobs[a] EXCEPT !.pc = "hashed", !.sum = f.ver]
  <2>1. jobs' = [jobs EXCEPT ![a] = v]
    BY <1>4 DEF Hash
  <2>2. v \in Calls /\ v.pc = "hashed" /\ v.path = jobs[a].path /\ v.sum = f.ver
    BY <1>2 DEF Calls, Steps, Files
  <2>3. f.ver # 0
    BY <1>2, <1>4 DEF On
  <2>4. \A b \in Actors : b # a /\ jobs[b].pc # "idle" => jobs[b].path # v.path
    BY <2>2 DEF OneCall, Hash
  <2>5. Had(v.path, v.sum)
    BY <2>2 DEF Had
  <2> HIDE DEF v
  <2> QED BY <1>1, <2>1, <2>2, <2>3, <2>4, <2>5, OneCallKeeps
<1> QED BY <1>3, <1>4

\* The row with the checksum of the file is, if any, the row of its own path.
LEMMA DedupKeeps == ASSUME PipeInv, NEW a \in Actors, Dedup(a) PROVE PipeInv'
<1> USE DEF PipeInv, PipeTyped
<1> DEFINE v == [jobs[a] EXCEPT !.pc = "touch"]
<1>1. UNCHANGED <<disk, rows, edits>> /\ jobs' = [jobs EXCEPT ![a] = v]
  <2>1. jobs' = [jobs EXCEPT ![a] = v]
    BY DEF Dedup, Goes
  <2> QED BY <2>1 DEF Dedup, fileVars
<1>2. jobs[a] \in Calls /\ jobs[a].path \in Paths /\ jobs[a].pc = "hashed" /\ jobs[a].sum # 0
  BY DEF Calls, Dedup
<1>3. v \in Calls /\ v.pc = "touch" /\ v.path = jobs[a].path /\ v.sum = jobs[a].sum /\ v.stamp = jobs[a].stamp
  BY <1>2 DEF Calls, Steps
<1>4. PICK q \in Paths : rows[q].sum = jobs[a].sum
  BY DEF Dedup, Twin
<1>5. Had(q, jobs[a].sum) /\ Had(jobs[a].path, jobs[a].sum) /\ jobs[a].sum \in Seen
  BY <1>2, <1>4 DEF Had, Calls
<1>6. rows[jobs[a].path].sum = jobs[a].sum
  BY <1>2, <1>4, <1>5 DEF OwnVersions
<1>7. \A b \in Actors : b # a /\ jobs[b].pc # "idle" => jobs[b].path # v.path
  BY <1>2, <1>3 DEF OneCall
<1>8. On(v.path) /\ v.stamp = disk[v.path].stamp => v.sum = disk[v.path].ver
  BY <1>2, <1>3 DEF CallVouches
<1> HIDE DEF v
<1> QED BY <1>1, <1>2, <1>3, <1>5, <1>6, <1>7, <1>8, OneCallKeeps

LEMMA LookupKeeps == ASSUME PipeInv, NEW a \in Actors, Lookup(a) PROVE PipeInv'
<1> USE DEF PipeInv, PipeTyped
<1> DEFINE r == rows[jobs[a].path]
<1>1. UNCHANGED <<disk, rows, edits>>
  BY DEF Lookup, fileVars
<1>2. jobs[a] \in Calls /\ jobs[a].path \in Paths /\ jobs[a].pc = "lookup"
  BY DEF Calls, Lookup
<1>3. CASE r = NoRow
  BY <1>1, <1>3, EndsKeeps DEF Lookup, Ends
<1>4. CASE r # NoRow
  <2> DEFINE v == [jobs[a] EXCEPT !.pc = "derive", !.id = r.id]
  <2>1. jobs' = [jobs EXCEPT ![a] = v]
    BY <1>4 DEF Lookup
  <2>2. r.id \in Ids /\ r.id # 0
    BY <1>2, <1>4, IdsAreIds DEF Rows
  <2>3. v \in Calls /\ v.pc = "derive" /\ v.path = jobs[a].path /\ v.sum = jobs[a].sum /\ v.id # 0
    BY <1>2, <2>2 DEF Calls, Steps
  <2>4. \A b \in Actors : b # a /\ jobs[b].pc # "idle" => jobs[b].path # v.path
    BY <1>2, <2>3 DEF OneCall
  <2>5. Had(v.path, v.sum)
    BY <2>3 DEF Had
  <2> HIDE DEF v
  <2> QED BY <1>1, <2>1, <2>3, <2>4, <2>5, OneCallKeeps
<1> QED BY <1>3, <1>4

LEMMA DeriveKeeps == ASSUME PipeInv, NEW a \in Actors, Derive(a) PROVE PipeInv'
<1> USE DEF PipeInv, PipeTyped
<1> DEFINE v == [jobs[a] EXCEPT !.pc = "finish"]
<1>1. UNCHANGED <<disk, rows, edits>> /\ jobs' = [jobs EXCEPT ![a] = v]
  <2>1. jobs' = [jobs EXCEPT ![a] = v]
    BY DEF Derive, Goes
  <2> QED BY <2>1 DEF Derive, fileVars
<1>2. jobs[a] \in Calls /\ jobs[a].pc = "derive" /\ jobs[a].id # 0
  BY DEF Derive
<1>3. v \in Calls /\ v.pc = "finish" /\ v.path = jobs[a].path /\ v.sum = jobs[a].sum /\ v.id # 0
  BY <1>2 DEF Calls, Steps
<1>4. \A b \in Actors : b # a /\ jobs[b].pc # "idle" => jobs[b].path # v.path
  BY <1>2, <1>3 DEF OneCall
<1>5. Had(v.path, v.sum)
  BY <1>3 DEF Had
<1> HIDE DEF v
<1> QED BY <1>1, <1>3, <1>4, <1>5, OneCallKeeps

-----------------------------------------------------------------------------
(* Steps that change a row.                                                    *)

\* A path's row changes; the files stay and at most one call moves on.
LEMMA RowKeeps ==
    ASSUME PipeInv, UNCHANGED <<disk, edits>>,
           rows' \in [Paths -> Rows \cup {NoRow}],
           \/ UNCHANGED jobs
           \/ \E a \in Actors : Ends(a)
           \/ \E a \in Actors : jobs[a].pc = "hashed" /\ Goes(a, "lookup"),
           \A p \in Paths : \/ rows'[p] = NoRow
                            \/ rows'[p].sum = rows[p].sum /\ rows'[p].stamp = rows[p].stamp /\ rows[p] # NoRow
                            \/ \E a \in Actors : /\ jobs[a].path = p /\ jobs[a].pc \in {"hashed", "touch"}
                                                 /\ jobs'[a].pc \in {"idle", "lookup"}
                                                 /\ rows'[p].sum = jobs[a].sum /\ rows'[p].stamp = jobs[a].stamp
    PROVE  PipeInv'
<1> USE DEF PipeInv, PipeTyped
<1>1. Calls' = Calls /\ Rows' = Rows /\ Files' = Files /\ Seen' = Seen /\ \A p : On(p)' = On(p)
  BY DEF Calls, Rows, Files, Seen, On
<1>2. /\ jobs' \in [Actors -> Calls]
      /\ \A b \in Actors : \/ jobs'[b] = jobs[b]
                           \/ jobs'[b] = Idle
                           \/ /\ jobs'[b].pc = "lookup" /\ jobs[b].pc = "hashed"
                              /\ jobs'[b].path = jobs[b].path /\ jobs'[b].sum = jobs[b].sum
  <2>1. CASE UNCHANGED jobs
    BY <2>1
  <2>2. ASSUME NEW a \in Actors, Ends(a) PROVE <1>2
    BY <2>2, IdleTyped, CallSet DEF Ends
  <2>3. ASSUME NEW a \in Actors, jobs[a].pc = "hashed", Goes(a, "lookup") PROVE <1>2
    <3> DEFINE v == [jobs[a] EXCEPT !.pc = "lookup"]
    <3>1. v \in Calls /\ v.pc = "lookup" /\ v.path = jobs[a].path /\ v.sum = jobs[a].sum
      BY DEF Calls, Steps
    <3>2. jobs' = [jobs EXCEPT ![a] = v]
      BY <2>3 DEF Goes
    <3> HIDE DEF v
    <3> QED BY <2>3, <3>1, <3>2, CallSet
  <2> QED BY <2>1, <2>2, <2>3
<1>3. \A b \in Actors : jobs'[b].pc \in {"query", "hashed", "touch", "derive", "finish"} => jobs'[b] = jobs[b]
  BY <1>2, IdleTyped
<1>4. PipeTyped'
  BY <1>1, <1>2, <1>3
<1>5. OneCall'
  BY <1>2, IdleTyped DEF OneCall
<1>6. ASSUME NEW p \in Paths, NEW w \in Seen, w # 0, Had(p, w)' PROVE Had(p, w)
  <2>1. ASSUME NEW b \in Actors, jobs'[b].path = p, jobs'[b].sum = w PROVE Had(p, w)
    BY <1>2, <1>6, <2>1, IdleTyped DEF Had
  <2>2. CASE rows'[p].sum = w
    BY <1>6, <2>2, NothingTyped DEF Had
  <2>3. CASE disk'[p].ver = w
    BY <2>3 DEF Had
  <2> QED BY <1>6, <2>1, <2>2, <2>3 DEF Had
<1>7. OwnVersions'
  BY <1>1, <1>6 DEF OwnVersions
<1>8. RowVouches'
  <2> SUFFICES ASSUME NEW p \in Paths, On(p), rows'[p].stamp = disk[p].stamp PROVE rows'[p].sum = disk[p].ver
    BY <1>1 DEF RowVouches
  <2>1. rows'[p] # NoRow
    BY NothingTyped
  <2> QED BY <2>1 DEF RowVouches, CallVouches
<1>9. CallVouches'
  <2> SUFFICES ASSUME NEW b \in Actors, jobs'[b].pc \in {"hashed", "touch"}
               PROVE  LET p == jobs[b].path IN
                      /\ On(p) /\ jobs[b].stamp = disk[p].stamp => jobs[b].sum = disk[p].ver
                      /\ jobs[b].pc = "touch" => rows'[p] = NoRow \/ rows'[p].sum = jobs[b].sum
    BY <1>1, <1>3 DEF CallVouches
  <2>1. jobs'[b] = jobs[b] /\ jobs[b].pc \in {"hashed", "touch"} /\ jobs[b].path \in Paths
    BY <1>3 DEF Calls
  <2>2. ASSUME NEW a \in Actors, jobs[a].path = jobs[b].path, jobs[a].pc \in {"hashed", "touch"},
               jobs'[a].pc \in {"idle", "lookup"}
        PROVE  FALSE
    BY <2>1, <2>2 DEF OneCall
  <2> QED BY <2>1, <2>2 DEF CallVouches
<1> QED BY <1>4, <1>5, <1>7, <1>8, <1>9

LEMMA TouchRowKeeps == ASSUME PipeInv, NEW a \in Actors, TouchRow(a) PROVE PipeInv'
<1> USE DEF PipeInv, PipeTyped
<1> DEFINE p == jobs[a].path
<1>1. p \in Paths /\ jobs[a] \in Calls /\ jobs[a].pc = "touch" /\ UNCHANGED <<disk, edits>> /\ Ends(a)
  BY DEF Calls, TouchRow, fileVars
<1>2. jobs'[a].pc = "idle"
  BY <1>1, IdleTyped, CallSet DEF Ends
<1>3. CASE rows' = rows
  BY <1>1, <1>3, RowKeeps
<1>4. CASE Indexed(p) /\ rows' = [rows EXCEPT ![p].stamp = jobs[a].stamp]
  <2> DEFINE r == [rows[p] EXCEPT !.stamp = jobs[a].stamp]
  <2>1. rows[p] # NoRow /\ rows[p] \in Rows
    BY <1>1, <1>4, NothingTyped DEF Indexed
  <2>2. r \in Rows /\ r.sum = rows[p].sum /\ r.stamp = jobs[a].stamp
    BY <1>1, <2>1 DEF Rows, Calls
  <2>3. rows' = [rows EXCEPT ![p] = r]
    BY <1>4
  <2> HIDE DEF r
  <2>4. rows' \in [Paths -> Rows \cup {NoRow}] /\ rows'[p] = r /\ \A q \in Paths : q # p => rows'[q] = rows[q]
    BY <1>1, <2>2, <2>3
  <2>5. rows'[p].sum = jobs[a].sum
    BY <1>1, <2>1, <2>2, <2>4 DEF CallVouches
  <2>6. \A q \in Paths : rows[q] = NoRow \/ rows[q] # NoRow
    OBVIOUS
  <2> HIDE DEF p
  <2> QED BY <1>1, <1>2, <2>2, <2>4, <2>5, RowKeeps DEF p
<1> QED BY <1>3, <1>4 DEF TouchRow

LEMMA UpsertKeeps == ASSUME PipeInv, NEW a \in Actors, Upsert(a) PROVE PipeInv'
<1> USE DEF PipeInv, PipeTyped
<1> DEFINE p == jobs[a].path
<1>1. /\ p \in Paths /\ jobs[a] \in Calls /\ jobs[a].pc = "hashed"
      /\ UNCHANGED <<disk, edits>> /\ Goes(a, "lookup")
  BY DEF Calls, Upsert, fileVars
<1>2. PICK i \in IF rows[p] = NoRow THEN NewIds ELSE {rows[p].id} :
        rows' = [rows EXCEPT ![p] = [id |-> i, sum |-> jobs[a].sum, stamp |-> jobs[a].stamp, status |-> "pending"]]
  BY DEF Upsert
<1> DEFINE r == [id |-> i, sum |-> jobs[a].sum, stamp |-> jobs[a].stamp, status |-> "pending"]
<1>3. i \in Ids
  BY <1>1 DEF NewIds, Unused, Rows
<1>4. r \in Rows /\ r.sum = jobs[a].sum /\ r.stamp = jobs[a].stamp
  BY <1>1, <1>3 DEF Rows, Calls
<1>5. rows' = [rows EXCEPT ![p] = r]
  BY <1>2
<1> HIDE DEF r
<1>6. rows' \in [Paths -> Rows \cup {NoRow}] /\ rows'[p] = r /\ \A q \in Paths : q # p => rows'[q] = rows[q]
  BY <1>1, <1>4, <1>5
<1>7. jobs'[a].pc = "lookup"
  BY <1>1 DEF Goes, Calls
<1> HIDE DEF p
<1> QED BY <1>1, <1>4, <1>6, <1>7, RowKeeps DEF p

LEMMA FinishKeeps == ASSUME PipeInv, NEW a \in Actors, Finish(a) PROVE PipeInv'
<1> USE DEF PipeInv, PipeTyped
<1>1. jobs[a].id # 0 /\ UNCHANGED <<disk, edits>> /\ Ends(a)
  BY DEF Finish, fileVars
<1>2. \A p \in Paths : \/ rows'[p] = rows[p]
                       \/ rows[p] # NoRow /\ rows'[p] = [rows[p] EXCEPT !.status = "indexed"]
  BY <1>1, NothingTyped DEF Finish
<1>3. ASSUME NEW p \in Paths, rows[p] # NoRow, rows'[p] = [rows[p] EXCEPT !.status = "indexed"]
      PROVE  rows'[p] \in Rows /\ rows'[p].sum = rows[p].sum /\ rows'[p].stamp = rows[p].stamp
  <2>1. rows[p] \in Rows
    BY <1>3
  <2> QED BY <1>3, <2>1 DEF Rows
<1>4. rows' \in [Paths -> Rows \cup {NoRow}]
  <2>1. \A p \in Paths : rows'[p] \in Rows \cup {NoRow}
    BY <1>2, <1>3
  <2>2. rows' = [p \in Paths |-> rows'[p]]
    BY DEF Finish
  <2> QED BY <2>1, <2>2
<1>5. \A p \in Paths : \/ rows'[p] = NoRow
                       \/ rows'[p].sum = rows[p].sum /\ rows'[p].stamp = rows[p].stamp /\ rows[p] # NoRow
  BY <1>2, <1>3
<1> QED BY <1>1, <1>4, <1>5, RowKeeps

LEMMA DropRowKeeps ==
    ASSUME PipeInv, NEW p \in Paths, DropRow(p), UNCHANGED <<disk, edits, jobs>> PROVE PipeInv'
<1> USE DEF PipeInv, PipeTyped
<1>1. rows' \in [Paths -> Rows \cup {NoRow}] /\ \A q \in Paths : rows'[q] = NoRow \/ rows'[q] = rows[q]
  BY DEF DropRow
<1> QED BY <1>1, RowKeeps

-----------------------------------------------------------------------------
(* The user's files.                                                           *)

\* A file changes: it is gone, or it has a stamp that nobody has seen yet, and the
\* content it had or one that nobody has seen yet.
LEMMA FileKeeps ==
    ASSUME PipeInv, UNCHANGED <<rows, jobs>>, edits' = edits + 1, NEW p \in Paths,
           NEW f \in [ver : Seen', stamp : Seen'], disk' = [disk EXCEPT ![p] = f],
           f = NoFile \/ (f.stamp = edits + 1 /\ f.ver \in {edits + 1, disk[p].ver} /\ f.ver # 0)
    PROVE  PipeInv'
<1> USE DEF PipeInv, PipeTyped
<1>1. edits' \in Nat /\ Seen' = Seen \cup {edits + 1} /\ edits + 1 \notin Seen /\ edits + 1 # 0
  BY DEF Seen
<1>2. disk' \in [Paths -> Files'] /\ disk'[p] = f /\ \A q \in Paths : q # p => disk'[q] = disk[q]
  BY <1>1 DEF Files
<1>3. rows' \in [Paths -> Rows' \cup {NoRow}] /\ jobs' \in [Actors -> Calls']
  <2>1. Rows \subseteq Rows' /\ Calls \subseteq Calls'
    BY <1>1 DEF Rows, Calls
  <2> QED BY <2>1
<1>4. \A q \in Paths : q # p => On(q)' = On(q)
  BY <1>2 DEF On
<1>5. PipeTyped'
  BY <1>1, <1>2, <1>3, <1>4 DEF On
<1>6. \A q \in Paths : rows[q].sum \in Seen /\ rows[q].stamp \in Seen
  BY NothingTyped DEF Rows, Seen
<1>7. \A b \in Actors : jobs[b].sum \in Seen /\ jobs[b].stamp \in Seen
  BY DEF Calls
<1>8. ASSUME NEW q \in Paths, NEW w \in Seen', w # 0, Had(q, w)'
      PROVE  Had(q, w) \/ (q = p /\ w = edits + 1)
  BY <1>2, <1>8, NothingTyped DEF Had
<1>9. ASSUME NEW q \in Paths, Had(q, edits + 1) PROVE FALSE
  <2>1. disk[q].ver \in Seen
    BY DEF Files
  <2> QED BY <1>1, <1>6, <1>7, <1>9, <2>1 DEF Had
<1>10. OwnVersions'
  BY <1>1, <1>8, <1>9 DEF OwnVersions
<1>11. RowVouches'
  BY <1>1, <1>2, <1>4, <1>6 DEF RowVouches, On
<1>12. CallVouches'
  <2>1. ASSUME NEW b \in Actors, On(p)', jobs[b].stamp = disk'[p].stamp PROVE FALSE
    BY <1>1, <1>2, <1>7, <2>1 DEF On
  <2>2. \A b \in Actors : jobs[b].path \in Paths
    BY DEF Calls
  <2> QED BY <1>2, <1>4, <2>1, <2>2 DEF CallVouches
<1> QED BY <1>5, <1>10, <1>11, <1>12 DEF OneCall

LEMMA EditsKeep ==
    ASSUME PipeInv, NEW p \in Paths, Edit(p) \/ TouchFile(p) \/ Delete(p) PROVE PipeInv'
<1> USE DEF PipeInv, PipeTyped
<1>1. UNCHANGED <<rows, jobs>> /\ edits' = edits + 1
  BY DEF Edit, TouchFile, Delete
<1>2. Seen' = Seen \cup {edits + 1} /\ 0 \in Seen
  BY <1>1 DEF Seen
<1>3. CASE Edit(p)
  <2> DEFINE f == [ver |-> edits + 1, stamp |-> edits + 1]
  <2>1. f \in [ver : Seen', stamp : Seen'] /\ disk' = [disk EXCEPT ![p] = f] /\ f.ver # 0
    BY <1>2, <1>3 DEF Edit
  <2> QED BY <1>1, <2>1, FileKeeps
<1>4. CASE TouchFile(p)
  <2> DEFINE f == [disk[p] EXCEPT !.stamp = edits + 1]
  <2>1. disk[p].ver # 0 /\ disk[p] \in Files
    BY <1>4 DEF TouchFile
  <2>2. f \in [ver : Seen', stamp : Seen'] /\ f.stamp = edits + 1 /\ f.ver = disk[p].ver
    BY <1>2, <2>1 DEF Files
  <2>3. disk' = [disk EXCEPT ![p] = f]
    BY <1>4 DEF TouchFile
  <2> HIDE DEF f
  <2> QED BY <1>1, <2>1, <2>2, <2>3, FileKeeps
<1>5. CASE Delete(p)
  <2>1. NoFile \in [ver : Seen', stamp : Seen'] /\ disk' = [disk EXCEPT ![p] = NoFile]
    BY <1>2, <1>5 DEF Delete, NoFile
  <2> QED BY <1>1, <2>1, FileKeeps
<1> QED BY <1>3, <1>4, <1>5

\* A crash forgets the calls and nothing that was written.
LEMMA RestartKeeps == ASSUME PipeInv, Restart PROVE PipeInv'
<1> USE DEF PipeInv, PipeTyped
<1>1. UNCHANGED <<disk, rows, edits>> /\ jobs' = [a \in Actors |-> Idle]
  BY DEF Restart, fileVars
<1>2. Calls' = Calls /\ Rows' = Rows /\ Files' = Files /\ Seen' = Seen /\ \A p : On(p)' = On(p)
  BY <1>1 DEF Calls, Rows, Files, Seen, On
<1>3. jobs' \in [Actors -> Calls] /\ \A a \in Actors : jobs'[a].pc = "idle" /\ jobs'[a].sum = 0
  BY <1>1, IdleTyped
<1>4. PipeTyped' /\ OneCall' /\ CallVouches'
  BY <1>1, <1>2, <1>3 DEF OneCall, CallVouches
<1>5. RowVouches'
  BY <1>1, <1>2 DEF RowVouches
<1>6. ASSUME NEW p \in Paths, NEW w \in Seen, w # 0, Had(p, w)' PROVE Had(p, w)
  BY <1>1, <1>3, <1>6 DEF Had
<1>7. OwnVersions'
  BY <1>2, <1>6 DEF OwnVersions
<1> QED BY <1>4, <1>5, <1>7

LEMMA StutterKeeps == ASSUME PipeInv, UNCHANGED <<disk, rows, jobs, edits>> PROVE PipeInv'
BY DropRowKeeps, RowKeeps DEF PipeInv, PipeTyped

LEMMA NextInv == ASSUME Undisturbed, PipeInv, [PlNext]_plVars PROVE PipeInv'
<1>1. ASSUME NEW a \in Actors, CallStep(a) PROVE PipeInv'
  <2>1. CASE FastSkip(a)
    BY <2>1, EndsKeeps DEF FastSkip, fileVars
  <2> QED BY <1>1, <2>1, HashKeeps, DedupKeeps, TouchRowKeeps, UpsertKeeps, LookupKeeps, DeriveKeeps, FinishKeeps
          DEF CallStep
<1>2. ASSUME NEW p \in Paths, PoolTakes(p) \/ ScanTakes(p) \/ ForceTakes(p) PROVE PipeInv'
  <2>1. UNCHANGED <<disk, rows, edits>>
    BY <1>2 DEF PoolTakes, ScanTakes, ForceTakes, fileVars
  <2>2. UNCHANGED jobs \/ \E a \in Actors : Take(a, p)
    BY <1>2 DEF PoolTakes, ScanTakes, ForceTakes, Actors
  <2> QED BY <2>1, <2>2, TakeKeeps, StutterKeeps
<1>3. ASSUME NEW p \in Paths, Edit(p) \/ TouchFile(p) \/ Delete(p) PROVE PipeInv'
  BY <1>3, EditsKeep
<1>4. ASSUME NEW p \in Paths, NEW q \in Paths, CopyOver(p, q) PROVE FALSE
  BY <1>4 DEF CopyOver, Undisturbed
<1>5. ASSUME NEW p \in Paths, RemoveByPath(p) \/ PruneMissing(p) PROVE PipeInv'
  BY <1>5, DropRowKeeps DEF RemoveByPath, PruneMissing, fileVars
<1>6. CASE PruneReads \/ PruneRemoves \/ PruneFails
  BY <1>6, StutterKeeps DEF PruneReads, PruneRemoves, PruneFails, fileVars
<1>7. CASE Restart
  BY <1>7, RestartKeeps
<1>8. CASE UNCHANGED plVars
  BY <1>8, StutterKeeps DEF plVars
<1> QED BY <1>1, <1>2, <1>3, <1>4, <1>5, <1>6, <1>7, <1>8 DEF PlNext

-----------------------------------------------------------------------------

\* An indexed row whose stamp is that of its file has the checksum of its file, so that
\* the fast skip of processFileInternal never leaves a changed file out, although the
\* stat, the read and the write of the row are three steps and anything may change or
\* crash in between.
THEOREM StampCorrect == Undisturbed => (PlSpec => []StampVouches)
<1> SUFFICES ASSUME Undisturbed PROVE PlSpec => []StampVouches
  OBVIOUS
<1>1. PlInit => PipeInv
  BY InitInv
<1>2. PipeInv /\ [PlNext]_plVars => PipeInv'
  BY NextInv
<1>3. PipeInv => StampVouches
  BY DEF PipeInv, RowVouches, StampVouches
<1> QED BY <1>1, <1>2, <1>3, PTL DEF PlSpec
=============================================================================
