------------------------------ MODULE Pipeline ------------------------------
(* The life of an asset's row (service/indexer.go): processFileInternal run by *)
(* the pool worker, by a scan and by ForceReprocess, against edits of the      *)
(* files, removals, crashes and Storage.Prune (service/storage.go).            *)
(*                                                                             *)
(* A file is its content, here the version that an edit gave it, and its stamp *)
(* (size and mtime).  The queue is a set; what the in-flight markers do is     *)
(* module Ingest's subject, here an event may simply be lost.                  *)
EXTENDS Integers, FiniteSets

CONSTANTS
    Paths, Ids,     \* file paths; asset ids, a new one is an unused one
    MaxEdits,       \* edits, touches and deletions by the user
    MaxForces,      \* calls of ForceReprocess
    MaxCrashes,
    Copies,         \* may a file be replaced by a copy of another one
    Overlap,        \* may two actors process one path at a time
    PruneMeanwhile, \* may rows be inserted between Prune's SELECT and ReadDir
    ForceRaces      \* may the file or the row change between the file's indexing and
                    \* the end of ForceReprocess

ASSUME IdsAreIds == Paths # {} /\ 0 \notin Ids /\ MaxEdits \in Nat

VARIABLES
    disk,           \* per path: the file, or NoFile
    rows,           \* per path: the row of assets, or NoRow
    thumbs,         \* per id: the content its thumbnail shows, or 0
    jobs,           \* per actor: the call it is in
    queue, gone,    \* create and remove events waiting
    kept,           \* the ids Prune read, or {} and not pruning
    pruning, edits, forces, crashes

\* Who runs processFileInternal: a pool worker, ScanDirectory, ForceReprocess.
Actors == {"pool", "scan", "force"}

fileVars == <<disk, edits>>
fsEvents == <<queue, gone>>
prunes   == <<kept, pruning>>
counters == <<forces, crashes>>
plVars   == <<disk, rows, thumbs, jobs, queue, gone, kept, pruning, edits, forces, crashes>>

NoFile == [ver |-> 0, stamp |-> 0]
NoRow  == [id |-> 0, sum |-> 0, stamp |-> 0, status |-> "none"]
Idle   == [pc |-> "idle", path |-> CHOOSE p \in Paths : TRUE, stamp |-> 0, sum |-> 0, id |-> 0]

Busy(a, p) == jobs[a] # Idle /\ jobs[a].path = p
On(p)      == disk[p] # NoFile
Indexed(p) == rows[p].status = "indexed"
Ends(a)    == jobs' = [jobs EXCEPT ![a] = Idle]
Goes(a, pc) == jobs' = [jobs EXCEPT ![a].pc = pc]

\* uuid.NewString: no row, no thumbnail directory and no running call has it.
Unused == Ids \ ({rows[p].id : p \in Paths} \cup {jobs[a].id : a \in Actors} \cup {i \in Ids : thumbs[i] # 0})
NewIds == {u \in Unused : u = CHOOSE v \in Unused : TRUE}

PlInit ==
    /\ disk = [p \in Paths |-> NoFile] /\ rows = [p \in Paths |-> NoRow]
    /\ thumbs = [i \in Ids |-> 0] /\ jobs = [a \in Actors |-> Idle]
    /\ queue = {} /\ gone = {} /\ kept = {} /\ pruning = FALSE
    /\ edits = 0 /\ forces = 0 /\ crashes = 0

-----------------------------------------------------------------------------
(* processFileInternal.                                                        *)

\* Steps 1: the stat.  A file that is missing ends the call.
Take(a, p) ==
    /\ jobs[a] = Idle /\ On(p)
    /\ (\E b \in Actors : Busy(b, p)) => Overlap
    /\ jobs' = [jobs EXCEPT ![a] = [Idle EXCEPT !.pc = "query", !.path = p, !.stamp = disk[p].stamp]]

PoolTakes(p) ==
    /\ p \in queue
    /\ Take("pool", p) \/ (jobs["pool"] = Idle /\ ~On(p) /\ UNCHANGED jobs)
    /\ queue' = queue \ {p}
    /\ UNCHANGED <<fileVars, rows, thumbs, gone, prunes, counters>>

ScanTakes(p) ==
    /\ Take("scan", p)
    /\ UNCHANGED <<fileVars, rows, thumbs, fsEvents, prunes, counters>>

\* The rebuild, or embedOne without a thumbnail: force, skipExif, skipThumb.
ForceTakes(p) ==
    /\ forces < MaxForces /\ Indexed(p)
    /\ ForceRaces \/ rows[p].sum = disk[p].ver
    /\ Take("force", p)
    /\ forces' = forces + 1
    /\ UNCHANGED <<fileVars, rows, thumbs, fsEvents, prunes, crashes>>

\* Mutant: a row left pending by a crash is taken for processed.
SameStampAnyStatus(a) ==
    LET p == jobs[a].path IN rows[p] # NoRow /\ rows[p].stamp = jobs[a].stamp

SameStamp(a) ==
    LET p == jobs[a].path IN Indexed(p) /\ rows[p].stamp = jobs[a].stamp

\* Step 2: "already processed".
FastSkip(a) ==
    /\ jobs[a].pc = "query" /\ a # "force" /\ SameStamp(a)
    /\ Ends(a)
    /\ UNCHANGED <<fileVars, rows, thumbs, fsEvents, prunes, counters>>

\* Step 3: the content is read; the file may have changed since the stat.
Hash(a) ==
    LET f == disk[jobs[a].path] IN
    /\ jobs[a].pc = "query" /\ (a = "force" \/ ~SameStamp(a))
    /\ jobs' = [jobs EXCEPT ![a] = IF f = NoFile THEN Idle ELSE [@ EXCEPT !.pc = "hashed", !.sum = f.ver]]
    /\ UNCHANGED <<fileVars, rows, thumbs, fsEvents, prunes, counters>>

Twin(a) == \E q \in Paths : Indexed(q) /\ rows[q].sum = jobs[a].sum

\* Step 4: some indexed row has this checksum.
Dedup(a) ==
    /\ jobs[a].pc = "hashed" /\ a # "force" /\ Twin(a)
    /\ Goes(a, "touch")
    /\ UNCHANGED <<fileVars, rows, thumbs, fsEvents, prunes, counters>>

\* UPDATE assets SET mtime ... WHERE file_path = ? AND status = 'indexed'.
TouchRow(a) ==
    LET p == jobs[a].path IN
    /\ jobs[a].pc = "touch"
    /\ rows' = IF Indexed(p) THEN [rows EXCEPT ![p].stamp = jobs[a].stamp] ELSE rows
    /\ Ends(a)
    /\ UNCHANGED <<fileVars, thumbs, fsEvents, prunes, counters>>

\* Mutant: the stamp of the moment of the INSERT, not of the stat.
UpsertRestats(a) ==
    LET p == jobs[a].path IN
    /\ jobs[a].pc = "hashed" /\ (a = "force" \/ ~Twin(a))
    /\ \E i \in IF rows[p] = NoRow THEN Unused ELSE {rows[p].id} :
          rows' = [rows EXCEPT ![p] = [id |-> i, sum |-> jobs[a].sum, stamp |-> disk[p].stamp, status |-> "pending"]]
    /\ Goes(a, "lookup")
    /\ UNCHANGED <<fileVars, thumbs, fsEvents, prunes, counters>>

\* Step 7: INSERT, or on conflict UPDATE, which keeps the id.
Upsert(a) ==
    LET p == jobs[a].path IN
    /\ jobs[a].pc = "hashed" /\ (a = "force" \/ ~Twin(a))
    /\ \E i \in IF rows[p] = NoRow THEN NewIds ELSE {rows[p].id} :
          rows' = [rows EXCEPT ![p] = [id |-> i, sum |-> jobs[a].sum, stamp |-> jobs[a].stamp, status |-> "pending"]]
    /\ Goes(a, "lookup")
    /\ UNCHANGED <<fileVars, thumbs, fsEvents, prunes, counters>>

Lookup(a) ==
    LET r == rows[jobs[a].path] IN
    /\ jobs[a].pc = "lookup"
    /\ jobs' = [jobs EXCEPT ![a] = IF r = NoRow THEN Idle ELSE [@ EXCEPT !.pc = "derive", !.id = r.id]]
    /\ UNCHANGED <<fileVars, rows, thumbs, fsEvents, prunes, counters>>

\* Steps 8 and 9: thumb.Generate reads the file again, and ignores its errors.
Derive(a) ==
    LET f == disk[jobs[a].path] IN
    /\ jobs[a].pc = "derive"
    /\ thumbs' = IF a = "force" \/ f = NoFile THEN thumbs ELSE [thumbs EXCEPT ![jobs[a].id] = f.ver]
    /\ Goes(a, "finish")
    /\ UNCHANGED <<fileVars, rows, fsEvents, prunes, counters>>

\* Step 11: UPDATE assets SET status = 'indexed' WHERE id = ?.
Finish(a) ==
    /\ jobs[a].pc = "finish"
    /\ rows' = [p \in Paths |-> IF rows[p].id = jobs[a].id THEN [rows[p] EXCEPT !.status = "indexed"] ELSE rows[p]]
    /\ Ends(a)
    /\ UNCHANGED <<fileVars, thumbs, fsEvents, prunes, counters>>

CallStep(a) ==
    FastSkip(a) \/ Hash(a) \/ Dedup(a) \/ TouchRow(a) \/ Upsert(a) \/ Lookup(a) \/ Derive(a) \/ Finish(a)

-----------------------------------------------------------------------------
(* The user's files and the watcher's fsEvents, which may be lost.               *)

MayChange(p) == Busy("force", p) => ForceRaces

Editable(p) == edits < MaxEdits /\ MayChange(p)

Edit(p) ==
    /\ Editable(p) /\ edits' = edits + 1
    /\ disk' = [disk EXCEPT ![p] = [ver |-> edits + 1, stamp |-> edits + 1]]
    /\ queue' \in {queue, queue \cup {p}}
    /\ UNCHANGED <<rows, thumbs, jobs, gone, prunes, counters>>

TouchFile(p) ==
    /\ Editable(p) /\ On(p) /\ edits' = edits + 1
    /\ disk' = [disk EXCEPT ![p].stamp = edits + 1]
    /\ queue' \in {queue, queue \cup {p}}
    /\ UNCHANGED <<rows, thumbs, jobs, gone, prunes, counters>>

Delete(p) ==
    /\ Editable(p) /\ On(p) /\ edits' = edits + 1
    /\ disk' = [disk EXCEPT ![p] = NoFile]
    /\ gone' \in {gone, gone \cup {p}}
    /\ UNCHANGED <<rows, thumbs, jobs, queue, prunes, counters>>

CopyOver(p, q) ==
    /\ Copies /\ Editable(p) /\ p # q /\ On(q) /\ edits' = edits + 1
    /\ disk' = [disk EXCEPT ![p] = [ver |-> disk[q].ver, stamp |-> edits + 1]]
    /\ queue' \in {queue, queue \cup {p}}
    /\ UNCHANGED <<rows, thumbs, jobs, gone, prunes, counters>>

\* The row goes, and with it the thumbnail directory of its id.
DropRow(p) ==
    /\ rows' = [rows EXCEPT ![p] = NoRow]
    /\ thumbs' = IF rows[p] = NoRow THEN thumbs ELSE [thumbs EXCEPT ![rows[p].id] = 0]

\* The watcher's Remove event, perhaps late.
RemoveByPath(p) ==
    /\ p \in gone /\ MayChange(p)
    /\ DropRow(p)
    /\ gone' = gone \ {p}
    /\ UNCHANGED <<fileVars, jobs, queue, prunes, counters>>

\* pruneMissingUnder, at the end of a scan (its steps are in module MountScan).
PruneMissing(p) ==
    /\ rows[p] # NoRow /\ ~On(p) /\ jobs["scan"] = Idle
    /\ DropRow(p)
    /\ UNCHANGED <<fileVars, jobs, fsEvents, prunes, counters>>

-----------------------------------------------------------------------------
(* Storage.Prune: the ids of assets, then the directories that none of them    *)
(* names.                                                                      *)

PruneReads ==
    /\ ~pruning /\ pruning' = TRUE
    /\ kept' = {rows[p].id : p \in Paths} \ {0}
    /\ UNCHANGED <<fileVars, rows, thumbs, jobs, fsEvents, counters>>

PruneRemoves ==
    /\ pruning /\ pruning' = FALSE /\ kept' = {}
    /\ PruneMeanwhile \/ \A p \in Paths : rows[p] # NoRow => rows[p].id \in kept
    /\ thumbs' = [i \in Ids |-> IF i \in kept THEN thumbs[i] ELSE 0]
    /\ UNCHANGED <<fileVars, rows, jobs, fsEvents, counters>>

PruneFails ==
    /\ pruning /\ pruning' = FALSE /\ kept' = {}
    /\ UNCHANGED <<fileVars, rows, thumbs, jobs, fsEvents, counters>>

\* A crash loses the queue and every call; the next start runs ScanPending.
Restart ==
    /\ crashes < MaxCrashes /\ crashes' = crashes + 1
    /\ jobs' = [a \in Actors |-> Idle]
    /\ queue' = {p \in Paths : rows[p].status = "pending"}
    /\ gone' = {} /\ kept' = {} /\ pruning' = FALSE
    /\ UNCHANGED <<fileVars, rows, thumbs, forces>>

PlNext ==
    \/ \E a \in Actors : CallStep(a)
    \/ \E p \in Paths : PoolTakes(p) \/ ScanTakes(p) \/ ForceTakes(p)
    \/ \E p \in Paths : Edit(p) \/ TouchFile(p) \/ Delete(p) \/ \E q \in Paths : CopyOver(p, q)
    \/ \E p \in Paths : RemoveByPath(p) \/ PruneMissing(p)
    \/ PruneReads \/ PruneRemoves \/ PruneFails \/ Restart

\* Calls end; the periodic scan reaches every path and every row again and again,
\* and Prune runs daily.
PlFairness ==
    /\ \A a \in Actors : WF_plVars(CallStep(a))
    /\ \A p \in Paths : WF_plVars(PoolTakes(p)) /\ SF_plVars(ScanTakes(p)) /\ WF_plVars(RemoveByPath(p))
    /\ \A p \in Paths : SF_plVars(PruneMissing(p))
    /\ WF_plVars(PruneReads) /\ SF_plVars(PruneRemoves) /\ WF_plVars(PruneFails)

PlSpec == PlInit /\ [][PlNext]_plVars /\ PlFairness

-----------------------------------------------------------------------------
(* Properties.                                                                 *)

PlTypeOK ==
    /\ \A p \in Paths : rows[p] = NoRow \/ rows[p] \in [id : Ids, sum : 1..MaxEdits, stamp : 0..MaxEdits, status : {"pending", "indexed"}]
    /\ \A p, q \in Paths : rows[p].id = rows[q].id => p = q \/ rows[p] = NoRow
    /\ thumbs \in [Ids -> 0..MaxEdits]
    /\ \A a \in Actors : jobs[a].pc = "idle" <=> jobs[a] = Idle

\* "A file that's already status='indexed' with unchanged file_size+mtime can be
\* confirmed as already processed": while a row has the stamp of its file, it also
\* has the file's checksum, whatever was edited between the steps of a call.
StampVouches ==
    \A p \in Paths : Indexed(p) /\ On(p) /\ rows[p].stamp = disk[p].stamp => rows[p].sum = disk[p].ver

Reflected ==
    /\ \A p \in Paths : IF On(p) THEN Indexed(p) /\ rows[p].sum = disk[p].ver /\ thumbs[rows[p].id] = disk[p].ver
                        ELSE rows[p] = NoRow
    /\ \A i \in Ids : thumbs[i] # 0 => \E p \in Paths : rows[p].id = i

\* Once the user leaves the files alone, the library comes to show exactly them:
\* lost events, rows left pending by a crash, late removals and orphaned
\* thumbnails are all made up for.
Converges == <>[]Reflected
=============================================================================
