------------------------------- MODULE Ingest -------------------------------
(* The ingestion front of the photo service: how a file path travels from an   *)
(* upload or a file-system event through the seen map and the bounded queue to *)
(* a worker, and how the ingest tracker turns those files into batches that    *)
(* become "done" after an idle period (service/indexer.go, route/v1/tus.go).   *)
(*                                                                             *)
(* One action is one critical section: a sync.Map operation, a channel         *)
(* operation, or a stretch of code under the tracker's mutex.  A time.AfterFunc *)
(* that has been armed may fire at any later moment; the delays themselves     *)
(* (6 s idle, 6 s cleanup, 30 s echo suppression) are not modelled.            *)
EXTENDS Integers, Sequences, FiniteSets

CONSTANTS
    Paths,          \* gallery paths
    Batches,        \* batch identifiers, Legacy among them
    Legacy,         \* the batch "" of watcher and scan enqueues
    Albums,         \* album identifiers
    NoAlbum,        \* an upload that names no album
    Uploads,        \* the completed TUS uploads the handler will receive
    Workers,        \* indexing workers
    Enqueuers,      \* goroutines that may call Enqueue: watcher, bus, ScanPending
    NoPath,
    Capacity,       \* of the queue channel (1024 in NewIndexer)
    MaxEvents,      \* bound: how many times Enqueue is called
    MoveMayFail     \* whether rename and copy into the gallery may both fail

UploadType == [path: Paths, batch: Batches, total: Nat, album: Albums \cup {NoAlbum}]

ASSUME ConstantsAssumption ==
    /\ Legacy \in Batches
    /\ NoAlbum \notin Albums
    /\ NoPath \notin Paths
    /\ Uploads \subseteq UploadType
    /\ IsFiniteSet(Workers)
    /\ Capacity \in Nat \ {0}
    /\ MaxEvents \in Nat
    /\ MoveMayFail \in BOOLEAN

VARIABLES
    seen,           \* in-flight markers (sync.Map)
    queue,          \* channel of [path, batch]
    worker,         \* per worker: pc and the item it holds
    enq,            \* per enqueuer: pc and the path it is enqueueing
    events,         \* Enqueue calls made so far
    tus,            \* the goroutine that consumes CompleteUploads
    outcome,        \* per upload: what the upload store records
    pendingAlbum,   \* path -> album to join once indexed
    inAlbum,        \* the <<path, album>> memberships made by albumAssigner
    batches,        \* ingestTracker.batches; a slot may be absent
    fired,          \* per batch id: idle timers that fired, onIdle not yet run
    finishing,      \* per batch id: onIdle calls past their critical section
    cleanup,        \* per batch id: sleeping goroutines that will drop the slot
    announced,      \* per batch id: calls of onBatchDone
    echo            \* per path: pending delayed seen.Delete timers

trackerVars == <<batches, fired, finishing, cleanup, announced>>
tusVars     == <<tus, outcome>>
albumVars   == <<pendingAlbum, inAlbum>>
enqVars     == <<enq, events>>
vars == <<seen, queue, worker, enqVars, tusVars, albumVars, trackerVars, echo>>

Item == [path: Paths, batch: Batches]

\* fixed: the caller declared the size; growing: every arrival adds to the total.
BatchRec == [mode: {"absent", "fixed", "growing"}, enqueued: Nat, total: Nat,
             current: Nat, timer: {"off", "armed"}]

NoBatch == [mode |-> "absent", enqueued |-> 0, total |-> 0, current |-> 0, timer |-> "off"]

Live(rec) == rec.mode # "absent"

IdleWorker == [pc |-> "idle", path |-> NoPath, batch |-> Legacy]
IdleEnq    == [pc |-> "idle", path |-> NoPath]
IdleTus    == [pc |-> "idle", path |-> NoPath, batch |-> Legacy]

Init ==
    /\ seen = {}
    /\ queue = <<>>
    /\ worker = [w \in Workers |-> IdleWorker]
    /\ enq = [e \in Enqueuers |-> IdleEnq]
    /\ events = 0
    /\ tus = IdleTus
    /\ outcome = [u \in Uploads |-> "uploading"]
    /\ pendingAlbum = [p \in Paths |-> NoAlbum]
    /\ inAlbum = {}
    /\ batches = [b \in Batches |-> NoBatch]
    /\ fired = [b \in Batches |-> 0]
    /\ finishing = [b \in Batches |-> 0]
    /\ cleanup = [b \in Batches |-> 0]
    /\ announced = [b \in Batches |-> 0]
    /\ echo = [p \in Paths |-> 0]

-----------------------------------------------------------------------------
(* ingestTracker: the bodies of noteEnqueueWithBatch and noteResultWithBatch   *)
(* as functions of one batch slot.                                             *)

\* Mutant: the first arrival is not counted.
NewBatchUncounted(n) ==
    [NoBatch EXCEPT !.mode = IF n > 0 THEN "fixed" ELSE "growing",
                    !.total = IF n > 0 THEN n ELSE 1]

\* Mutant: the declared size is ignored.
NewBatchAccumulates(n) ==
    [NoBatch EXCEPT !.mode = "growing", !.enqueued = 1, !.total = 1]

NewBatch(n) ==
    [NoBatch EXCEPT !.mode = IF n > 0 THEN "fixed" ELSE "growing",
                    !.enqueued = 1,
                    !.total = IF n > 0 THEN n ELSE 1]

\* A fixed total is only extended by arrivals beyond it; the idle timer stops.
NoteEnqueue(rec, n) ==
    IF ~Live(rec) THEN NewBatch(n)
    ELSE [rec EXCEPT !.enqueued = @ + 1,
                     !.total = IF rec.mode = "fixed" /\ rec.enqueued < rec.total THEN @ ELSE @ + 1,
                     !.timer = "off"]

\* Mutant: the timer is armed only beyond the total.
NoteResultLate(rec) ==
    IF ~Live(rec) THEN rec
    ELSE [rec EXCEPT !.current = @ + 1,
                     !.timer = IF rec.current + 1 > rec.total THEN "armed" ELSE @]

\* Mutant: one result counts for two files.
NoteResultTwice(rec) ==
    IF ~Live(rec) THEN rec
    ELSE [rec EXCEPT !.current = @ + 2,
                     !.timer = IF rec.current + 2 >= rec.total THEN "armed" ELSE @]

\* A result for a slot that is gone is dropped.
NoteResult(rec) ==
    IF ~Live(rec) THEN rec
    ELSE [rec EXCEPT !.current = @ + 1,
                     !.timer = IF rec.current + 1 >= rec.total THEN "armed" ELSE @]

-----------------------------------------------------------------------------
(* Enqueue, as called by the watcher, by the bus consumers and by ScanPending. *)

\* Mutant: the path is queued without looking for a marker.
EnqueueMarkBlind(e, p) ==
    /\ enq[e].pc = "idle" /\ events < MaxEvents
    /\ seen' = seen \cup {p}
    /\ enq' = [enq EXCEPT ![e] = [pc |-> "marked", path |-> p]]
    /\ events' = events + 1
    /\ UNCHANGED <<queue, worker, tusVars, albumVars, trackerVars, echo>>

\* LoadOrStore: an occupied path makes the call return at once, which changes
\* nothing here; only the calls that take the marker are steps.
EnqueueMark(e, p) ==
    /\ enq[e].pc = "idle" /\ events < MaxEvents
    /\ p \notin seen
    /\ seen' = seen \cup {p}
    /\ enq' = [enq EXCEPT ![e] = [pc |-> "marked", path |-> p]]
    /\ events' = events + 1
    /\ UNCHANGED <<queue, worker, tusVars, albumVars, trackerVars, echo>>

EnqueuePush(e) ==
    /\ enq[e].pc = "marked" /\ Len(queue) < Capacity
    /\ queue' = Append(queue, [path |-> enq[e].path, batch |-> Legacy])
    /\ enq' = [enq EXCEPT ![e].pc = "pushed"]
    /\ UNCHANGED <<seen, worker, events, tusVars, albumVars, trackerVars, echo>>

\* Mutant: the marker survives a full queue.
EnqueueFullKeepsMarker(e) ==
    /\ enq[e].pc = "marked" /\ Len(queue) >= Capacity
    /\ enq' = [enq EXCEPT ![e] = IdleEnq]
    /\ UNCHANGED <<seen, queue, worker, events, tusVars, albumVars, trackerVars, echo>>

\* The queue is full: the default branch releases the marker.
EnqueueFull(e) ==
    /\ enq[e].pc = "marked" /\ Len(queue) >= Capacity
    /\ seen' = seen \ {enq[e].path}
    /\ enq' = [enq EXCEPT ![e] = IdleEnq]
    /\ UNCHANGED <<queue, worker, events, tusVars, albumVars, trackerVars, echo>>

\* The item is already in the queue when it is counted: a worker may be faster.
EnqueueNote(e) ==
    /\ enq[e].pc = "pushed"
    /\ batches' = [batches EXCEPT ![Legacy] = NoteEnqueue(@, 0)]
    /\ enq' = [enq EXCEPT ![e] = IdleEnq]
    /\ UNCHANGED <<seen, queue, worker, events, tusVars, albumVars,
                   fired, finishing, cleanup, announced, echo>>

-----------------------------------------------------------------------------
(* ingestStagedFile, run by the single CompleteUploads goroutine: MarkAndReserve *)
(* and SetPendingAlbum, then the rename, then SubmitReserved.                  *)

TusReserve(u) ==
    /\ tus.pc = "idle" /\ outcome[u] = "uploading"
    /\ u.path \notin seen
    /\ seen' = seen \cup {u.path}
    /\ batches' = [batches EXCEPT ![u.batch] = NoteEnqueue(@, u.total)]
    /\ pendingAlbum' = [pendingAlbum EXCEPT ![u.path] = IF u.album # NoAlbum THEN u.album ELSE @]
    /\ tus' = [pc |-> "reserved", path |-> u.path, batch |-> u.batch]
    /\ outcome' = [outcome EXCEPT ![u] = "ingesting"]
    /\ UNCHANGED <<queue, worker, enqVars, inAlbum, fired, finishing, cleanup, announced, echo>>

\* "path already pending": the upload is recorded as failed, with that reason.
TusRefused(u) ==
    /\ tus.pc = "idle" /\ outcome[u] = "uploading"
    /\ u.path \in seen
    /\ outcome' = [outcome EXCEPT ![u] = "refused"]
    /\ UNCHANGED <<seen, queue, worker, enqVars, tus, albumVars, trackerVars, echo>>

TusMove ==
    /\ tus.pc = "reserved"
    /\ tus' = [tus EXCEPT !.pc = "moved"]
    /\ UNCHANGED <<seen, queue, worker, enqVars, outcome, albumVars, trackerVars, echo>>

Ingesting(u) == outcome[u] = "ingesting"

\* Rename and copy both failed: the error return releases nothing.
TusMoveFails ==
    /\ MoveMayFail /\ tus.pc = "reserved"
    /\ tus' = IdleTus
    /\ outcome' = [u \in Uploads |-> IF Ingesting(u) THEN "failed" ELSE outcome[u]]
    /\ UNCHANGED <<seen, queue, worker, enqVars, albumVars, trackerVars, echo>>

\* SubmitReserved never tells its caller whether the item entered the queue, and
\* the upload is recorded as completed either way.
Submitted ==
    /\ tus.pc = "moved"
    /\ tus' = IdleTus
    /\ outcome' = [u \in Uploads |-> IF Ingesting(u) THEN "completed" ELSE outcome[u]]

TusSubmit ==
    /\ Submitted /\ Len(queue) < Capacity
    /\ queue' = Append(queue, [path |-> tus.path, batch |-> tus.batch])
    /\ UNCHANGED <<seen, worker, enqVars, albumVars, trackerVars, echo>>

\* The queue is full: the marker goes, the batch count and the album entry stay.
TusDrop ==
    /\ Submitted /\ Len(queue) >= Capacity
    /\ seen' = seen \ {tus.path}
    /\ UNCHANGED <<queue, worker, enqVars, albumVars, trackerVars, echo>>

-----------------------------------------------------------------------------
(* Start: the loop of one worker.  Indexing itself is one step here; what it   *)
(* does to the asset rows is the subject of other modules.                     *)

WorkerTake(w) ==
    /\ worker[w].pc = "idle" /\ queue # <<>>
    /\ worker' = [worker EXCEPT ![w] = [pc |-> "taken", path |-> Head(queue).path,
                                        batch |-> Head(queue).batch]]
    /\ queue' = Tail(queue)
    /\ UNCHANGED <<seen, enqVars, tusVars, albumVars, trackerVars, echo>>

\* Mutant: the album entry is read and left in the map.
IndexFileKeepsEntry(p) ==
    /\ pendingAlbum' = pendingAlbum
    /\ \/ inAlbum' = inAlbum
       \/ /\ pendingAlbum[p] # NoAlbum
          /\ inAlbum' = inAlbum \cup {<<p, pendingAlbum[p]>>}

\* takePendingAlbum at the head of processFileInternal, albumAssigner after the
\* row is written: a file that fails earlier joins no album.
IndexFile(p) ==
    /\ pendingAlbum' = [pendingAlbum EXCEPT ![p] = NoAlbum]
    /\ \/ inAlbum' = inAlbum
       \/ /\ pendingAlbum[p] # NoAlbum
          /\ inAlbum' = inAlbum \cup {<<p, pendingAlbum[p]>>}

WorkerIndex(w) ==
    /\ worker[w].pc = "taken"
    /\ IndexFile(worker[w].path)
    /\ worker' = [worker EXCEPT ![w].pc = "indexed"]
    /\ UNCHANGED <<seen, queue, enqVars, tusVars, trackerVars, echo>>

WorkerNote(w) ==
    /\ worker[w].pc = "indexed"
    /\ batches' = [batches EXCEPT ![worker[w].batch] = NoteResult(@)]
    /\ worker' = [worker EXCEPT ![w].pc = "noted"]
    /\ UNCHANGED <<seen, queue, enqVars, tusVars, albumVars,
                   fired, finishing, cleanup, announced, echo>>

\* Named batches keep the marker until a timer removes it, to swallow the echo
\* of the rename; the legacy batch releases it at once.
WorkerRelease(w) ==
    /\ worker[w].pc = "noted"
    /\ IF worker[w].batch = Legacy
       THEN seen' = seen \ {worker[w].path} /\ echo' = echo
       ELSE seen' = seen /\ echo' = [echo EXCEPT ![worker[w].path] = @ + 1]
    /\ worker' = [worker EXCEPT ![w] = IdleWorker]
    /\ UNCHANGED <<queue, enqVars, tusVars, albumVars, trackerVars>>

\* Mutant: the timer is not consumed when it fires.
EchoExpiresAgain(p) ==
    /\ echo' = [echo EXCEPT ![p] = @ - 1]
    /\ seen' = seen \ {p}
    /\ UNCHANGED <<queue, worker, enqVars, tusVars, albumVars, trackerVars>>

EchoExpires(p) ==
    /\ echo[p] > 0
    /\ echo' = [echo EXCEPT ![p] = @ - 1]
    /\ seen' = seen \ {p}
    /\ UNCHANGED <<queue, worker, enqVars, tusVars, albumVars, trackerVars>>

-----------------------------------------------------------------------------
(* The idle timer, onIdle and the goroutine that removes the slot.             *)

TimerFires(b) ==
    /\ batches[b].timer = "armed"
    /\ batches' = [batches EXCEPT ![b].timer = "off"]
    /\ fired' = [fired EXCEPT ![b] = @ + 1]
    /\ UNCHANGED <<seen, queue, worker, enqVars, tusVars, albumVars,
                   finishing, cleanup, announced, echo>>

Settled(rec) == Live(rec) /\ rec.current >= rec.total

\* The early return of onIdle: the slot is gone or has new work.
OnIdleReturns(b) ==
    /\ fired[b] > 0 /\ ~Settled(batches[b])
    /\ fired' = [fired EXCEPT ![b] = @ - 1]
    /\ UNCHANGED <<seen, queue, worker, enqVars, tusVars, albumVars,
                   batches, finishing, cleanup, announced, echo>>

\* onIdle clears the timer field without stopping it: a timer armed meanwhile
\* still fires.
OnIdle(b) ==
    /\ fired[b] > 0 /\ Settled(batches[b])
    /\ fired' = [fired EXCEPT ![b] = IF batches[b].timer = "armed" THEN @ ELSE @ - 1]
    /\ batches' = [batches EXCEPT ![b].timer = "off"]
    /\ finishing' = [finishing EXCEPT ![b] = @ + 1]
    /\ UNCHANGED <<seen, queue, worker, enqVars, tusVars, albumVars, cleanup, announced, echo>>

\* The callback runs outside the mutex; then the cleanup goroutine is spawned.
BatchDone(b) ==
    /\ finishing[b] > 0
    /\ finishing' = [finishing EXCEPT ![b] = @ - 1]
    /\ announced' = [announced EXCEPT ![b] = @ + 1]
    /\ cleanup' = [cleanup EXCEPT ![b] = @ + 1]
    /\ UNCHANGED <<seen, queue, worker, enqVars, tusVars, albumVars, batches, fired, echo>>

\* delete(t.batches, batchID) by key, whatever the slot holds by then.
Cleanup(b) ==
    /\ cleanup[b] > 0
    /\ cleanup' = [cleanup EXCEPT ![b] = @ - 1]
    /\ fired' = [fired EXCEPT ![b] = IF batches[b].timer = "armed" THEN @ + 1 ELSE @]
    /\ batches' = [batches EXCEPT ![b] = NoBatch]
    /\ UNCHANGED <<seen, queue, worker, enqVars, tusVars, albumVars,
                   finishing, announced, echo>>

-----------------------------------------------------------------------------
EnqueueStep(e) == EnqueuePush(e) \/ EnqueueFull(e) \/ EnqueueNote(e)
TusStep        == TusMove \/ TusMoveFails \/ TusSubmit \/ TusDrop
WorkerStep(w)  == WorkerTake(w) \/ WorkerIndex(w) \/ WorkerNote(w) \/ WorkerRelease(w)
TrackerStep(b) == TimerFires(b) \/ OnIdleReturns(b) \/ OnIdle(b) \/ BatchDone(b) \/ Cleanup(b)

Next ==
    \/ \E e \in Enqueuers, p \in Paths : EnqueueMark(e, p)
    \/ \E e \in Enqueuers : EnqueueStep(e)
    \/ \E u \in Uploads : TusReserve(u) \/ TusRefused(u)
    \/ TusStep
    \/ \E w \in Workers : WorkerStep(w)
    \/ \E p \in Paths : EchoExpires(p)
    \/ \E b \in Batches : TrackerStep(b)

Spec == Init /\ [][Next]_vars

\* Goroutines and timers run: nothing is assumed of when uploads complete or
\* file events arrive.
Fairness ==
    /\ \A e \in Enqueuers : WF_vars(EnqueueStep(e))
    /\ WF_vars(TusStep)
    /\ \A w \in Workers : WF_vars(WorkerStep(w))
    /\ \A p \in Paths : WF_vars(EchoExpires(p))
    /\ \A b \in Batches : WF_vars(TimerFires(b)) /\ WF_vars(BatchDone(b)) /\ WF_vars(Cleanup(b))
                          /\ WF_vars(OnIdleReturns(b) \/ OnIdle(b))

FairSpec == Spec /\ Fairness

-----------------------------------------------------------------------------
(* Properties.                                                                 *)

TypeOK ==
    /\ seen \subseteq Paths
    /\ queue \in Seq(Item)
    /\ worker \in [Workers -> [pc: {"idle", "taken", "indexed", "noted"},
                              path: Paths \cup {NoPath}, batch: Batches]]
    /\ \A w \in Workers : worker[w].pc # "idle" => worker[w].path \in Paths
    /\ enq \in [Enqueuers -> [pc: {"idle", "marked", "pushed"}, path: Paths \cup {NoPath}]]
    /\ \A e \in Enqueuers : enq[e].pc # "idle" => enq[e].path \in Paths
    /\ events \in 0..MaxEvents
    /\ tus \in [pc: {"idle", "reserved", "moved"}, path: Paths \cup {NoPath}, batch: Batches]
    /\ tus.pc # "idle" => tus.path \in Paths
    /\ outcome \in [Uploads -> {"uploading", "ingesting", "completed", "refused", "failed"}]
    /\ pendingAlbum \in [Paths -> Albums \cup {NoAlbum}]
    /\ inAlbum \subseteq Paths \X Albums
    /\ batches \in [Batches -> BatchRec]
    /\ fired \in [Batches -> Nat]
    /\ finishing \in [Batches -> Nat]
    /\ cleanup \in [Batches -> Nat]
    /\ announced \in [Batches -> Nat]
    /\ echo \in [Paths -> Nat]

Busy(w)   == worker[w].pc # "idle"
Queued(i) == queue[i].path

\* Enqueue: "only one copy processed at a time".  Whatever the watcher, the
\* uploads, the workers and the echo timers do, a path is never twice in the
\* queue or at two workers, nor queued while a worker still has it.
OneCopyInFlight ==
    /\ \A i, j \in 1..Len(queue) : i # j => Queued(i) # Queued(j)
    /\ \A v, w \in Workers : v # w /\ Busy(v) /\ Busy(w) => worker[v].path # worker[w].path
    /\ \A i \in 1..Len(queue), w \in Workers : Busy(w) => worker[w].path # Queued(i)

\* Files of batch b that were reserved or queued and whose result is not noted.
Outstanding(b) ==
    Cardinality({i \in 1..Len(queue) : queue[i].batch = b})
    + Cardinality({w \in Workers : worker[w].batch = b /\ worker[w].pc \in {"taken", "indexed"}})
    + (IF tus.pc # "idle" /\ tus.batch = b THEN 1 ELSE 0)

Named == Batches \ {Legacy}

\* No file is lost to the books of an upload batch, whose counters, queue items,
\* workers and reservation are updated by different goroutines: what was
\* announced is either finished or still on its way.
CountsConserved ==
    \A b \in Named : Live(batches[b]) => batches[b].enqueued = batches[b].current + Outstanding(b)

AllHandedOver(b) == Live(batches[b]) /\ batches[b].enqueued >= batches[b].total

WillFinish(b) ==
    batches[b].timer = "armed" \/ fired[b] > 0 \/ finishing[b] > 0 \/ cleanup[b] > 0

\* SubmitReserved: "the idle timer will eventually fire on the remaining files
\* and not deadlock".  A batch that has received all its files and has none
\* left to process has a timer armed or is already being finished.
NoStrandedBatch ==
    \A b \in Batches :
        AllHandedOver(b) /\ Outstanding(b) = 0 /\ (\A e \in Enqueuers : enq[e].pc # "pushed")
        => WillFinish(b)

HoldsEntry(p) ==
    \/ tus.pc # "idle" /\ tus.path = p
    \/ \E i \in 1..Len(queue) : Queued(i) = p
    \/ \E w \in Workers : worker[w].pc = "taken" /\ worker[w].path = p

\* The pendingAlbum field: "so failed files don't leak entries".  An entry lives
\* only while the file that will consume it is on its way to a worker: a leaked
\* one would put a later, unrelated file of that name into the album.
NoLeakedAlbumEntry == \A p \in Paths : pendingAlbum[p] # NoAlbum => HoldsEntry(p)

\* ingestStagedFile registers the album "BEFORE submit so the worker cannot
\* start processing the file before the pending entry is stored": an uploaded
\* file that waits in the queue still has the album its upload asked for.
AlbumRidesAlong ==
    \A u \in Uploads, i \in 1..Len(queue) :
        /\ queue[i] = [path |-> u.path, batch |-> u.batch]
        /\ u.batch # Legacy /\ u.album # NoAlbum /\ outcome[u] = "completed"
        => pendingAlbum[u.path] = u.album

\* The post-batch hooks (clustering, backfills) run once for an upload batch of
\* declared size, however its results, timers and stale timers interleave.
AnnouncedOnce == \A b \in Named : announced[b] + finishing[b] <= 1

\* onIdle never declares an upload batch done while one of its files is still
\* reserved, queued or at a worker.
DoneOnlyWhenSettled ==
    [][\A b \in Named : finishing'[b] > finishing[b] => Outstanding(b) = 0]_vars

\* A batch that has received all its files is eventually done and gone.
BatchSettles == \A b \in Named : AllHandedOver(b) ~> ~Live(batches[b])

MoveFailed(p) == \E u \in Uploads : u.path = p /\ outcome[u] = "failed"

\* Every in-flight marker is eventually released, so that a later change of the
\* file is not dropped for ever ("release the seen lock so it can be retried
\* later").  What is left out is an upload that could not be moved: its marker
\* stays until the service is restarted.
MarkerReleased == \A p \in Paths : p \in seen ~> (p \notin seen \/ MoveFailed(p))
=============================================================================
