---------------------------- MODULE IngestProofs ----------------------------
(* What the ingestion front promises for every number of paths, batches,       *)
(* uploads, workers, scans and enqueuing goroutines and every queue capacity:  *)
(* a path is processed once at a time, an uploaded file keeps its album, the   *)
(* counters of a batch add up, and a batch is done once and not too early.     *)
EXTENDS IngestScan, TLAPS, FiniteSetTheorems

(* A marker has one holder at a time: the goroutine that took it, then the     *)
(* queue item, then the worker, then the echo timer.  OneCopyInFlight is not   *)
(* inductive without this: an item is unique in the queue because its marker   *)
(* was free when it was taken, and a timer that outlived its marker would free *)
(* one that somebody else holds.                                               *)

Marking(e) == enq[e].pc = "marked"
Reserved   == tus.pc # "idle"

\* Whoever holds a path holds its marker.
Marked ==
    /\ \A e \in Enqueuers : Marking(e) => enq[e].path \in seen
    /\ Reserved => tus.path \in seen
    /\ \A i \in 1..Len(queue) : Queued(i) \in seen
    /\ \A w \in Workers : Busy(w) => worker[w].path \in seen
    /\ \A p \in Paths : echo[p] > 0 => p \in seen

\* No path has two holders of different kinds, nor two timers.
Exclusive ==
    /\ \A d, e \in Enqueuers : d # e /\ Marking(d) /\ Marking(e) => enq[d].path # enq[e].path
    /\ \A e \in Enqueuers : Marking(e) =>
          /\ Reserved => enq[e].path # tus.path
          /\ \A i \in 1..Len(queue) : enq[e].path # Queued(i)
          /\ \A w \in Workers : Busy(w) => enq[e].path # worker[w].path
          /\ echo[enq[e].path] = 0
    /\ Reserved =>
          /\ \A i \in 1..Len(queue) : tus.path # Queued(i)
          /\ \A w \in Workers : Busy(w) => tus.path # worker[w].path
          /\ echo[tus.path] = 0
    /\ \A i \in 1..Len(queue) : echo[Queued(i)] = 0
    /\ \A w \in Workers : Busy(w) => echo[worker[w].path] = 0
    /\ \A p \in Paths : echo[p] <= 1

Held == Marked /\ Exclusive /\ OneCopyInFlight

MarkerInv == TypeOK /\ Marked /\ Exclusive /\ OneCopyInFlight
-----------------------------------------------------------------------------
\* noteEnqueueWithBatch and noteResultWithBatch keep a batch slot well formed.
LEMMA NoteTypes ==
    ASSUME NEW rec \in BatchRec, NEW n \in Nat
    PROVE  NoteEnqueue(rec, n) \in BatchRec /\ NoteResult(rec) \in BatchRec
<1>1. NewBatch(n) \in BatchRec
  BY DEF NewBatch, NoBatch, BatchRec
<1>2. NoteEnqueue(rec, n) \in BatchRec
  <2> DEFINE tot == IF rec.mode = "fixed" /\ rec.enqueued < rec.total
                    THEN rec.total ELSE rec.total + 1
             r1 == [rec EXCEPT !.enqueued = rec.enqueued + 1]
             r2 == [r1 EXCEPT !.total = tot]
  <2>1. r1 \in BatchRec /\ tot \in Nat
    BY DEF BatchRec
  <2>2. r2 \in BatchRec
    BY <2>1 DEF BatchRec
  <2>3. [r2 EXCEPT !.timer = "off"] \in BatchRec
    BY <2>2 DEF BatchRec
  <2>4. Live(rec) => NoteEnqueue(rec, n) = [r2 EXCEPT !.timer = "off"]
    BY DEF NoteEnqueue, BatchRec
  <2> QED
    BY <1>1, <2>3, <2>4 DEF NoteEnqueue
<1>3. NoteResult(rec) \in BatchRec
  <2> DEFINE r1 == [rec EXCEPT !.current = rec.current + 1]
             t == IF rec.current + 1 >= rec.total THEN "armed" ELSE rec.timer
  <2>1. r1 \in BatchRec /\ t \in {"off", "armed"}
    BY DEF BatchRec
  <2>2. [r1 EXCEPT !.timer = t] \in BatchRec
    BY <2>1 DEF BatchRec
  <2>3. Live(rec) => NoteResult(rec) = [r1 EXCEPT !.timer = t]
    BY DEF NoteResult, BatchRec
  <2> QED
    BY <2>2, <2>3 DEF NoteResult
<1> QED
  BY <1>2, <1>3

\* The type invariant is inductive.
LEMMA TypeStep == TypeOK /\ [Next]_vars => TypeOK'
<1> SUFFICES ASSUME TypeOK, [Next]_vars PROVE TypeOK'
  OBVIOUS
<1> USE ConstantsAssumption DEF UploadType
<1>1. ASSUME NEW e \in Enqueuers, NEW p \in Paths, EnqueueMark(e, p) PROVE TypeOK'
  <2>1. /\ seen' = seen \cup {p} /\ events < MaxEvents /\ events' = events + 1
        /\ enq' = [enq EXCEPT ![e] = [pc |-> "marked", path |-> p]]
    BY <1>1 DEF EnqueueMark
  <2>2. UNCHANGED <<queue, worker, tus, outcome, pendingAlbum, inAlbum, batches, fired,
                    finishing, cleanup, announced, echo>>
    BY <1>1 DEF EnqueueMark, tusVars, albumVars, trackerVars
  <2>3. seen' \subseteq Paths /\ events' \in 0..MaxEvents
    BY <2>1 DEF TypeOK
  <2>4. /\ enq' \in [Enqueuers -> [pc: {"idle", "marked", "pushed"}, path: Paths \cup {NoPath}]]
        /\ \A f \in Enqueuers : enq'[f].pc # "idle" => enq'[f].path \in Paths
    BY <2>1 DEF TypeOK
  <2> QED
    BY <2>2, <2>3, <2>4 DEF TypeOK
<1>2. ASSUME NEW e \in Enqueuers, EnqueuePush(e) PROVE TypeOK'
  <2>1. enq[e].path \in Paths
    BY <1>2 DEF EnqueuePush, TypeOK
  <2>2. queue' \in Seq(Item)
    BY <1>2, <2>1 DEF EnqueuePush, TypeOK, Item
  <2> QED
    BY <1>2, <2>1, <2>2 DEF EnqueuePush, TypeOK, tusVars, albumVars, trackerVars
<1>3. ASSUME NEW e \in Enqueuers, EnqueueFull(e) PROVE TypeOK'
  BY <1>3 DEF EnqueueFull, TypeOK, tusVars, albumVars, trackerVars, IdleEnq
<1>4. ASSUME NEW e \in Enqueuers, EnqueueNote(e) PROVE TypeOK'
  <2>1. NoteEnqueue(batches[Legacy], 0) \in BatchRec
    BY NoteTypes DEF TypeOK
  <2> QED
    BY <1>4, <2>1 DEF EnqueueNote, TypeOK, tusVars, albumVars, IdleEnq
<1>5. ASSUME NEW u \in Uploads, TusReserve(u) PROVE TypeOK'
  <2>1. NoteEnqueue(batches[u.batch], u.total) \in BatchRec
    BY NoteTypes DEF TypeOK
  <2>2. /\ seen' = seen \cup {u.path}
        /\ batches' = [batches EXCEPT ![u.batch] = NoteEnqueue(batches[u.batch], u.total)]
        /\ pendingAlbum' = [pendingAlbum EXCEPT
                               ![u.path] = IF u.album # NoAlbum THEN u.album ELSE pendingAlbum[u.path]]
        /\ tus' = [pc |-> "reserved", path |-> u.path, batch |-> u.batch]
        /\ outcome' = [outcome EXCEPT ![u] = "ingesting"]
    BY <1>5 DEF TusReserve
  <2>3. UNCHANGED <<queue, worker, enq, events, inAlbum, fired, finishing, cleanup,
                    announced, echo>>
    BY <1>5 DEF TusReserve, enqVars
  <2>4. seen' \subseteq Paths /\ batches' \in [Batches -> BatchRec]
    BY <2>1, <2>2 DEF TypeOK
  <2>5. pendingAlbum' \in [Paths -> Albums \cup {NoAlbum}]
    BY <2>2 DEF TypeOK
  <2>6. /\ tus' \in [pc: {"idle", "reserved", "moved"}, path: Paths \cup {NoPath}, batch: Batches]
        /\ tus'.path \in Paths
        /\ outcome' \in [Uploads -> {"uploading", "ingesting", "completed", "refused", "failed"}]
    BY <2>2 DEF TypeOK
  <2> QED
    BY <2>3, <2>4, <2>5, <2>6 DEF TypeOK
<1>6. ASSUME NEW u \in Uploads, TusRefused(u) PROVE TypeOK'
  BY <1>6 DEF TusRefused, TypeOK, enqVars, albumVars, trackerVars
<1>7. ASSUME TusStep PROVE TypeOK'
  <2>1. CASE TusMove
    BY <2>1 DEF TusMove, TypeOK, enqVars, albumVars, trackerVars
  <2>2. CASE TusMoveFails
    BY <2>2 DEF TusMoveFails, TypeOK, enqVars, albumVars, trackerVars, IdleTus
  <2>3. CASE TusSubmit
    <3>1. queue' \in Seq(Item)
      BY <2>3 DEF TusSubmit, Submitted, TypeOK, Item
    <3> QED
      BY <2>3, <3>1 DEF TusSubmit, Submitted, TypeOK, enqVars, albumVars, trackerVars, IdleTus
  <2>4. CASE TusDrop
    BY <2>4 DEF TusDrop, Submitted, TypeOK, enqVars, albumVars, trackerVars, IdleTus
  <2> QED
    BY <1>7, <2>1, <2>2, <2>3, <2>4 DEF TusStep
<1>8. ASSUME NEW w \in Workers, WorkerStep(w) PROVE TypeOK'
  <2>1. CASE WorkerTake(w)
    <3>1. Head(queue) \in Item /\ Tail(queue) \in Seq(Item)
      BY <2>1 DEF WorkerTake, TypeOK
    <3>2. UNCHANGED <<seen, enq, events, tus, outcome, pendingAlbum, inAlbum, batches, fired,
                      finishing, cleanup, announced, echo>>
      BY <2>1 DEF WorkerTake, enqVars, tusVars, albumVars, trackerVars
    <3>3. /\ queue' = Tail(queue)
          /\ worker' = [worker EXCEPT ![w] = [pc |-> "taken", path |-> Head(queue).path,
                                              batch |-> Head(queue).batch]]
      BY <2>1 DEF WorkerTake
    <3>4. worker' \in [Workers -> [pc: {"idle", "taken", "indexed", "noted"},
                                  path: Paths \cup {NoPath}, batch: Batches]]
          /\ \A v \in Workers : worker'[v].pc # "idle" => worker'[v].path \in Paths
      BY <3>1, <3>3 DEF TypeOK, Item
    <3> QED
      BY <3>1, <3>2, <3>3, <3>4 DEF TypeOK
  <2>2. CASE WorkerIndex(w)
    <3>1. worker[w].path \in Paths
      BY <2>2 DEF WorkerIndex, TypeOK
    <3>2. pendingAlbum' \in [Paths -> Albums \cup {NoAlbum}] /\ inAlbum' \subseteq Paths \X Albums
      <4>1. /\ pendingAlbum \in [Paths -> Albums \cup {NoAlbum}] /\ inAlbum \subseteq Paths \X Albums
            /\ IndexFile(worker[w].path)
        BY <2>2 DEF WorkerIndex, TypeOK
      <4> QED BY ONLY <3>1, <4>1 DEF IndexFile
    <3>3. worker' = [worker EXCEPT ![w].pc = "indexed"]
      BY <2>2 DEF WorkerIndex
    <3>4. UNCHANGED <<seen, queue, enq, events, tus, outcome, batches, fired, finishing,
                      cleanup, announced, echo>>
      BY <2>2 DEF WorkerIndex, enqVars, tusVars, trackerVars
    <3> QED
      BY <3>1, <3>2, <3>3, <3>4 DEF TypeOK
  <2>3. CASE WorkerNote(w)
    <3>1. NoteResult(batches[worker[w].batch]) \in BatchRec
      BY NoteTypes DEF TypeOK
    <3> QED
      BY <2>3, <3>1 DEF WorkerNote, TypeOK, enqVars, tusVars, albumVars
  <2>4. CASE WorkerRelease(w)
    <3>1. worker[w].path \in Paths
      BY <2>4 DEF WorkerRelease, TypeOK
    <3>2. seen' \subseteq Paths /\ echo' \in [Paths -> Nat]
      <4>1. seen \subseteq Paths /\ echo \in [Paths -> Nat]
        BY DEF TypeOK
      <4> QED
        BY <2>4, <3>1, <4>1 DEF WorkerRelease
    <3>3. worker' = [worker EXCEPT ![w] = IdleWorker]
      BY <2>4 DEF WorkerRelease
    <3>4. UNCHANGED <<queue, enq, events, tus, outcome, pendingAlbum, inAlbum, batches, fired,
                      finishing, cleanup, announced>>
      BY <2>4 DEF WorkerRelease, enqVars, tusVars, albumVars, trackerVars
    <3>5. worker' \in [Workers -> [pc: {"idle", "taken", "indexed", "noted"},
                                  path: Paths \cup {NoPath}, batch: Batches]]
          /\ \A v \in Workers : worker'[v].pc # "idle" => worker'[v].path \in Paths
      BY <3>3 DEF TypeOK, IdleWorker
    <3> QED
      BY <3>2, <3>4, <3>5 DEF TypeOK
  <2> QED
    BY <1>8, <2>1, <2>2, <2>3, <2>4 DEF WorkerStep
<1>9. ASSUME NEW p \in Paths, EchoExpires(p) PROVE TypeOK'
  <2>1. seen \subseteq Paths /\ echo \in [Paths -> Nat]
    BY DEF TypeOK
  <2>2. seen' \subseteq Paths /\ echo' \in [Paths -> Nat]
    BY <1>9, <2>1 DEF EchoExpires
  <2> QED
    BY <1>9, <2>2 DEF EchoExpires, TypeOK, enqVars, tusVars, albumVars, trackerVars
<1>10. ASSUME NEW b \in Batches, TrackerStep(b) PROVE TypeOK'
  <2>8. /\ batches \in [Batches -> BatchRec]
        /\ fired \in [Batches -> Nat]
        /\ finishing \in [Batches -> Nat]
        /\ cleanup \in [Batches -> Nat]
        /\ announced \in [Batches -> Nat]
    BY DEF TypeOK
  <2>6. NoBatch \in BatchRec
    BY DEF NoBatch, BatchRec
  <2>7. [batches EXCEPT ![b].timer = "off"] \in [Batches -> BatchRec]
    <3>1. [batches[b] EXCEPT !.timer = "off"] \in BatchRec
      BY <2>8 DEF BatchRec
    <3> QED
      BY <3>1, <2>8
  <2>1. CASE TimerFires(b)
    <3>1. fired' \in [Batches -> Nat]
      BY <2>1, <2>8 DEF TimerFires
    <3>2. batches' \in [Batches -> BatchRec]
      BY <2>1, <2>7 DEF TimerFires
    <3> QED
      BY <2>1, <3>1, <3>2 DEF TimerFires, TypeOK, enqVars, tusVars, albumVars
  <2>2. CASE OnIdleReturns(b)
    <3>1. fired' \in [Batches -> Nat]
      BY <2>2, <2>8 DEF OnIdleReturns
    <3> QED
      BY <2>2, <3>1 DEF OnIdleReturns, TypeOK, enqVars, tusVars, albumVars
  <2>3. CASE OnIdle(b)
    <3>1. fired' \in [Batches -> Nat] /\ finishing' \in [Batches -> Nat]
      BY <2>3, <2>8 DEF OnIdle
    <3>2. batches' \in [Batches -> BatchRec]
      BY <2>3, <2>7 DEF OnIdle
    <3> QED
      BY <2>3, <3>1, <3>2 DEF OnIdle, TypeOK, enqVars, tusVars, albumVars
  <2>4. CASE BatchDone(b)
    <3>1. /\ finishing' \in [Batches -> Nat]
          /\ announced' \in [Batches -> Nat]
          /\ cleanup' \in [Batches -> Nat]
      BY <2>4, <2>8 DEF BatchDone
    <3> QED
      BY <2>4, <3>1 DEF BatchDone, TypeOK, enqVars, tusVars, albumVars
  <2>5. CASE Cleanup(b)
    <3>1. fired' \in [Batches -> Nat] /\ cleanup' \in [Batches -> Nat]
      BY <2>5, <2>8 DEF Cleanup
    <3>2. batches' \in [Batches -> BatchRec]
      BY <2>5, <2>6, <2>8 DEF Cleanup
    <3> QED
      BY <2>5, <3>1, <3>2 DEF Cleanup, TypeOK, enqVars, tusVars, albumVars
  <2> QED
    BY <1>10, <2>1, <2>2, <2>3, <2>4, <2>5 DEF TrackerStep
<1>11. CASE UNCHANGED vars
  BY <1>11 DEF vars, enqVars, tusVars, albumVars, trackerVars, TypeOK
<1> QED
  BY <1>1, <1>2, <1>3, <1>4, <1>5, <1>6, <1>7, <1>8, <1>9, <1>10, <1>11 DEF Next, EnqueueStep

\* Every variable of the ingestion front keeps its type.
THEOREM TypeCorrect == Spec => []TypeOK
<1>1. Init => TypeOK
  BY ConstantsAssumption DEF Init, TypeOK, Item, BatchRec, NoBatch, IdleWorker, IdleEnq, IdleTus
<1> QED
  BY <1>1, TypeStep, PTL DEF Spec

-----------------------------------------------------------------------------
\* A step that only moves a holder on, and touches neither markers nor queue nor
\* timers, keeps the invariant.
LEMMA HeldFrame ==
    ASSUME Held,
           seen' = seen, queue' = queue, echo' = echo,
           \A e \in Enqueuers : Marking(e)' => Marking(e) /\ enq'[e].path = enq[e].path,
           Reserved' => Reserved /\ tus'.path = tus.path,
           \A w \in Workers : Busy(w)' => Busy(w) /\ worker'[w].path = worker[w].path
    PROVE  Held'
<1>1. Marked'
  BY DEF Held, Marked, Queued
<1>2. Exclusive'
  BY DEF Held, Exclusive, Queued
<1>3. OneCopyInFlight'
  BY DEF Held, OneCopyInFlight, Queued
<1> QED
  BY <1>1, <1>2, <1>3 DEF Held

\* What the two queue operations leave at each position.
LEMMA QueueAppend ==
    ASSUME queue \in Seq(Item), NEW x \in Item, queue' = Append(queue, x)
    PROVE  /\ Len(queue') = Len(queue) + 1
           /\ \A i \in 1..Len(queue) : i \in 1..Len(queue') /\ queue'[i] = queue[i]
           /\ queue'[Len(queue')] = x
           /\ \A i \in 1..Len(queue') : i \in 1..Len(queue) \/ i = Len(queue')
OBVIOUS

LEMMA QueueTail ==
    ASSUME queue \in Seq(Item), queue # <<>>, queue' = Tail(queue)
    PROVE  /\ 1 \in 1..Len(queue) /\ Head(queue) = queue[1]
           /\ \A i \in 1..Len(queue') : i + 1 \in 2..Len(queue) /\ queue'[i] = queue[i + 1]
OBVIOUS

\* What waits in the queue is a gallery path.
LEMMA QueuedPath == TypeOK => \A i \in 1..Len(queue) : Queued(i) \in Paths
<1> SUFFICES ASSUME queue \in Seq(Item), NEW i \in 1..Len(queue) PROVE Queued(i) \in Paths
  BY DEF TypeOK
<1>1. queue[i] \in Item
  OBVIOUS
<1> QED
  BY <1>1 DEF Queued, Item

\* The markers keep one holder each across every step.
LEMMA HeldStep == TypeOK /\ Held /\ [Next]_vars => Held'
<1> SUFFICES ASSUME TypeOK, Held, [Next]_vars PROVE Held'
  OBVIOUS
<1>1. ASSUME NEW e \in Enqueuers, NEW p \in Paths, EnqueueMark(e, p) PROVE Held'
  <2>1. /\ p \notin seen /\ seen' = seen \cup {p}
        /\ enq' = [enq EXCEPT ![e] = [pc |-> "marked", path |-> p]]
        /\ queue' = queue /\ worker' = worker /\ tus' = tus /\ echo' = echo
    BY <1>1 DEF EnqueueMark, tusVars
  <2>2. \A d \in Enqueuers : enq'[d] = IF d = e THEN [pc |-> "marked", path |-> p] ELSE enq[d]
    BY <2>1 DEF TypeOK
  <2>3. echo[p] = 0
    BY <2>1 DEF Held, Marked, TypeOK
  <2>4. Marked'
    BY <2>1, <2>2 DEF Held, Marked, Marking, Reserved, Busy, Queued
  <2>5. Exclusive'
    BY <2>1, <2>2, <2>3 DEF Held, Marked, Exclusive, Marking, Reserved, Busy, Queued
  <2>6. OneCopyInFlight'
    BY <2>1 DEF Held, OneCopyInFlight, Busy, Queued
  <2> QED
    BY <2>4, <2>5, <2>6 DEF Held
<1>2. ASSUME NEW e \in Enqueuers, EnqueuePush(e) PROVE Held'
  <2> DEFINE x == [path |-> enq[e].path, batch |-> Legacy]
  <2>1. /\ Marking(e) /\ enq[e].path \in Paths
        /\ queue' = Append(queue, x) /\ x \in Item
        /\ enq' = [enq EXCEPT ![e].pc = "pushed"]
        /\ seen' = seen /\ worker' = worker /\ tus' = tus /\ echo' = echo
    BY <1>2, ConstantsAssumption DEF EnqueuePush, tusVars, Marking, TypeOK, Item
  <2>2. \A d \in Enqueuers : Marking(d)' => d # e /\ Marking(d) /\ enq'[d].path = enq[d].path
    BY <2>1 DEF Marking, TypeOK
  <2>3. /\ \A i \in 1..Len(queue) : queue'[i] = queue[i]
        /\ \A i \in 1..Len(queue') : i \in 1..Len(queue) \/ Queued(i)' = enq[e].path
        /\ \A i, j \in 1..Len(queue') : i # j => i \in 1..Len(queue) \/ j \in 1..Len(queue)
    BY <2>1, QueueAppend DEF TypeOK, Queued
  <2>4. Marked'
    BY <2>1, <2>2, <2>3 DEF Held, Marked, Reserved, Busy, Queued
  <2>5. Exclusive'
    BY <2>1, <2>2, <2>3 DEF Held, Exclusive, Reserved, Busy, Queued
  <2>6. OneCopyInFlight'
    BY <2>1, <2>2, <2>3 DEF Held, Exclusive, OneCopyInFlight, Busy, Queued
  <2> QED
    BY <2>4, <2>5, <2>6 DEF Held
<1>3. ASSUME NEW e \in Enqueuers, EnqueueFull(e) PROVE Held'
  <2>1. /\ Marking(e) /\ seen' = seen \ {enq[e].path}
        /\ enq' = [enq EXCEPT ![e] = IdleEnq]
        /\ queue' = queue /\ worker' = worker /\ tus' = tus /\ echo' = echo
    BY <1>3 DEF EnqueueFull, tusVars, Marking
  <2>2. \A d \in Enqueuers : Marking(d)' => d # e /\ Marking(d) /\ enq'[d].path = enq[d].path
    BY <2>1 DEF Marking, TypeOK, IdleEnq
  <2>3. Marked'
    BY <2>1, <2>2 DEF Held, Marked, Exclusive, Reserved, Busy, Queued
  <2>4. Exclusive'
    BY <2>1, <2>2 DEF Held, Exclusive, Reserved, Busy, Queued
  <2>5. OneCopyInFlight'
    BY <2>1 DEF Held, OneCopyInFlight, Busy, Queued
  <2> QED
    BY <2>3, <2>4, <2>5 DEF Held
<1>4. ASSUME NEW e \in Enqueuers, EnqueueNote(e) PROVE Held'
  <2>1. /\ seen' = seen /\ queue' = queue /\ worker' = worker /\ tus' = tus /\ echo' = echo
        /\ enq' = [enq EXCEPT ![e] = IdleEnq]
    BY <1>4 DEF EnqueueNote, tusVars
  <2>2. \A d \in Enqueuers : Marking(d)' => Marking(d) /\ enq'[d].path = enq[d].path
    BY <2>1 DEF Marking, TypeOK, IdleEnq
  <2> QED
    BY <2>1, <2>2, HeldFrame DEF Reserved, Busy
<1>5. ASSUME NEW u \in Uploads, TusReserve(u) PROVE Held'
  <2>1. /\ ~Reserved /\ u.path \in Paths /\ u.path \notin seen /\ seen' = seen \cup {u.path}
        /\ tus' = [pc |-> "reserved", path |-> u.path, batch |-> u.batch]
        /\ queue' = queue /\ worker' = worker /\ enq' = enq /\ echo' = echo
    BY <1>5, ConstantsAssumption DEF TusReserve, enqVars, Reserved, UploadType
  <2>2. echo[u.path] = 0
    BY <2>1 DEF Held, Marked, TypeOK
  <2>3. Marked'
    BY <2>1 DEF Held, Marked, Marking, Busy, Queued
  <2>4. Exclusive'
    BY <2>1, <2>2 DEF Held, Marked, Exclusive, Marking, Busy, Queued
  <2>5. OneCopyInFlight'
    BY <2>1 DEF Held, OneCopyInFlight, Busy, Queued
  <2> QED
    BY <2>3, <2>4, <2>5 DEF Held
<1>6. ASSUME NEW u \in Uploads, TusRefused(u) PROVE Held'
  <2>1. /\ seen' = seen /\ queue' = queue /\ worker' = worker /\ tus' = tus
        /\ echo' = echo /\ enq' = enq
    BY <1>6 DEF TusRefused, enqVars
  <2> QED
    BY <2>1, HeldFrame DEF Marking, Reserved, Busy
<1>7. CASE TusMove \/ TusMoveFails
  <2>1. /\ seen' = seen /\ queue' = queue /\ worker' = worker /\ echo' = echo /\ enq' = enq
        /\ Reserved' => Reserved /\ tus'.path = tus.path
    BY <1>7 DEF TusMove, TusMoveFails, enqVars, Reserved, IdleTus, TypeOK
  <2> QED
    BY <2>1, HeldFrame DEF Marking, Busy
<1>8. CASE TusSubmit
  <2> DEFINE x == [path |-> tus.path, batch |-> tus.batch]
  <2>1. /\ Reserved /\ ~Reserved' /\ tus.path \in Paths
        /\ queue' = Append(queue, x) /\ x \in Item
        /\ seen' = seen /\ worker' = worker /\ enq' = enq /\ echo' = echo
    BY <1>8 DEF TusSubmit, Submitted, enqVars, Reserved, IdleTus, TypeOK, Item
  <2>2. /\ \A i \in 1..Len(queue) : queue'[i] = queue[i]
        /\ \A i \in 1..Len(queue') : i \in 1..Len(queue) \/ Queued(i)' = tus.path
        /\ \A i, j \in 1..Len(queue') : i # j => i \in 1..Len(queue) \/ j \in 1..Len(queue)
    BY <2>1, QueueAppend DEF TypeOK, Queued
  <2>3. Marked'
    BY <2>1, <2>2 DEF Held, Marked, Marking, Busy, Queued
  <2>4. Exclusive'
    BY <2>1, <2>2 DEF Held, Exclusive, Marking, Busy, Queued
  <2>5. OneCopyInFlight'
    BY <2>1, <2>2 DEF Held, Exclusive, OneCopyInFlight, Busy, Queued
  <2> QED
    BY <2>3, <2>4, <2>5 DEF Held
<1>9. CASE TusDrop
  <2>1. /\ Reserved /\ ~Reserved' /\ seen' = seen \ {tus.path}
        /\ queue' = queue /\ worker' = worker /\ enq' = enq /\ echo' = echo
    BY <1>9 DEF TusDrop, Submitted, enqVars, Reserved, IdleTus
  <2>2. Marked'
    BY <2>1 DEF Held, Marked, Exclusive, Marking, Busy, Queued
  <2>3. Exclusive'
    BY <2>1 DEF Held, Exclusive, Marking, Busy, Queued
  <2>4. OneCopyInFlight'
    BY <2>1 DEF Held, OneCopyInFlight, Busy, Queued
  <2> QED
    BY <2>2, <2>3, <2>4 DEF Held
<1>10. ASSUME NEW w \in Workers, WorkerTake(w) PROVE Held'
  <2>1. /\ ~Busy(w) /\ queue # <<>> /\ queue' = Tail(queue)
        /\ worker' = [worker EXCEPT ![w] = [pc |-> "taken", path |-> Head(queue).path,
                                            batch |-> Head(queue).batch]]
        /\ seen' = seen /\ tus' = tus /\ enq' = enq /\ echo' = echo
    BY <1>10 DEF WorkerTake, Busy, tusVars, enqVars
  <2>2. /\ 1 \in 1..Len(queue) /\ Head(queue) = queue[1]
        /\ \A i \in 1..Len(queue') :
              i + 1 \in 1..Len(queue) /\ i + 1 # 1 /\ Queued(i)' = Queued(i + 1)
        /\ \A i, j \in 1..Len(queue') : i # j => i + 1 # j + 1
    BY <2>1, QueueTail DEF TypeOK, Queued
  <2>3. \A v \in Workers : Busy(v)' =>
            \/ v = w /\ worker'[v].path = Queued(1)
            \/ v # w /\ Busy(v) /\ worker'[v].path = worker[v].path
    BY <2>1, <2>2 DEF Busy, Queued, TypeOK
  <2>4. Marked'
    BY <2>1, <2>2, <2>3 DEF Held, Marked, Marking, Reserved
  <2>5. Exclusive'
    BY <2>1, <2>2, <2>3 DEF Held, Exclusive, Marking, Reserved
  <2>6. OneCopyInFlight'
    BY <2>1, <2>2, <2>3 DEF Held, OneCopyInFlight
  <2> QED
    BY <2>4, <2>5, <2>6 DEF Held
<1>11. ASSUME NEW w \in Workers, WorkerIndex(w) \/ WorkerNote(w) PROVE Held'
  <2>1. /\ seen' = seen /\ queue' = queue /\ tus' = tus /\ echo' = echo /\ enq' = enq
        /\ \/ worker' = [worker EXCEPT ![w].pc = "indexed"]
           \/ worker' = [worker EXCEPT ![w].pc = "noted"]
        /\ Busy(w)
    BY <1>11 DEF WorkerIndex, WorkerNote, tusVars, enqVars, Busy
  <2>2. \A v \in Workers : Busy(v)' => Busy(v) /\ worker'[v].path = worker[v].path
    <3>1. CASE worker' = [worker EXCEPT ![w].pc = "indexed"]
      BY <2>1, <3>1 DEF Busy, TypeOK
    <3>2. CASE worker' = [worker EXCEPT ![w].pc = "noted"]
      BY <2>1, <3>2 DEF Busy, TypeOK
    <3> QED
      BY <2>1, <3>1, <3>2
  <2> QED
    BY <2>1, <2>2, HeldFrame DEF Marking, Reserved
<1>12. ASSUME NEW w \in Workers, WorkerRelease(w) PROVE Held'
  <2> DEFINE q == worker[w].path
  <2>1. /\ Busy(w) /\ q \in Paths
        /\ worker' = [worker EXCEPT ![w] = IdleWorker]
        /\ queue' = queue /\ tus' = tus /\ enq' = enq
    BY <1>12 DEF WorkerRelease, tusVars, enqVars, Busy, TypeOK
  <2>2. \A v \in Workers : Busy(v)' => v # w /\ Busy(v) /\ worker'[v].path = worker[v].path
    BY <2>1 DEF Busy, IdleWorker, TypeOK
  <2>3. OneCopyInFlight'
    BY <2>1, <2>2 DEF Held, OneCopyInFlight, Queued
  <2>4. CASE seen' = seen \ {q} /\ echo' = echo
    <3>1. Marked'
      BY <2>1, <2>2, <2>4 DEF Held, Marked, Exclusive, OneCopyInFlight, Marking, Reserved, Queued
    <3>2. Exclusive'
      BY <2>1, <2>2, <2>4 DEF Held, Exclusive, Marking, Reserved, Queued
    <3> QED
      BY <2>3, <3>1, <3>2 DEF Held
  <2>5. CASE seen' = seen /\ echo' = [echo EXCEPT ![q] = @ + 1]
    <3>1. /\ echo'[q] = 1 /\ q \in seen
          /\ \A p \in Paths : p # q => echo'[p] = echo[p]
      BY <2>1, <2>5 DEF Held, Marked, Exclusive, TypeOK
    <3>2. Marked'
      BY <2>1, <2>2, <2>5, <3>1 DEF Held, Marked, Marking, Reserved, Queued
    <3>3. \A i \in 1..Len(queue) : Queued(i) \in Paths
      BY QueuedPath
    <3>4. /\ \A e \in Enqueuers : Marking(e) => enq[e].path # q
          /\ Reserved => tus.path # q
          /\ \A i \in 1..Len(queue) : Queued(i) # q
          /\ \A v \in Workers : v # w /\ Busy(v) => worker[v].path # q
      BY <2>1 DEF Held, Exclusive, OneCopyInFlight
    <3>5. /\ \A e \in Enqueuers : Marking(e) => enq[e].path \in Paths
          /\ Reserved => tus.path \in Paths
          /\ \A v \in Workers : Busy(v) => worker[v].path \in Paths
      BY DEF TypeOK, Marking, Reserved, Busy
    <3>6. \A p \in Paths : echo'[p] <= 1
      BY <3>1 DEF Held, Exclusive
    <3>7. Exclusive'
      BY <2>1, <2>2, <3>1, <3>3, <3>4, <3>5, <3>6 DEF Held, Exclusive, Marking, Reserved, Queued
    <3> QED
      BY <2>3, <3>2, <3>7 DEF Held
  <2> QED
    BY <1>12, <2>4, <2>5 DEF WorkerRelease
<1>13. ASSUME NEW p \in Paths, EchoExpires(p) PROVE Held'
  <2>1. /\ echo[p] = 1 /\ echo' = [echo EXCEPT ![p] = @ - 1] /\ seen' = seen \ {p}
        /\ queue' = queue /\ worker' = worker /\ tus' = tus /\ enq' = enq
    BY <1>13 DEF EchoExpires, tusVars, enqVars, Held, Exclusive, TypeOK
  <2>2. echo'[p] = 0 /\ \A r \in Paths : r # p => echo'[r] = echo[r]
    BY <2>1 DEF TypeOK
  <2>3. Marked'
    BY <2>1, <2>2 DEF Held, Marked, Exclusive, Marking, Reserved, Busy, Queued
  <2>4. \A i \in 1..Len(queue) : Queued(i) \in Paths
    BY QueuedPath
  <2>5. Exclusive'
    BY <2>1, <2>2, <2>4 DEF Held, Exclusive, Marking, Reserved, Busy, Queued, TypeOK
  <2>6. OneCopyInFlight'
    BY <2>1 DEF Held, OneCopyInFlight, Busy, Queued
  <2> QED
    BY <2>3, <2>5, <2>6 DEF Held
<1>14. ASSUME NEW b \in Batches, TrackerStep(b) PROVE Held'
  <2>1. /\ seen' = seen /\ queue' = queue /\ worker' = worker /\ tus' = tus
        /\ echo' = echo /\ enq' = enq
    BY <1>14 DEF TrackerStep, TimerFires, OnIdleReturns, OnIdle, BatchDone, Cleanup, enqVars, tusVars
  <2> QED
    BY <2>1, HeldFrame DEF Marking, Reserved, Busy
<1>15. CASE UNCHANGED vars
  <2>1. /\ seen' = seen /\ queue' = queue /\ worker' = worker /\ tus' = tus
        /\ echo' = echo /\ enq' = enq
    BY <1>15 DEF vars, enqVars, tusVars
  <2> QED
    BY <2>1, HeldFrame DEF Marking, Reserved, Busy
<1> QED
  BY <1>1, <1>2, <1>3, <1>4, <1>5, <1>6, <1>7, <1>8, <1>9, <1>10, <1>11, <1>12, <1>13, <1>14, <1>15
  DEF Next, EnqueueStep, TusStep, WorkerStep

\* Enqueue's promise: a path is never processed twice at once, for every number
\* of workers, uploads and enqueuing goroutines.
THEOREM SingleCopy == Spec => []OneCopyInFlight
<1>1. Init => Held
  BY DEF Init, Held, Marked, Exclusive, OneCopyInFlight, Marking, Reserved, Busy, Queued,
         IdleEnq, IdleTus, IdleWorker
<1>2. Held => OneCopyInFlight
  BY DEF Held
<1> QED
  BY <1>1, <1>2, TypeCorrect, HeldStep, PTL DEF Spec

-----------------------------------------------------------------------------
(* The album of an upload, from the reservation to the queue.                  *)

\* A file that arrives twice in one batch was meant for the same album.  The
\* queue item names path and batch, so nothing else tells the two apart.
OneAlbumPerFile ==
    \A u, v \in Uploads : u.path = v.path /\ u.batch = v.batch => u.album = v.album

\* The reservation is that of an upload being ingested, and no other upload is;
\* its album is already registered.
Riding ==
    /\ Reserved => \E u \in Uploads : Ingesting(u) /\ u.path = tus.path /\ u.batch = tus.batch
    /\ \A u \in Uploads : Ingesting(u) =>
          /\ Reserved /\ u.path = tus.path /\ u.batch = tus.batch
          /\ u.album # NoAlbum => pendingAlbum[u.path] = u.album

Rides == Riding /\ AlbumRidesAlong

\* A step that leaves uploads, reservation and album entries alone, and puts
\* nothing of an upload batch into the queue.
LEMMA RidesFrame ==
    ASSUME Rides, outcome' = outcome, pendingAlbum' = pendingAlbum,
           tus'.path = tus.path, tus'.batch = tus.batch, Reserved' <=> Reserved,
           \A i \in 1..Len(queue') :
               queue'[i].batch = Legacy \/ \E j \in 1..Len(queue) : queue'[i] = queue[j]
    PROVE  Rides'
<1>1. Riding'
  BY DEF Rides, Riding, Ingesting
<1>2. AlbumRidesAlong'
  BY DEF Rides, AlbumRidesAlong
<1> QED
  BY <1>1, <1>2 DEF Rides

\* Every step keeps the album of a file that waits in the queue.
LEMMA RidesStep ==
    ASSUME OneAlbumPerFile, TypeOK, Held, Rides, [Next]_vars
    PROVE  Rides'
<1> USE ConstantsAssumption DEF UploadType
<1>1. ASSUME NEW e \in Enqueuers, NEW p \in Paths, EnqueueMark(e, p) PROVE Rides'
  BY <1>1, RidesFrame DEF EnqueueMark, tusVars, albumVars, Reserved
<1>2. ASSUME NEW e \in Enqueuers, EnqueuePush(e) PROVE Rides'
  <2> DEFINE x == [path |-> enq[e].path, batch |-> Legacy]
  <2>1. /\ queue' = Append(queue, x) /\ x \in Item
        /\ tus' = tus /\ outcome' = outcome /\ pendingAlbum' = pendingAlbum
    BY <1>2 DEF EnqueuePush, tusVars, albumVars, TypeOK, Item
  <2>2. \A i \in 1..Len(queue') : queue'[i].batch = Legacy \/ \E j \in 1..Len(queue) : queue'[i] = queue[j]
    BY <2>1, QueueAppend DEF TypeOK
  <2> QED
    BY <2>1, <2>2, RidesFrame DEF Reserved
<1>3. ASSUME NEW e \in Enqueuers, EnqueueFull(e) \/ EnqueueNote(e) PROVE Rides'
  BY <1>3, RidesFrame DEF EnqueueFull, EnqueueNote, tusVars, albumVars, Reserved
<1>4. ASSUME NEW u \in Uploads, TusReserve(u) PROVE Rides'
  <2>1. /\ ~Reserved /\ Reserved' /\ outcome[u] = "uploading"
        /\ u.path \in Paths /\ u.path \notin seen /\ queue' = queue
        /\ tus'.path = u.path /\ tus'.batch = u.batch
        /\ outcome' = [outcome EXCEPT ![u] = "ingesting"]
        /\ pendingAlbum' = [pendingAlbum EXCEPT
                               ![u.path] = IF u.album # NoAlbum THEN u.album ELSE pendingAlbum[u.path]]
    BY <1>4 DEF TusReserve, Reserved
  <2>2. /\ outcome'[u] = "ingesting"
        /\ \A v \in Uploads : v # u => outcome'[v] = outcome[v]
        /\ u.album # NoAlbum => pendingAlbum'[u.path] = u.album
        /\ \A p \in Paths : p # u.path => pendingAlbum'[p] = pendingAlbum[p]
    BY <2>1 DEF TypeOK
  <2>3. \A v \in Uploads : ~Ingesting(v)
    BY <2>1 DEF Rides, Riding
  <2>4. Riding'
    BY <2>1, <2>2, <2>3 DEF Riding, Ingesting
  <2>5. \A i \in 1..Len(queue) : queue[i].path # u.path
    BY <2>1 DEF Held, Marked, Queued
  <2>6. AlbumRidesAlong'
    <3> SUFFICES ASSUME NEW v \in Uploads, NEW i \in 1..Len(queue'),
                        queue'[i] = [path |-> v.path, batch |-> v.batch],
                        v.batch # Legacy, v.album # NoAlbum, outcome'[v] = "completed"
                 PROVE  pendingAlbum'[v.path] = v.album
      BY DEF AlbumRidesAlong
    <3>1. v.path # u.path /\ v.path \in Paths /\ outcome[v] = "completed"
      BY <2>1, <2>2, <2>5
    <3> QED
      BY <2>1, <2>2, <3>1 DEF Rides, AlbumRidesAlong
  <2> QED
    BY <2>4, <2>6 DEF Rides
<1>5. ASSUME NEW u \in Uploads, TusRefused(u) PROVE Rides'
  <2>1. /\ queue' = queue /\ tus' = tus /\ pendingAlbum' = pendingAlbum
        /\ outcome[u] = "uploading" /\ outcome' = [outcome EXCEPT ![u] = "refused"]
    BY <1>5 DEF TusRefused, albumVars
  <2>2. /\ outcome'[u] = "refused" /\ ~Ingesting(u)
        /\ \A v \in Uploads : v # u => outcome'[v] = outcome[v]
    BY <2>1 DEF TypeOK, Ingesting
  <2>3. Riding'
    BY <2>1, <2>2 DEF Rides, Riding, Ingesting, Reserved
  <2>4. AlbumRidesAlong'
    BY <2>1, <2>2 DEF Rides, AlbumRidesAlong
  <2> QED
    BY <2>3, <2>4 DEF Rides
<1>6. CASE TusMove
  BY <1>6, RidesFrame DEF TusMove, albumVars, Reserved, TypeOK
<1>7. CASE TusMoveFails \/ TusDrop
  <2>1. /\ queue' = queue /\ pendingAlbum' = pendingAlbum /\ ~Reserved' /\ Reserved
        /\ \/ outcome' = [v \in Uploads |-> IF Ingesting(v) THEN "failed" ELSE outcome[v]]
           \/ outcome' = [v \in Uploads |-> IF Ingesting(v) THEN "completed" ELSE outcome[v]]
    BY <1>7 DEF TusMoveFails, TusDrop, Submitted, albumVars, Reserved, IdleTus
  <2>2. \A v \in Uploads : ~(outcome'[v] = "ingesting")
    BY <2>1 DEF Ingesting
  <2>3. \A v \in Uploads : outcome'[v] = "completed" => outcome[v] = "completed" \/ Ingesting(v)
    BY <2>1
  <2>4. Riding'
    BY <2>1, <2>2 DEF Riding, Ingesting
  <2>5. \A v \in Uploads, i \in 1..Len(queue) : Ingesting(v) => queue[i].path # v.path
    BY <2>1 DEF Rides, Riding, Held, Exclusive, Queued
  <2>6. AlbumRidesAlong'
    BY <2>1, <2>3, <2>5 DEF Rides, AlbumRidesAlong
  <2> QED
    BY <2>4, <2>6 DEF Rides
<1>8. CASE TusSubmit
  <2> DEFINE x == [path |-> tus.path, batch |-> tus.batch]
  <2>1. /\ queue' = Append(queue, x) /\ x \in Item /\ pendingAlbum' = pendingAlbum
        /\ ~Reserved' /\ Reserved
        /\ outcome' = [v \in Uploads |-> IF Ingesting(v) THEN "completed" ELSE outcome[v]]
    BY <1>8 DEF TusSubmit, Submitted, albumVars, Reserved, IdleTus, TypeOK, Item
  <2>2. \A v \in Uploads : ~(outcome'[v] = "ingesting")
    BY <2>1 DEF Ingesting
  <2>3. Riding'
    BY <2>1, <2>2 DEF Riding, Ingesting
  <2>4. PICK r \in Uploads : Ingesting(r) /\ r.path = tus.path /\ r.batch = tus.batch
    BY <2>1 DEF Rides, Riding
  <2>5. AlbumRidesAlong'
    <3> SUFFICES ASSUME NEW v \in Uploads, NEW i \in 1..Len(queue'),
                        queue'[i] = [path |-> v.path, batch |-> v.batch],
                        v.batch # Legacy, v.album # NoAlbum, outcome'[v] = "completed"
                 PROVE  pendingAlbum[v.path] = v.album
      BY <2>1 DEF AlbumRidesAlong
    <3>1. CASE v.path = tus.path /\ v.batch = tus.batch
      <4>1. r.album = v.album
        BY <2>4, <3>1 DEF OneAlbumPerFile
      <4> QED
        BY <2>4, <3>1, <4>1 DEF Rides, Riding
    <3>2. CASE ~(v.path = tus.path /\ v.batch = tus.batch)
      <4>1. queue'[i] # x
        BY <3>2
      <4>2. i \in 1..Len(queue) /\ queue'[i] = queue[i]
        <5>1. queue \in Seq(Item) /\ queue' = Append(queue, x) /\ x \in Item
          BY <2>1 DEF TypeOK
        <5> HIDE DEF x
        <5>2. queue'[Len(queue')] = x /\ \A j \in 1..Len(queue) : queue'[j] = queue[j]
          BY <5>1, QueueAppend
        <5>3. i \in 1..Len(queue) \/ i = Len(queue')
          BY <5>1, QueueAppend
        <5> QED BY <4>1, <5>2, <5>3
      <4>3. outcome[v] = "completed"
        BY <2>1, <3>2 DEF Rides, Riding
      <4> QED
        BY <4>2, <4>3 DEF Rides, AlbumRidesAlong
    <3> QED
      BY <3>1, <3>2
  <2> QED
    BY <2>3, <2>5 DEF Rides
<1>9. ASSUME NEW w \in Workers, WorkerTake(w) PROVE Rides'
  <2>1. /\ queue # <<>> /\ queue' = Tail(queue)
        /\ tus' = tus /\ outcome' = outcome /\ pendingAlbum' = pendingAlbum
    BY <1>9 DEF WorkerTake, tusVars, albumVars
  <2>2. \A i \in 1..Len(queue') : \E j \in 1..Len(queue) : queue'[i] = queue[j]
    BY <2>1, QueueTail DEF TypeOK
  <2> QED
    BY <2>1, <2>2, RidesFrame DEF Reserved
<1>10. ASSUME NEW w \in Workers, WorkerIndex(w) PROVE Rides'
  <2> DEFINE q == worker[w].path
  <2>1. /\ Busy(w) /\ q \in Paths /\ queue' = queue /\ tus' = tus /\ outcome' = outcome
        /\ pendingAlbum' = [pendingAlbum EXCEPT ![q] = NoAlbum]
    BY <1>10 DEF WorkerIndex, IndexFile, Busy, tusVars, TypeOK
  <2>2. \A p \in Paths : p # q => pendingAlbum'[p] = pendingAlbum[p]
    BY <2>1 DEF TypeOK
  <2>3. Reserved => tus.path # q
    BY <2>1 DEF Held, Exclusive
  <2>4. \A i \in 1..Len(queue) : queue[i].path # q
    BY <2>1 DEF Held, OneCopyInFlight, Queued
  <2>5. Riding'
    BY <2>1, <2>2, <2>3 DEF Rides, Riding, Ingesting, Reserved
  <2>6. AlbumRidesAlong'
    BY <2>1, <2>2, <2>4 DEF Rides, AlbumRidesAlong
  <2> QED
    BY <2>5, <2>6 DEF Rides
<1>11. ASSUME NEW w \in Workers, WorkerNote(w) \/ WorkerRelease(w) PROVE Rides'
  BY <1>11, RidesFrame DEF WorkerNote, WorkerRelease, tusVars, albumVars, Reserved
<1>12. ASSUME NEW p \in Paths, EchoExpires(p) PROVE Rides'
  BY <1>12, RidesFrame DEF EchoExpires, tusVars, albumVars, Reserved
<1>13. ASSUME NEW b \in Batches, TrackerStep(b) PROVE Rides'
  BY <1>13, RidesFrame
  DEF TrackerStep, TimerFires, OnIdleReturns, OnIdle, BatchDone, Cleanup, tusVars, albumVars, Reserved
<1>14. CASE UNCHANGED vars
  BY <1>14, RidesFrame DEF vars, tusVars, albumVars, Reserved
<1> QED
  BY <1>1, <1>2, <1>3, <1>4, <1>5, <1>6, <1>7, <1>8, <1>9, <1>10, <1>11, <1>12, <1>13, <1>14
  DEF Next, EnqueueStep, TusStep, WorkerStep

\* SetPendingAlbum before SubmitReserved: for every interleaving of uploads,
\* events and workers, an uploaded file in the queue still has the album that
\* was asked for, whatever the queue capacity and however many moves fail.
THEOREM AlbumCorrect ==
    ASSUME OneAlbumPerFile
    PROVE  Spec => []AlbumRidesAlong
<1>1. Init => Held
  BY DEF Init, Held, Marked, Exclusive, OneCopyInFlight, Marking, Reserved, Busy, Queued,
         IdleEnq, IdleTus, IdleWorker
<1>2. Init => Rides
  BY DEF Init, Rides, Riding, AlbumRidesAlong, Reserved, Ingesting, IdleTus
<1>3. TypeOK /\ Held /\ Rides /\ [Next]_vars => Rides'
  BY RidesStep
<1>4. Rides => AlbumRidesAlong
  BY DEF Rides
<1> QED
  BY <1>1, <1>2, <1>3, <1>4, TypeCorrect, HeldStep, PTL DEF Spec

-----------------------------------------------------------------------------
(* The books of the upload batches.  Outstanding(b) adds up what three parties *)
(* hold of a batch; a step moves a file from one to the next.                  *)

QueuedOf(b)  == {i \in 1..Len(queue) : queue[i].batch = b}
Has(item, b) == item.batch = b /\ item.pc \in {"taken", "indexed"}
AtWorkers(b) == {w \in Workers : Has(worker[w], b)}
Kept(b)      == IF tus.pc # "idle" /\ tus.batch = b THEN 1 ELSE 0

\* The three parts of Outstanding are natural numbers.
LEMMA Parts ==
    ASSUME TypeOK, NEW b
    PROVE  /\ IsFiniteSet(QueuedOf(b)) /\ Cardinality(QueuedOf(b)) \in Nat
           /\ IsFiniteSet(AtWorkers(b)) /\ Cardinality(AtWorkers(b)) \in Nat
           /\ Kept(b) \in Nat
           /\ Outstanding(b) = Cardinality(QueuedOf(b)) + Cardinality(AtWorkers(b)) + Kept(b)
           /\ Outstanding(b) \in Nat
<1>1. Len(queue) \in Nat
  BY DEF TypeOK
<1>2. IsFiniteSet(1..Len(queue)) /\ QueuedOf(b) \in SUBSET (1..Len(queue))
  BY <1>1, FS_Interval DEF QueuedOf
<1>3. IsFiniteSet(Workers) /\ AtWorkers(b) \in SUBSET Workers
  BY ConstantsAssumption DEF AtWorkers
<1>4. IsFiniteSet(QueuedOf(b)) /\ IsFiniteSet(AtWorkers(b))
  BY <1>2, <1>3, FS_Subset
<1>5. Cardinality(QueuedOf(b)) \in Nat /\ Cardinality(AtWorkers(b)) \in Nat
  BY <1>4, FS_CardinalityType
<1>6. Outstanding(b) = Cardinality(QueuedOf(b)) + Cardinality(AtWorkers(b)) + Kept(b)
  BY DEF Outstanding, QueuedOf, AtWorkers, Has, Kept
<1> QED BY <1>4, <1>5, <1>6 DEF Kept

\* An append adds one to the batch of the item, and to no other.
LEMMA CountAppend ==
    ASSUME TypeOK, NEW x \in Item, queue' = Append(queue, x), NEW b
    PROVE  Cardinality(QueuedOf(b)') = Cardinality(QueuedOf(b)) + IF x.batch = b THEN 1 ELSE 0
<1>1. /\ Len(queue) \in Nat /\ Len(queue') = Len(queue) + 1
      /\ \A i \in 1..Len(queue) : queue'[i] = queue[i]
      /\ queue'[Len(queue) + 1] = x
  BY QueueAppend DEF TypeOK
<1>2. QueuedOf(b)' = IF x.batch = b THEN QueuedOf(b) \cup {Len(queue) + 1} ELSE QueuedOf(b)
  BY <1>1 DEF QueuedOf
<1>3. Len(queue) + 1 \notin QueuedOf(b)
  BY <1>1 DEF QueuedOf
<1>4. IsFiniteSet(QueuedOf(b)) /\ Cardinality(QueuedOf(b)) \in Nat
  BY Parts
<1>5. Cardinality(QueuedOf(b) \cup {Len(queue) + 1}) = Cardinality(QueuedOf(b)) + 1
  BY <1>3, <1>4, FS_AddElement
<1> QED BY <1>2, <1>4, <1>5

\* A take removes one from the batch of the head, and from no other.
LEMMA CountTail ==
    ASSUME TypeOK, queue # <<>>, queue' = Tail(queue), NEW b
    PROVE  /\ Head(queue).batch = b => Cardinality(QueuedOf(b)') + 1 = Cardinality(QueuedOf(b))
           /\ Head(queue).batch # b => Cardinality(QueuedOf(b)') = Cardinality(QueuedOf(b))
<1> DEFINE rest == QueuedOf(b) \ {1}
           g == [i \in rest |-> i - 1]
<1>1. /\ Len(queue) \in Nat /\ Len(queue') = Len(queue) - 1 /\ Len(queue) > 0
      /\ Head(queue) = queue[1]
      /\ \A i \in 1..Len(queue') : queue'[i] = queue[i + 1]
  BY DEF TypeOK
<1>2. QueuedOf(b)' = {i \in 1..(Len(queue) - 1) : queue[i + 1].batch = b}
  BY <1>1 DEF QueuedOf
<1>3. \A i \in rest : i \in Int /\ g[i] \in QueuedOf(b)'
  <2> SUFFICES ASSUME NEW i \in rest PROVE i \in Int /\ i - 1 \in QueuedOf(b)'
    OBVIOUS
  <2>1. i \in 1..Len(queue) /\ i # 1 /\ queue[i].batch = b
    BY DEF QueuedOf
  <2>2. i - 1 \in 1..(Len(queue) - 1) /\ (i - 1) + 1 = i
    BY <1>1, <2>1
  <2> QED BY <1>2, <2>1, <2>2
<1>4. \A j \in QueuedOf(b)' : j + 1 \in rest /\ g[j + 1] = j
  <2> SUFFICES ASSUME NEW j \in QueuedOf(b)' PROVE j + 1 \in rest /\ (j + 1) - 1 = j
    OBVIOUS
  <2> QED BY <1>1, <1>2 DEF QueuedOf
<1>5. \A i, j \in rest : g[i] = g[j] => i = j
  BY <1>3
<1>6. ExistsBijection(rest, QueuedOf(b)')
  <2> g \in [rest -> QueuedOf(b)']
    BY <1>3
  <2> HIDE DEF rest, g
  <2>1. g \in Injection(rest, QueuedOf(b)')
    BY <1>5 DEF Injection, IsInjective
  <2>2. g \in Surjection(rest, QueuedOf(b)')
    BY <1>4 DEF Surjection
  <2> QED BY <2>1, <2>2 DEF Bijection, ExistsBijection
<1>7. IsFiniteSet(QueuedOf(b)) /\ Cardinality(QueuedOf(b)) \in Nat
  BY Parts
<1>8. IsFiniteSet(rest) /\ Cardinality(rest) = IF 1 \in QueuedOf(b) THEN Cardinality(QueuedOf(b)) - 1
                                               ELSE Cardinality(QueuedOf(b))
  BY <1>7, FS_RemoveElement
<1>9. Cardinality(QueuedOf(b)') = Cardinality(rest)
  <2> HIDE DEF rest
  <2> QED BY <1>6, <1>8, FS_Bijection
<1>10. 1 \in QueuedOf(b) <=> Head(queue).batch = b
  BY <1>1 DEF QueuedOf
<1> QED BY <1>7, <1>8, <1>9, <1>10

\* A step of one worker changes the count by that worker alone.
LEMMA CountWorkers ==
    ASSUME TypeOK, NEW w \in Workers, NEW r, worker' = [worker EXCEPT ![w] = r], NEW b
    PROVE  /\ (Has(worker[w], b) <=> Has(r, b)) => Cardinality(AtWorkers(b)') = Cardinality(AtWorkers(b))
           /\ ~Has(worker[w], b) /\ Has(r, b) => Cardinality(AtWorkers(b)') = Cardinality(AtWorkers(b)) + 1
           /\ Has(worker[w], b) /\ ~Has(r, b) => Cardinality(AtWorkers(b)') = Cardinality(AtWorkers(b)) - 1
<1>1. \A v \in Workers : worker'[v] = IF v = w THEN r ELSE worker[v]
  BY DEF TypeOK
<1>2. IsFiniteSet(AtWorkers(b)) /\ Cardinality(AtWorkers(b)) \in Nat
  BY Parts
<1>3. AtWorkers(b)' = {v \in Workers : Has(worker'[v], b)}
  BY DEF AtWorkers, Has
<1>4. AtWorkers(b)' = IF Has(r, b) THEN AtWorkers(b) \cup {w} ELSE AtWorkers(b) \ {w}
  BY <1>1, <1>3 DEF AtWorkers
<1>5. w \in AtWorkers(b) <=> Has(worker[w], b)
  BY DEF AtWorkers
<1>6. /\ Cardinality(AtWorkers(b) \cup {w}) = IF w \in AtWorkers(b) THEN Cardinality(AtWorkers(b))
                                              ELSE Cardinality(AtWorkers(b)) + 1
      /\ Cardinality(AtWorkers(b) \ {w}) = IF w \in AtWorkers(b) THEN Cardinality(AtWorkers(b)) - 1
                                           ELSE Cardinality(AtWorkers(b))
  BY <1>2, FS_AddElement, FS_RemoveElement
<1>7. CASE Has(r, b)
  BY <1>2, <1>4, <1>5, <1>6, <1>7
<1>8. CASE ~Has(r, b)
  BY <1>2, <1>4, <1>5, <1>6, <1>8
<1> QED BY <1>7, <1>8

\* The outstanding files of a batch are a number after the step too.
LEMMA NextNat == ASSUME TypeOK', NEW b PROVE Outstanding(b)' \in Nat
<1> DEFINE q == Cardinality(QueuedOf(b)')
           a == Cardinality(AtWorkers(b)')
<1>1. queue' \in Seq(Item)
  BY DEF TypeOK
<1>2. QueuedOf(b)' \in SUBSET (1..Len(queue')) /\ IsFiniteSet(1..Len(queue'))
  BY <1>1, FS_Interval DEF QueuedOf
<1>3. AtWorkers(b)' \in SUBSET Workers /\ IsFiniteSet(Workers)
  BY ConstantsAssumption DEF AtWorkers
<1>4. IsFiniteSet(QueuedOf(b)') /\ IsFiniteSet(AtWorkers(b)')
  BY <1>2, <1>3, FS_Subset
<1>5. q \in Nat /\ a \in Nat /\ Kept(b)' \in Nat
  BY <1>4, FS_CardinalityType DEF Kept
<1>6. Outstanding(b)' = q + a + Kept(b)'
  BY DEF Outstanding, QueuedOf, AtWorkers, Has, Kept
<1> HIDE DEF q, a
<1> QED BY <1>5, <1>6

\* What each step makes of the outstanding files of a batch: only a reservation adds
\* one, and only a result, a drop or a failed move takes one away.
LEMMA OutstandingStep ==
    ASSUME TypeOK, TypeOK', NEW b \in Named
    PROVE  /\ UNCHANGED <<queue, worker, tus>> => Outstanding(b)' = Outstanding(b)
           /\ \A e \in Enqueuers : EnqueuePush(e) => Outstanding(b)' = Outstanding(b)
           /\ \A u \in Uploads : TusReserve(u) =>
                 Outstanding(b)' = Outstanding(b) + IF u.batch = b THEN 1 ELSE 0
           /\ TusMove => Outstanding(b)' = Outstanding(b)
           /\ TusMoveFails \/ TusDrop => Outstanding(b)' <= Outstanding(b)
           /\ TusSubmit => Outstanding(b)' = Outstanding(b)
           /\ \A w \in Workers :
                 /\ WorkerTake(w) \/ WorkerIndex(w) \/ WorkerRelease(w) => Outstanding(b)' = Outstanding(b)
                 /\ WorkerNote(w) =>
                       Outstanding(b) = Outstanding(b)' + IF worker[w].batch = b THEN 1 ELSE 0
<1> DEFINE q == Cardinality(QueuedOf(b))
           a == Cardinality(AtWorkers(b))
<1>1. /\ Outstanding(b) = q + a + Kept(b) /\ Outstanding(b)' = q' + a' + Kept(b)'
      /\ q \in Nat /\ a \in Nat /\ Kept(b) \in Nat /\ q' \in Nat /\ a' \in Nat /\ Kept(b)' \in Nat
  <2>1. q \in Nat /\ a \in Nat /\ Kept(b) \in Nat /\ Outstanding(b) = q + a + Kept(b)
    BY Parts
  <2>2. Outstanding(b)' = q' + a' + Kept(b)' /\ Kept(b)' \in Nat
    BY DEF Outstanding, QueuedOf, AtWorkers, Has, Kept
  <2>3. Len(queue') \in Nat /\ QueuedOf(b)' \in SUBSET (1..Len(queue'))
    <3>1. queue' \in Seq(Item)
      BY DEF TypeOK
    <3> QED BY <3>1 DEF QueuedOf
  <2>4. AtWorkers(b)' \in SUBSET Workers /\ IsFiniteSet(Workers)
    BY ConstantsAssumption DEF AtWorkers
  <2>5. q' \in Nat
    <3>1. IsFiniteSet(1..Len(queue'))
      BY <2>3, FS_Interval
    <3>2. IsFiniteSet(QueuedOf(b)')
      BY <2>3, <3>1, FS_Subset
    <3> QED BY <3>2, FS_CardinalityType
  <2>6. a' \in Nat
    <3>1. IsFiniteSet(AtWorkers(b)')
      BY <2>4, FS_Subset
    <3> QED BY <3>1, FS_CardinalityType
  <2> QED BY <2>1, <2>2, <2>5, <2>6
<1>2. UNCHANGED queue => q' = q
  BY DEF QueuedOf
<1>3. UNCHANGED worker => a' = a
  BY DEF AtWorkers, Has
<1>4. UNCHANGED tus => Kept(b)' = Kept(b)
  BY DEF Kept
<1>5. b # Legacy
  BY DEF Named
<1> HIDE DEF q, a
<1>6. UNCHANGED <<queue, worker, tus>> => Outstanding(b)' = Outstanding(b)
  BY <1>1, <1>2, <1>3, <1>4
<1>7. ASSUME NEW e \in Enqueuers, EnqueuePush(e) PROVE Outstanding(b)' = Outstanding(b)
  <2>1. [path |-> enq[e].path, batch |-> Legacy] \in Item
    BY <1>7, ConstantsAssumption DEF EnqueuePush, TypeOK, Item
  <2>2. q' = q + 0
    BY <1>5, <1>7, <2>1, CountAppend DEF EnqueuePush, q
  <2> QED BY <1>1, <1>3, <1>4, <1>7, <2>2 DEF EnqueuePush, tusVars
<1>8. ASSUME NEW u \in Uploads, TusReserve(u)
      PROVE  Outstanding(b)' = Outstanding(b) + IF u.batch = b THEN 1 ELSE 0
  <2>1. Kept(b) = 0 /\ Kept(b)' = IF u.batch = b THEN 1 ELSE 0
    BY <1>8 DEF TusReserve, Kept
  <2> QED BY <1>1, <1>2, <1>3, <1>8, <2>1 DEF TusReserve
<1>9. ASSUME TusMove PROVE Outstanding(b)' = Outstanding(b)
  <2>1. Kept(b)' = Kept(b)
    BY <1>9 DEF TusMove, Kept, TypeOK
  <2> QED BY <1>1, <1>2, <1>3, <1>9, <2>1 DEF TusMove
<1>10. ASSUME TusMoveFails \/ TusDrop PROVE Outstanding(b)' <= Outstanding(b)
  <2>1. Kept(b)' = 0 /\ UNCHANGED <<queue, worker>>
    BY <1>10 DEF TusMoveFails, TusDrop, Submitted, Kept, IdleTus
  <2> QED BY <1>1, <1>2, <1>3, <2>1
<1>11. ASSUME TusSubmit PROVE Outstanding(b)' = Outstanding(b)
  <2> DEFINE x == [path |-> tus.path, batch |-> tus.batch]
  <2>1. x \in Item /\ queue' = Append(queue, x) /\ x.batch = tus.batch /\ UNCHANGED worker
    BY <1>11 DEF TusSubmit, Submitted, TypeOK, Item
  <2>2. Kept(b)' = 0 /\ Kept(b) = IF tus.batch = b THEN 1 ELSE 0
    BY <1>11 DEF TusSubmit, Submitted, Kept, IdleTus
  <2> HIDE DEF x
  <2>3. q' = q + IF tus.batch = b THEN 1 ELSE 0
    BY <2>1, CountAppend DEF q
  <2> QED BY <1>1, <1>3, <2>1, <2>2, <2>3
<1>12. ASSUME NEW w \in Workers, WorkerTake(w) PROVE Outstanding(b)' = Outstanding(b)
  <2> DEFINE r == [pc |-> "taken", path |-> Head(queue).path, batch |-> Head(queue).batch]
  <2>1. queue # <<>> /\ queue' = Tail(queue) /\ worker' = [worker EXCEPT ![w] = r] /\ UNCHANGED tus
    BY <1>12 DEF WorkerTake, tusVars
  <2>2. ~Has(worker[w], b) /\ (Has(r, b) <=> Head(queue).batch = b)
    BY <1>12 DEF WorkerTake, Has
  <2> HIDE DEF r
  <2>3. /\ Head(queue).batch = b => q' + 1 = q
        /\ Head(queue).batch # b => q' = q
    BY <2>1, CountTail DEF q
  <2>4. /\ Has(r, b) => a' = a + 1
        /\ ~Has(r, b) => a' = a
    BY <2>1, <2>2, CountWorkers DEF a
  <2>5. Kept(b)' = Kept(b)
    BY <1>4, <2>1
  <2>6. CASE Has(r, b)
    <3>1. q' + 1 = q /\ a' = a + 1
      BY <2>2, <2>3, <2>4, <2>6
    <3>2. Outstanding(b) = (q' + 1) + a + Kept(b)
      BY <1>1, <3>1
    <3>3. Outstanding(b)' = q' + (a + 1) + Kept(b)
      BY <1>1, <2>5, <3>1
    <3> QED BY <1>1, <3>2, <3>3
  <2>7. CASE ~Has(r, b)
    <3>1. q' = q /\ a' = a
      BY <2>2, <2>3, <2>4, <2>7
    <3> QED BY <1>1, <2>5, <3>1
  <2> QED BY <2>6, <2>7
<1>13. ASSUME NEW w \in Workers, NEW r, worker' = [worker EXCEPT ![w] = r], UNCHANGED <<queue, tus>>
       PROVE  /\ (Has(worker[w], b) <=> Has(r, b)) => Outstanding(b)' = Outstanding(b)
              /\ Has(worker[w], b) /\ ~Has(r, b) => Outstanding(b)' = Outstanding(b) - 1
  <2>1. /\ (Has(worker[w], b) <=> Has(r, b)) => a' = a
        /\ Has(worker[w], b) /\ ~Has(r, b) => a' = a - 1
    BY <1>13, CountWorkers DEF a
  <2> QED BY <1>1, <1>2, <1>4, <1>13, <2>1
<1>14. Outstanding(b) \in Nat /\ Outstanding(b)' \in Nat
  BY <1>1
<1>15. ASSUME NEW w \in Workers, WorkerIndex(w) PROVE Outstanding(b)' = Outstanding(b)
  <2> DEFINE r == [worker[w] EXCEPT !.pc = "indexed"]
  <2>1. worker' = [worker EXCEPT ![w] = r] /\ UNCHANGED <<queue, tus>>
    BY <1>15 DEF WorkerIndex, tusVars
  <2>2. Has(worker[w], b) <=> Has(r, b)
    BY <1>15 DEF WorkerIndex, Has, TypeOK
  <2> HIDE DEF r
  <2> QED BY <1>13, <1>14, <2>1, <2>2
<1>16. ASSUME NEW w \in Workers, WorkerNote(w)
       PROVE  Outstanding(b) = Outstanding(b)' + IF worker[w].batch = b THEN 1 ELSE 0
  <2> DEFINE r == [worker[w] EXCEPT !.pc = "noted"]
  <2>1. worker' = [worker EXCEPT ![w] = r] /\ UNCHANGED <<queue, tus>>
    BY <1>16 DEF WorkerNote, tusVars
  <2>2. ~Has(r, b) /\ (Has(worker[w], b) <=> worker[w].batch = b)
    BY <1>16 DEF WorkerNote, Has, TypeOK
  <2> HIDE DEF r
  <2>3. CASE worker[w].batch = b
    <3>1. Outstanding(b)' = Outstanding(b) - 1
      BY <1>13, <2>1, <2>2, <2>3
    <3> QED BY <1>14, <2>3, <3>1
  <2>4. CASE worker[w].batch # b
    <3>1. Outstanding(b)' = Outstanding(b)
      BY <1>13, <2>1, <2>2, <2>4
    <3> QED BY <1>14, <2>4, <3>1
  <2> QED BY <2>3, <2>4
<1>17. ASSUME NEW w \in Workers, WorkerRelease(w) PROVE Outstanding(b)' = Outstanding(b)
  <2>1. worker' = [worker EXCEPT ![w] = IdleWorker] /\ UNCHANGED <<queue, tus>>
    BY <1>17 DEF WorkerRelease, tusVars
  <2>2. ~Has(IdleWorker, b) /\ ~Has(worker[w], b)
    BY <1>17 DEF WorkerRelease, Has, IdleWorker
  <2> QED BY <1>13, <1>14, <2>1, <2>2
<1> QED BY <1>6, <1>7, <1>8, <1>9, <1>10, <1>11, <1>12, <1>15, <1>16, <1>17

UploadsOf(b) == {u \in Uploads : u.batch = b}
Arrived(b)   == {u \in UploadsOf(b) : outcome[u] \notin {"uploading", "refused"}}

\* The uploader declares at least the number of files it sends: the size of the
\* selection, with every file of it.
BatchesDeclared == \A b \in Named :
    IsFiniteSet(UploadsOf(b)) /\ \A u \in UploadsOf(b) : u.total >= Cardinality(UploadsOf(b))

\* Nothing of the batch is on its way any more, nor will be.
Ended(b) == Arrived(b) = UploadsOf(b) /\ Outstanding(b) = 0

Armed(b)     == IF batches[b].timer = "armed" THEN 1 ELSE 0
Endings(b)   == Armed(b) + fired[b] + finishing[b] + announced[b]

\* The counters know of every arrival and miss what was dropped; the slot goes only
\* with the end of the batch; the end comes once.
Counted(b) == Live(batches[b]) =>
    /\ batches[b].mode = "fixed" /\ batches[b].total >= Cardinality(UploadsOf(b))
    /\ batches[b].enqueued = Cardinality(Arrived(b))
    /\ batches[b].current + Outstanding(b) <= batches[b].enqueued
Uncounted(b) == ~Live(batches[b]) => Outstanding(b) = 0 /\ (Arrived(b) = {} \/ Ended(b))
OneEnd(b)    == Endings(b) <= 1 /\ (Endings(b) > 0 \/ cleanup[b] > 0 => Ended(b))

InBooks(b) == Counted(b) /\ Uncounted(b) /\ OneEnd(b)
Books      == \A b \in Named : InBooks(b)

\* The arrivals of a batch are finitely many, and all of them when their number says so.
LEMMA ArrivedSize ==
    ASSUME BatchesDeclared, NEW b \in Named
    PROVE  /\ IsFiniteSet(Arrived(b))
           /\ Cardinality(Arrived(b)) \in Nat /\ Cardinality(UploadsOf(b)) \in Nat
           /\ Cardinality(Arrived(b)) <= Cardinality(UploadsOf(b))
           /\ Cardinality(Arrived(b)) = Cardinality(UploadsOf(b)) => Arrived(b) = UploadsOf(b)
<1>1. IsFiniteSet(UploadsOf(b)) /\ Arrived(b) \in SUBSET UploadsOf(b)
  BY DEF BatchesDeclared, Arrived
<1>2. IsFiniteSet(Arrived(b)) /\ Cardinality(Arrived(b)) <= Cardinality(UploadsOf(b))
      /\ (Cardinality(Arrived(b)) = Cardinality(UploadsOf(b)) => Arrived(b) = UploadsOf(b))
  BY <1>1, FS_Subset
<1> QED BY <1>1, <1>2, FS_CardinalityType

\* The four stages of an end are natural numbers.
LEMMA EndingsParts ==
    ASSUME TypeOK, NEW b \in Named
    PROVE  /\ Armed(b) \in {0, 1} /\ fired[b] \in Nat /\ finishing[b] \in Nat /\ announced[b] \in Nat
           /\ cleanup[b] \in Nat /\ Endings(b) \in Nat
           /\ Endings(b) = 0 => Armed(b) = 0 /\ fired[b] = 0 /\ finishing[b] = 0 /\ announced[b] = 0
<1>1. /\ fired[b] \in Nat /\ finishing[b] \in Nat /\ announced[b] \in Nat /\ cleanup[b] \in Nat
  BY DEF TypeOK, Named
<1>2. Armed(b) \in {0, 1}
  BY DEF Armed
<1>3. Armed(b) \in Nat /\ Armed(b) + fired[b] \in Nat /\ Armed(b) + fired[b] + finishing[b] \in Nat
      /\ Armed(b) + fired[b] + finishing[b] + announced[b] \in Nat
  BY <1>1, <1>2
<1>4. ASSUME Endings(b) = 0 PROVE Armed(b) = 0 /\ fired[b] = 0 /\ finishing[b] = 0 /\ announced[b] = 0
  <2>1. Armed(b) + fired[b] + finishing[b] = 0 /\ announced[b] = 0
    BY <1>1, <1>3, <1>4 DEF Endings
  <2>2. Armed(b) + fired[b] = 0 /\ finishing[b] = 0
    BY <1>1, <1>3, <2>1
  <2> QED BY <1>1, <1>3, <2>1, <2>2
<1> QED BY <1>1, <1>2, <1>3, <1>4 DEF Endings

\* A batch is settled only at its end.
LEMMA SettledEnded ==
    ASSUME TypeOK, BatchesDeclared, Books, NEW b \in Named, Settled(batches[b])
    PROVE  Ended(b)
<1> DEFINE r == batches[b]
           n == Cardinality(UploadsOf(b))
           k == Cardinality(Arrived(b))
<1>1. /\ r.current \in Nat /\ r.total \in Nat /\ r.enqueued \in Nat /\ Outstanding(b) \in Nat
      /\ n \in Nat /\ k \in Nat /\ k <= n
  BY Parts, ArrivedSize DEF TypeOK, BatchRec, Named
<1>2. r.total >= n /\ r.enqueued = k /\ r.current + Outstanding(b) <= r.enqueued /\ r.current >= r.total
  BY DEF Books, InBooks, Counted, Settled
<1> HIDE DEF r, n, k
<1>3. k = n /\ Outstanding(b) = 0
  BY <1>1, <1>2
<1> QED BY <1>3, ArrivedSize DEF Ended, n, k

\* A step that only takes files of the batch away, or none.
LEMMA QuietBook ==
    ASSUME TypeOK, TypeOK', NEW b \in Named, InBooks(b), Outstanding(b)' <= Outstanding(b),
           Arrived(b)' = Arrived(b), batches'[b] = batches[b], fired'[b] = fired[b],
           finishing'[b] = finishing[b], cleanup'[b] = cleanup[b], announced'[b] = announced[b]
    PROVE  InBooks(b)'
<1>1. Outstanding(b) \in Nat /\ Outstanding(b)' \in Nat /\ Outstanding(b)' <= Outstanding(b)
  BY Parts, NextNat
<1>2. Ended(b) => Ended(b)'
  BY <1>1 DEF Ended, UploadsOf
<1>3. Counted(b)'
  <2>1. batches[b].current \in Nat /\ batches[b].enqueued \in Nat
    BY DEF TypeOK, BatchRec, Named
  <2>2. Live(batches[b]) => batches[b].current + Outstanding(b)' <= batches[b].enqueued
    BY <1>1, <2>1 DEF InBooks, Counted
  <2> QED BY <2>2 DEF InBooks, Counted, UploadsOf, Live
<1>4. Uncounted(b)'
  BY <1>1, <1>2 DEF InBooks, Uncounted, Live
<1>5. OneEnd(b)'
  BY <1>2 DEF InBooks, OneEnd, Endings, Armed
<1> QED BY <1>3, <1>4, <1>5 DEF InBooks

\* The fields of a slot after one more arrival, and after one more result.
LEMMA NoteFields ==
    ASSUME NEW rec \in BatchRec, NEW n \in Nat
    PROVE  /\ ~Live(rec) /\ n > 0 =>
              NoteEnqueue(rec, n) = [mode |-> "fixed", enqueued |-> 1, total |-> n, current |-> 0, timer |-> "off"]
           /\ Live(rec) /\ rec.mode = "fixed" /\ rec.enqueued < rec.total =>
              NoteEnqueue(rec, n) = [rec EXCEPT !.enqueued = rec.enqueued + 1, !.timer = "off"]
           /\ Live(rec) => NoteResult(rec) =
              [rec EXCEPT !.current = rec.current + 1,
                          !.timer = IF rec.current + 1 >= rec.total THEN "armed" ELSE rec.timer]
<1>1. ASSUME Live(rec), rec.mode = "fixed", rec.enqueued < rec.total
      PROVE  NoteEnqueue(rec, n) = [rec EXCEPT !.enqueued = rec.enqueued + 1, !.timer = "off"]
  <2>1. NoteEnqueue(rec, n) = [rec EXCEPT !.enqueued = rec.enqueued + 1, !.total = rec.total, !.timer = "off"]
    BY <1>1 DEF NoteEnqueue
  <2> QED BY <2>1 DEF BatchRec
<1> QED BY <1>1 DEF NoteEnqueue, NewBatch, NoBatch, NoteResult

\* What a reservation makes of the slot of its upload batch.
LEMMA ReserveNoted ==
    ASSUME TypeOK, BatchesDeclared, Books, NEW u \in Uploads, TusReserve(u), u.batch \in Named
    PROVE  LET b == u.batch  r == batches[b]  n == Cardinality(UploadsOf(b)) IN
           /\ Arrived(b)' = Arrived(b) \cup {u} /\ ~Ended(b)
           /\ Cardinality(Arrived(b)') = Cardinality(Arrived(b)) + 1
           /\ ~Live(r) => /\ Outstanding(b) = 0 /\ Cardinality(Arrived(b)) = 0 /\ u.total >= n
                          /\ batches'[b] = [mode |-> "fixed", enqueued |-> 1, total |-> u.total,
                                            current |-> 0, timer |-> "off"]
           /\ Live(r) => batches'[b] = [r EXCEPT !.enqueued = r.enqueued + 1, !.timer = "off"]
<1> DEFINE b == u.batch
           r == batches[b]
           n == Cardinality(UploadsOf(b))
           k == Cardinality(Arrived(b))
<1>1. /\ b \in Batches /\ r \in BatchRec /\ u.total \in Nat /\ u \in UploadsOf(b) /\ u.total >= n
      /\ outcome[u] = "uploading" /\ outcome' = [outcome EXCEPT ![u] = "ingesting"]
      /\ batches' = [batches EXCEPT ![b] = NoteEnqueue(r, u.total)]
  BY ConstantsAssumption DEF TusReserve, Named, TypeOK, UploadType, UploadsOf, BatchesDeclared
<1>2. /\ IsFiniteSet(Arrived(b)) /\ k \in Nat /\ n \in Nat /\ k <= n
      /\ k = n => Arrived(b) = UploadsOf(b)
  BY ArrivedSize
<1>3. u \notin Arrived(b) /\ Arrived(b)' = Arrived(b) \cup {u}
  BY <1>1 DEF Arrived, TypeOK, UploadsOf
<1>4. ~Ended(b) /\ k < n
  BY <1>1, <1>2, <1>3 DEF Ended
<1>5. Cardinality(Arrived(b)') = k + 1
  BY <1>2, <1>3, FS_AddElement
<1>6. batches'[b] = NoteEnqueue(r, u.total)
  BY <1>1 DEF TypeOK
<1>7. ASSUME ~Live(r)
      PROVE  /\ Outstanding(b) = 0 /\ k = 0
             /\ batches'[b] = [mode |-> "fixed", enqueued |-> 1, total |-> u.total, current |-> 0, timer |-> "off"]
  <2>1. Outstanding(b) = 0 /\ Arrived(b) = {}
    BY <1>4, <1>7 DEF Books, InBooks, Uncounted
  <2>2. u.total > 0
    BY <1>1, <1>2, <1>4
  <2>3. k = 0
    BY <2>1, FS_EmptySet
  <2> QED BY <1>1, <1>6, <1>7, <2>1, <2>2, <2>3, NoteFields
<1>8. ASSUME Live(r) PROVE batches'[b] = [r EXCEPT !.enqueued = r.enqueued + 1, !.timer = "off"]
  <2>1. r.mode = "fixed" /\ r.total >= n /\ r.enqueued = k /\ r.total \in Nat
    BY <1>1, <1>8 DEF Books, InBooks, Counted, BatchRec
  <2>2. r.enqueued < r.total
    BY <1>2, <1>4, <2>1
  <2> QED BY <1>1, <1>6, <1>8, <2>1, <2>2, NoteFields
<1> QED BY <1>1, <1>3, <1>4, <1>5, <1>7, <1>8

\* What a result makes of it.
LEMMA ResultNoted ==
    ASSUME TypeOK, TypeOK', Books, NEW w \in Workers, WorkerNote(w), NEW b \in Named, worker[w].batch = b
    PROVE  LET r == batches[b] IN
           /\ Live(r) /\ ~Ended(b) /\ Outstanding(b) = Outstanding(b)' + 1
           /\ batches'[b] = [r EXCEPT !.current = r.current + 1,
                                      !.timer = IF r.current + 1 >= r.total THEN "armed" ELSE r.timer]
<1> DEFINE r == batches[b]
<1>1. b \in Batches /\ r \in BatchRec /\ batches' = [batches EXCEPT ![b] = NoteResult(r)]
  BY DEF WorkerNote, Named, TypeOK
<1>2. Outstanding(b) = Outstanding(b)' + 1 /\ Outstanding(b)' \in Nat
  <2>1. Outstanding(b) = Outstanding(b)' + 1
    BY OutstandingStep
  <2>2. Outstanding(b)' \in Nat
    BY NextNat
  <2> QED BY <2>1, <2>2
<1>3. Outstanding(b) # 0
  BY <1>2
<1>4. Live(r) /\ ~Ended(b)
  BY <1>3 DEF Ended, Books, InBooks, Uncounted
<1>5. batches'[b] = NoteResult(r)
  BY <1>1 DEF TypeOK
<1> QED BY <1>1, <1>2, <1>4, <1>5, NoteFields

\* A reservation keeps the books.
LEMMA ReserveBooks ==
    ASSUME TypeOK, TypeOK', BatchesDeclared, Books, NEW u \in Uploads, TusReserve(u), u.batch \in Named
    PROVE  InBooks(u.batch)'
<1> DEFINE b == u.batch
           r == batches[b]
           n == Cardinality(UploadsOf(b))
           k == Cardinality(Arrived(b))
<1>1. /\ Arrived(b)' = Arrived(b) \cup {u} /\ ~Ended(b) /\ Cardinality(Arrived(b)') = k + 1
      /\ ~Live(r) => /\ Outstanding(b) = 0 /\ k = 0 /\ u.total >= n
                     /\ batches'[b] = [mode |-> "fixed", enqueued |-> 1, total |-> u.total,
                                       current |-> 0, timer |-> "off"]
      /\ Live(r) => batches'[b] = [r EXCEPT !.enqueued = r.enqueued + 1, !.timer = "off"]
  BY ReserveNoted
<1>2. Outstanding(b)' = Outstanding(b) + 1 /\ Outstanding(b) \in Nat
  BY OutstandingStep, Parts
<1>3. r \in BatchRec /\ n \in Nat /\ k \in Nat
  BY ArrivedSize DEF TypeOK, Named
<1>4. Endings(b) = 0 /\ cleanup[b] = 0 /\ fired[b] = 0 /\ finishing[b] = 0 /\ announced[b] = 0
  <2>1. Endings(b) \in Nat /\ cleanup[b] \in Nat
    BY EndingsParts
  <2>2. Endings(b) = 0 /\ cleanup[b] = 0
    BY <1>1, <2>1 DEF Books, InBooks, OneEnd
  <2> QED BY <2>2, EndingsParts
<1>5. fired' = fired /\ finishing' = finishing /\ announced' = announced /\ cleanup' = cleanup
  BY DEF TusReserve
<1>6. /\ Live(batches'[b]) /\ batches'[b].mode = "fixed" /\ batches'[b].total >= n
      /\ batches'[b].enqueued = k + 1 /\ batches'[b].timer = "off"
      /\ batches'[b].current + Outstanding(b)' <= batches'[b].enqueued
  <2>1. CASE ~Live(r)
    BY <1>1, <1>2, <2>1 DEF Live
  <2>2. CASE Live(r)
    <3>1. /\ r.mode = "fixed" /\ r.total >= n /\ r.enqueued = k /\ r.current + Outstanding(b) <= r.enqueued
          /\ r.current \in Nat
      BY <1>3, <2>2 DEF Books, InBooks, Counted, BatchRec
    <3>2. /\ batches'[b].mode = r.mode /\ batches'[b].total = r.total /\ batches'[b].enqueued = k + 1
          /\ batches'[b].current = r.current /\ batches'[b].timer = "off"
      BY <1>1, <1>3, <2>2, <3>1 DEF BatchRec
    <3>3. r.current + (Outstanding(b) + 1) <= k + 1
      BY <1>2, <1>3, <3>1
    <3> QED BY <1>2, <2>2, <3>1, <3>2, <3>3 DEF Live
  <2> QED BY <2>1, <2>2
<1>7. Counted(b)' /\ Uncounted(b)'
  BY <1>1, <1>6 DEF Counted, Uncounted, Live, UploadsOf
<1>8. OneEnd(b)'
  <2>1. Endings(b)' = 0 /\ cleanup'[b] = 0
    BY <1>4, <1>5, <1>6 DEF Endings, Armed
  <2> QED BY <2>1 DEF OneEnd
<1> QED BY <1>7, <1>8 DEF InBooks

\* A result keeps the books.
LEMMA ResultBooks ==
    ASSUME TypeOK, TypeOK', BatchesDeclared, Books,
           NEW w \in Workers, WorkerNote(w), NEW b \in Named, worker[w].batch = b
    PROVE  InBooks(b)'
<1> DEFINE r == batches[b]
           n == Cardinality(UploadsOf(b))
           k == Cardinality(Arrived(b))
           t == IF r.current + 1 >= r.total THEN "armed" ELSE r.timer
<1>1. /\ Live(r) /\ ~Ended(b) /\ Outstanding(b) = Outstanding(b)' + 1
      /\ batches'[b] = [r EXCEPT !.current = r.current + 1, !.timer = t]
  BY ResultNoted
<1>2. /\ r \in BatchRec /\ n \in Nat /\ k \in Nat /\ k <= n /\ (k = n => Arrived(b) = UploadsOf(b))
      /\ Outstanding(b)' \in Nat
  BY ArrivedSize, NextNat DEF TypeOK, Named
<1>3. /\ r.mode = "fixed" /\ r.total >= n /\ r.enqueued = k /\ r.current + Outstanding(b) <= r.enqueued
      /\ r.current \in Nat /\ r.total \in Nat /\ r.enqueued \in Nat
  BY <1>1, <1>2 DEF Books, InBooks, Counted, BatchRec
<1>4. Armed(b) = 0 /\ fired[b] = 0 /\ finishing[b] = 0 /\ announced[b] = 0 /\ cleanup[b] = 0
  <2>1. Endings(b) = 0 /\ cleanup[b] = 0
    BY <1>1, EndingsParts DEF Books, InBooks, OneEnd
  <2> QED BY <2>1, EndingsParts
<1>5. /\ fired' = fired /\ finishing' = finishing /\ announced' = announced /\ cleanup' = cleanup
      /\ Arrived(b)' = Arrived(b)
  BY DEF WorkerNote, tusVars, Arrived, UploadsOf
<1>6. /\ batches'[b].mode = "fixed" /\ batches'[b].total = r.total /\ batches'[b].enqueued = k
      /\ batches'[b].current = r.current + 1 /\ batches'[b].timer = t
  BY <1>1, <1>2, <1>3 DEF BatchRec
<1>7. (r.current + 1) + Outstanding(b)' <= k
  BY <1>1, <1>2, <1>3
<1>8. Counted(b)' /\ Uncounted(b)'
  BY <1>3, <1>5, <1>6, <1>7 DEF Counted, Uncounted, Live, UploadsOf
<1>9. CASE r.current + 1 >= r.total
  <2>1. k = n /\ Outstanding(b)' = 0
    <3> HIDE DEF r, n, k
    <3> QED BY <1>2, <1>3, <1>7, <1>9
  <2>2. Ended(b)'
    BY <1>2, <1>5, <2>1 DEF Ended, UploadsOf
  <2>3. Endings(b)' = 1
    BY <1>4, <1>5, <1>6, <1>9 DEF Endings, Armed
  <2> QED BY <1>8, <2>2, <2>3 DEF InBooks, OneEnd
<1>10. CASE ~(r.current + 1 >= r.total)
  <2>1. Endings(b)' = 0 /\ cleanup'[b] = 0
    BY <1>4, <1>5, <1>6, <1>10 DEF Endings, Armed
  <2> QED BY <1>8, <2>1 DEF InBooks, OneEnd
<1> QED BY <1>9, <1>10

\* The end of a batch: its timer, onIdle, the callback, the slot dropped.
LEMMA EndBooks ==
    ASSUME TypeOK, TypeOK', BatchesDeclared, Books, NEW b \in Named, TrackerStep(b)
    PROVE  InBooks(b)'
<1> DEFINE r == batches[b]
<1>1. /\ UNCHANGED <<queue, worker, tus, outcome>>
      /\ Outstanding(b)' = Outstanding(b) /\ Arrived(b)' = Arrived(b)
  <2>1. UNCHANGED <<queue, worker, tus, outcome>>
    BY DEF TrackerStep, TimerFires, OnIdleReturns, OnIdle, BatchDone, Cleanup, tusVars
  <2> QED BY <2>1, OutstandingStep DEF Arrived, UploadsOf
<1>2. Ended(b)' <=> Ended(b)
  BY <1>1 DEF Ended, UploadsOf
<1>3. /\ Armed(b) \in {0, 1} /\ fired[b] \in Nat /\ finishing[b] \in Nat /\ announced[b] \in Nat
      /\ cleanup[b] \in Nat /\ Endings(b) \in Nat /\ Endings(b) <= 1
      /\ Endings(b) > 0 \/ cleanup[b] > 0 => Ended(b)
      /\ r \in BatchRec /\ b \in Batches
  BY EndingsParts DEF Books, InBooks, OneEnd, TypeOK, Named
<1>4. ASSUME r.timer = "armed" \/ fired[b] > 0 \/ finishing[b] > 0 \/ cleanup[b] > 0 PROVE Ended(b)
  <2>1. Endings(b) > 0 \/ cleanup[b] > 0
    BY <1>3, <1>4, EndingsParts DEF Armed
  <2> QED BY <1>3, <2>1
<1>5. ASSUME Ended(b), batches' = [batches EXCEPT ![b].timer = "off"] PROVE Counted(b)' /\ Uncounted(b)'
  <2>1. /\ batches'[b].mode = r.mode /\ batches'[b].total = r.total /\ batches'[b].enqueued = r.enqueued
        /\ batches'[b].current = r.current
    BY <1>3, <1>5 DEF TypeOK, BatchRec
  <2> QED BY <1>1, <1>2, <1>5, <2>1 DEF Books, InBooks, Counted, Uncounted, Live, UploadsOf, Ended
<1>6. ASSUME batches' = batches PROVE Counted(b)' /\ Uncounted(b)'
  BY <1>1, <1>2, <1>6 DEF Books, InBooks, Counted, Uncounted, Live, UploadsOf
<1>7. CASE TimerFires(b)
  <2>1. /\ batches' = [batches EXCEPT ![b].timer = "off"] /\ r.timer = "armed" /\ fired'[b] = fired[b] + 1
        /\ finishing' = finishing /\ announced' = announced
    BY <1>3, <1>7 DEF TimerFires, TypeOK
  <2>2. Armed(b) = 1 /\ Armed(b)' = 0
    BY <1>3, <2>1 DEF Armed, TypeOK, BatchRec
  <2>3. Endings(b)' = Endings(b)
    BY <1>3, <2>1, <2>2 DEF Endings
  <2> QED BY <1>2, <1>3, <1>4, <1>5, <2>1, <2>3 DEF InBooks, OneEnd
<1>8. CASE OnIdleReturns(b)
  <2>1. /\ batches' = batches /\ fired[b] > 0 /\ fired'[b] = fired[b] - 1
        /\ finishing' = finishing /\ announced' = announced
    BY <1>3, <1>8 DEF OnIdleReturns, TypeOK
  <2>2. Endings(b)' = Endings(b) - 1
    BY <1>3, <2>1 DEF Endings, Armed
  <2> QED BY <1>2, <1>3, <1>4, <1>6, <2>1, <2>2 DEF InBooks, OneEnd
<1>9. CASE OnIdle(b)
  <2>1. /\ batches' = [batches EXCEPT ![b].timer = "off"] /\ fired[b] > 0
        /\ fired'[b] = IF r.timer = "armed" THEN fired[b] ELSE fired[b] - 1
        /\ finishing'[b] = finishing[b] + 1 /\ announced' = announced
    BY <1>3, <1>9 DEF OnIdle, TypeOK
  <2>2. Armed(b)' = 0
    BY <1>3, <2>1 DEF Armed, TypeOK, BatchRec
  <2>3. Endings(b)' <= Endings(b)
    <3>1. CASE r.timer = "armed"
      BY <1>3, <2>1, <2>2, <3>1 DEF Endings, Armed
    <3>2. CASE r.timer # "armed"
      BY <1>3, <2>1, <2>2, <3>2 DEF Endings, Armed
    <3> QED BY <3>1, <3>2
  <2>4. Endings(b)' <= 1
    BY <1>3, <2>3, <2>1, <2>2, EndingsParts DEF Endings
  <2> QED BY <1>2, <1>3, <1>4, <1>5, <2>1, <2>4 DEF InBooks, OneEnd
<1>10. CASE BatchDone(b)
  <2>1. /\ batches' = batches /\ fired' = fired /\ finishing[b] > 0
        /\ finishing'[b] = finishing[b] - 1 /\ announced'[b] = announced[b] + 1
    BY <1>3, <1>10 DEF BatchDone, TypeOK
  <2>2. Endings(b)' = Endings(b)
    BY <1>3, <2>1 DEF Endings, Armed
  <2> QED BY <1>2, <1>3, <1>4, <1>6, <2>1, <2>2 DEF InBooks, OneEnd
<1>11. CASE Cleanup(b)
  <2>1. /\ batches'[b] = NoBatch /\ cleanup[b] > 0
        /\ fired'[b] = IF r.timer = "armed" THEN fired[b] + 1 ELSE fired[b]
        /\ finishing' = finishing /\ announced' = announced
    BY <1>3, <1>11 DEF Cleanup, TypeOK
  <2>2. Armed(b)' = 0 /\ ~Live(batches'[b])
    BY <2>1 DEF Armed, NoBatch, Live
  <2>3. Endings(b)' = Endings(b)
    <3>1. CASE r.timer = "armed"
      BY <1>3, <2>1, <2>2, <3>1 DEF Endings, Armed
    <3>2. CASE r.timer # "armed"
      BY <1>3, <2>1, <2>2, <3>2 DEF Endings, Armed
    <3> QED BY <3>1, <3>2
  <2>4. Counted(b)' /\ Uncounted(b)'
    BY <1>1, <1>2, <1>4, <2>1, <2>2 DEF Counted, Uncounted, Live, Ended
  <2> QED BY <1>2, <1>3, <1>4, <2>1, <2>3, <2>4 DEF InBooks, OneEnd
<1> QED BY <1>7, <1>8, <1>9, <1>10, <1>11 DEF TrackerStep

\* Every other step leaves the slots of the upload batches and their uploads alone.
LEMMA QuietStep ==
    ASSUME TypeOK, TypeOK', [Next]_vars, NEW b \in Named
    PROVE  \/ \E u \in Uploads : TusReserve(u) /\ u.batch = b
           \/ \E w \in Workers : WorkerNote(w) /\ worker[w].batch = b
           \/ TrackerStep(b)
           \/ /\ batches'[b] = batches[b] /\ fired'[b] = fired[b] /\ finishing'[b] = finishing[b]
              /\ cleanup'[b] = cleanup[b] /\ announced'[b] = announced[b]
              /\ Arrived(b)' = Arrived(b) /\ Outstanding(b)' <= Outstanding(b)
              /\ TusMoveFails \/ TusDrop \/ Outstanding(b)' = Outstanding(b)
<1> DEFINE Same == batches'[b] = batches[b] /\ fired'[b] = fired[b] /\ finishing'[b] = finishing[b]
                   /\ cleanup'[b] = cleanup[b] /\ announced'[b] = announced[b]
<1>1. Outstanding(b) \in Nat /\ Outstanding(b)' \in Nat
  BY Parts, NextNat
<1>2. UNCHANGED outcome => Arrived(b)' = Arrived(b)
  BY DEF Arrived, UploadsOf
<1>3. UNCHANGED trackerVars => Same
  BY DEF trackerVars
<1>4. b \in Batches /\ b # Legacy
  BY DEF Named
<1>5. ASSUME NEW e \in Enqueuers, NEW p \in Paths, EnqueueMark(e, p)
      PROVE  Same /\ Arrived(b)' = Arrived(b) /\ Outstanding(b)' = Outstanding(b)
  <2>1. UNCHANGED <<queue, worker, tus, outcome, trackerVars>>
    BY <1>5 DEF EnqueueMark, tusVars
  <2> QED BY <1>2, <1>3, <2>1, OutstandingStep
<1>6. ASSUME NEW e \in Enqueuers, EnqueueFull(e)
      PROVE  Same /\ Arrived(b)' = Arrived(b) /\ Outstanding(b)' = Outstanding(b)
  <2>1. UNCHANGED <<queue, worker, tus, outcome, trackerVars>>
    BY <1>6 DEF EnqueueFull, tusVars
  <2> QED BY <1>2, <1>3, <2>1, OutstandingStep
<1>7. ASSUME NEW e \in Enqueuers, EnqueuePush(e)
      PROVE  Same /\ Arrived(b)' = Arrived(b) /\ Outstanding(b)' = Outstanding(b)
  BY <1>2, <1>3, <1>7, OutstandingStep DEF EnqueuePush, tusVars
<1>8. ASSUME NEW e \in Enqueuers, EnqueueNote(e)
      PROVE  Same /\ Arrived(b)' = Arrived(b) /\ Outstanding(b)' = Outstanding(b)
  <2>1. UNCHANGED <<queue, worker, tus, outcome, fired, finishing, cleanup, announced>>
        /\ batches' = [batches EXCEPT ![Legacy] = NoteEnqueue(batches[Legacy], 0)]
    BY <1>8 DEF EnqueueNote, tusVars
  <2> QED BY <1>2, <1>4, <2>1, OutstandingStep DEF TypeOK
<1>9. ASSUME NEW u \in Uploads, TusReserve(u), u.batch # b
      PROVE  Same /\ Arrived(b)' = Arrived(b) /\ Outstanding(b)' = Outstanding(b)
  <2>1. /\ outcome' = [outcome EXCEPT ![u] = "ingesting"]
        /\ batches' = [batches EXCEPT ![u.batch] = NoteEnqueue(batches[u.batch], u.total)]
        /\ UNCHANGED <<fired, finishing, cleanup, announced>>
    BY <1>9 DEF TusReserve
  <2>2. Arrived(b)' = Arrived(b)
    BY <1>9, <2>1 DEF Arrived, UploadsOf, TypeOK
  <2>3. Outstanding(b)' = Outstanding(b) + 0
    BY <1>9, OutstandingStep
  <2> QED BY <1>1, <1>4, <1>9, <2>1, <2>2, <2>3 DEF TypeOK
<1>10. ASSUME NEW u \in Uploads, TusRefused(u)
       PROVE  Same /\ Arrived(b)' = Arrived(b) /\ Outstanding(b)' = Outstanding(b)
  <2>1. /\ outcome[u] = "uploading" /\ outcome' = [outcome EXCEPT ![u] = "refused"]
        /\ UNCHANGED <<queue, worker, tus, trackerVars>>
    BY <1>10 DEF TusRefused
  <2>2. Arrived(b)' = Arrived(b)
    BY <2>1 DEF Arrived, UploadsOf, TypeOK
  <2> QED BY <1>3, <2>1, <2>2, OutstandingStep
<1>11. ASSUME TusMove PROVE Same /\ Arrived(b)' = Arrived(b) /\ Outstanding(b)' = Outstanding(b)
  BY <1>2, <1>3, <1>11, OutstandingStep DEF TusMove
<1>12. ASSUME TusMoveFails \/ TusDrop \/ TusSubmit PROVE Same /\ Arrived(b)' = Arrived(b)
  <2>1. UNCHANGED trackerVars
    BY <1>12 DEF TusMoveFails, TusDrop, TusSubmit
  <2>2. \A u \in Uploads : outcome'[u] \in {"uploading", "refused"} <=> outcome[u] \in {"uploading", "refused"}
    <3>1. \/ outcome' = [u \in Uploads |-> IF Ingesting(u) THEN "failed" ELSE outcome[u]]
          \/ outcome' = [u \in Uploads |-> IF Ingesting(u) THEN "completed" ELSE outcome[u]]
      BY <1>12 DEF TusMoveFails, TusDrop, TusSubmit, Submitted
    <3>2. CASE outcome' = [u \in Uploads |-> IF Ingesting(u) THEN "failed" ELSE outcome[u]]
      BY <3>2 DEF Ingesting
    <3>3. CASE outcome' = [u \in Uploads |-> IF Ingesting(u) THEN "completed" ELSE outcome[u]]
      BY <3>3 DEF Ingesting
    <3> QED BY <3>1, <3>2, <3>3
  <2>3. Arrived(b)' = Arrived(b)
    BY <2>2 DEF Arrived, UploadsOf
  <2> QED BY <1>3, <2>1, <2>3
<1>13. ASSUME TusMoveFails \/ TusDrop PROVE Outstanding(b)' <= Outstanding(b)
  BY <1>13, OutstandingStep
<1>14. ASSUME TusSubmit PROVE Outstanding(b)' = Outstanding(b)
  BY <1>14, OutstandingStep
<1>15. ASSUME NEW w \in Workers, WorkerTake(w) \/ WorkerIndex(w) \/ WorkerRelease(w)
       PROVE  Same /\ Arrived(b)' = Arrived(b) /\ Outstanding(b)' = Outstanding(b)
  <2>1. UNCHANGED outcome /\ UNCHANGED trackerVars
    BY <1>15 DEF WorkerTake, WorkerIndex, WorkerRelease, tusVars
  <2> QED BY <1>2, <1>3, <1>15, <2>1, OutstandingStep
<1>16. ASSUME NEW w \in Workers, WorkerNote(w), worker[w].batch # b
       PROVE  Same /\ Arrived(b)' = Arrived(b) /\ Outstanding(b)' = Outstanding(b)
  <2>1. /\ batches' = [batches EXCEPT ![worker[w].batch] = NoteResult(batches[worker[w].batch])]
        /\ UNCHANGED <<outcome, fired, finishing, cleanup, announced>>
    BY <1>16 DEF WorkerNote, tusVars
  <2>2. Outstanding(b) = Outstanding(b)' + 0
    BY <1>16, OutstandingStep
  <2>3. worker[w].batch \in Batches
    BY DEF TypeOK
  <2> QED BY <1>1, <1>2, <1>4, <1>16, <2>1, <2>2, <2>3 DEF TypeOK
<1>17. ASSUME NEW p \in Paths, EchoExpires(p)
       PROVE  Same /\ Arrived(b)' = Arrived(b) /\ Outstanding(b)' = Outstanding(b)
  <2>1. UNCHANGED <<queue, worker, tus, outcome, trackerVars>>
    BY <1>17 DEF EchoExpires, tusVars
  <2> QED BY <1>2, <1>3, <2>1, OutstandingStep
<1>18. ASSUME NEW c \in Batches, TrackerStep(c), c # b
       PROVE  Same /\ Arrived(b)' = Arrived(b) /\ Outstanding(b)' = Outstanding(b)
  <2>1. UNCHANGED <<queue, worker, tus, outcome>>
    BY <1>18 DEF TrackerStep, TimerFires, OnIdleReturns, OnIdle, BatchDone, Cleanup, tusVars
  <2>2. Same
    <3> USE <1>4, <1>18 DEF TypeOK
    <3>1. CASE TimerFires(c)
      BY <3>1 DEF TimerFires
    <3>2. CASE OnIdleReturns(c)
      BY <3>2 DEF OnIdleReturns
    <3>3. CASE OnIdle(c)
      BY <3>3 DEF OnIdle
    <3>4. CASE BatchDone(c)
      BY <3>4 DEF BatchDone
    <3>5. CASE Cleanup(c)
      BY <3>5 DEF Cleanup
    <3> QED BY <3>1, <3>2, <3>3, <3>4, <3>5 DEF TrackerStep
  <2> QED BY <1>2, <2>1, <2>2, OutstandingStep
<1>19. ASSUME UNCHANGED vars
       PROVE  Same /\ Arrived(b)' = Arrived(b) /\ Outstanding(b)' = Outstanding(b)
  <2>1. UNCHANGED <<queue, worker, tus, outcome, trackerVars>>
    BY <1>19 DEF vars, tusVars
  <2> QED BY <1>2, <1>3, <2>1, OutstandingStep
<1> HIDE DEF Same
<1>20. Same /\ Arrived(b)' = Arrived(b) /\ Outstanding(b)' = Outstanding(b)
       => /\ Same /\ Arrived(b)' = Arrived(b) /\ Outstanding(b)' <= Outstanding(b)
          /\ TusMoveFails \/ TusDrop \/ Outstanding(b)' = Outstanding(b)
  BY <1>1
<1>21. \/ \E u \in Uploads : TusReserve(u) /\ u.batch = b
       \/ \E w \in Workers : WorkerNote(w) /\ worker[w].batch = b
       \/ TrackerStep(b)
       \/ /\ Same /\ Arrived(b)' = Arrived(b) /\ Outstanding(b)' <= Outstanding(b)
          /\ TusMoveFails \/ TusDrop \/ Outstanding(b)' = Outstanding(b)
  <2>1. CASE \E e \in Enqueuers : (\E p \in Paths : EnqueueMark(e, p)) \/ EnqueueStep(e)
    BY <2>1, <1>5, <1>6, <1>7, <1>8, <1>20 DEF EnqueueStep
  <2>2. CASE \E u \in Uploads : TusReserve(u) \/ TusRefused(u)
    BY <2>2, <1>9, <1>10, <1>20
  <2>3. CASE TusStep
    BY <2>3, <1>11, <1>12, <1>13, <1>14, <1>20 DEF TusStep
  <2>4. CASE \E w \in Workers : WorkerStep(w)
    BY <2>4, <1>15, <1>16, <1>20 DEF WorkerStep
  <2>5. CASE \E p \in Paths : EchoExpires(p)
    BY <2>5, <1>17, <1>20
  <2>6. CASE \E c \in Batches : TrackerStep(c)
    BY <2>6, <1>18, <1>20
  <2>7. CASE UNCHANGED vars
    BY <2>7, <1>19, <1>20
  <2> QED BY <2>1, <2>2, <2>3, <2>4, <2>5, <2>6, <2>7 DEF Next
<1> QED BY <1>21 DEF Same

\* Every step of the ingestion front keeps the books.
LEMMA BooksStep == ASSUME TypeOK, TypeOK', BatchesDeclared, Books, [Next]_vars PROVE Books'
<1> SUFFICES ASSUME NEW b \in Named PROVE InBooks(b)'
  BY DEF Books
<1>1. ASSUME NEW u \in Uploads, TusReserve(u), u.batch = b PROVE InBooks(b)'
  BY <1>1, ReserveBooks
<1>2. ASSUME NEW w \in Workers, WorkerNote(w), worker[w].batch = b PROVE InBooks(b)'
  BY <1>2, ResultBooks
<1>3. CASE TrackerStep(b)
  BY <1>3, EndBooks
<1>4. InBooks(b)
  BY DEF Books
<1> QED BY <1>1, <1>2, <1>3, <1>4, QuietStep, QuietBook

\* Unless a file is lost on the way to the queue the counters miss nothing.
LEMMA BalanceStep ==
    ASSUME TypeOK, TypeOK', BatchesDeclared, Books, CountsConserved, [Next]_vars, ~TusMoveFails, ~TusDrop
    PROVE  CountsConserved'
<1> SUFFICES ASSUME NEW b \in Named, Live(batches'[b])
             PROVE  batches'[b].enqueued = batches'[b].current + Outstanding(b)'
  BY DEF CountsConserved, Live
<1> DEFINE r == batches[b]
<1>1. /\ Outstanding(b) \in Nat /\ Outstanding(b)' \in Nat /\ r \in BatchRec
      /\ r.current \in Nat /\ r.enqueued \in Nat
      /\ Live(r) => r.enqueued = r.current + Outstanding(b)
  BY Parts, NextNat DEF CountsConserved, TypeOK, BatchRec, Named
<1>2. ASSUME NEW u \in Uploads, TusReserve(u), u.batch = b
      PROVE  batches'[b].enqueued = batches'[b].current + Outstanding(b)'
  <2>1. Outstanding(b)' = Outstanding(b) + 1
    BY <1>2, OutstandingStep
  <2>2. CASE ~Live(r)
    <3>1. Outstanding(b) = 0 /\ batches'[b] = [mode |-> "fixed", enqueued |-> 1, total |-> u.total,
                                                current |-> 0, timer |-> "off"]
      BY <1>2, <2>2, ReserveNoted
    <3> QED BY <2>1, <3>1
  <2>3. CASE Live(r)
    <3>1. batches'[b] = [r EXCEPT !.enqueued = r.enqueued + 1, !.timer = "off"]
      BY <1>2, <2>3, ReserveNoted
    <3>2. batches'[b].enqueued = r.enqueued + 1 /\ batches'[b].current = r.current
      BY <1>1, <3>1 DEF BatchRec
    <3> QED BY <1>1, <2>1, <2>3, <3>2
  <2> QED BY <2>2, <2>3
<1>3. ASSUME NEW w \in Workers, WorkerNote(w), worker[w].batch = b
      PROVE  batches'[b].enqueued = batches'[b].current + Outstanding(b)'
  <2> DEFINE t == IF r.current + 1 >= r.total THEN "armed" ELSE r.timer
  <2>1. /\ Live(r) /\ Outstanding(b) = Outstanding(b)' + 1
        /\ batches'[b] = [r EXCEPT !.current = r.current + 1, !.timer = t]
    BY <1>3, ResultNoted
  <2>2. batches'[b].enqueued = r.enqueued /\ batches'[b].current = r.current + 1
    BY <1>1, <2>1 DEF BatchRec
  <2> QED BY <1>1, <2>1, <2>2
<1>4. ASSUME TrackerStep(b) PROVE batches'[b].enqueued = batches'[b].current + Outstanding(b)'
  <2>1. UNCHANGED <<queue, worker, tus>>
    BY <1>4 DEF TrackerStep, TimerFires, OnIdleReturns, OnIdle, BatchDone, Cleanup, tusVars
  <2>2. Outstanding(b)' = Outstanding(b)
    BY <2>1, OutstandingStep
  <2>3. CASE batches' = batches
    BY <1>1, <2>2, <2>3
  <2>4. CASE batches' = [batches EXCEPT ![b].timer = "off"]
    <3>1. /\ batches'[b].mode = r.mode /\ batches'[b].enqueued = r.enqueued
          /\ batches'[b].current = r.current
      BY <1>1, <2>4 DEF TypeOK, BatchRec, Named
    <3> QED BY <1>1, <2>2, <3>1 DEF Live
  <2>5. CASE batches' = [batches EXCEPT ![b] = NoBatch]
    BY <2>5 DEF TypeOK, Named, Live, NoBatch
  <2> QED BY <1>4, <2>3, <2>4, <2>5 DEF TrackerStep, TimerFires, OnIdleReturns, OnIdle, BatchDone, Cleanup
<1>5. ASSUME batches'[b] = batches[b], Outstanding(b)' = Outstanding(b)
      PROVE  batches'[b].enqueued = batches'[b].current + Outstanding(b)'
  BY <1>1, <1>5
<1> QED BY <1>2, <1>3, <1>4, <1>5, QuietStep

\* onIdle meets a settled slot only at the end of the batch.
LEMMA EndStep ==
    ASSUME TypeOK, TypeOK', BatchesDeclared, Books, [Next]_vars, NEW b \in Named
    PROVE  finishing'[b] > finishing[b] => Outstanding(b) = 0
<1> DEFINE r == batches[b]
<1>1. /\ r \in BatchRec /\ b \in Batches
      /\ finishing[b] \in Nat /\ cleanup[b] \in Nat
  BY DEF TypeOK, Named
<1>2. ASSUME NEW u \in Uploads, TusReserve(u), u.batch = b
      PROVE  finishing'[b] = finishing[b] /\ Live(batches'[b])
  <2>1. finishing' = finishing
    BY <1>2 DEF TusReserve
  <2>2. CASE ~Live(r)
    <3>1. batches'[b] = [mode |-> "fixed", enqueued |-> 1, total |-> u.total, current |-> 0, timer |-> "off"]
      BY <1>2, <2>2, ReserveNoted
    <3> QED BY <2>1, <3>1 DEF Live
  <2>3. CASE Live(r)
    <3>1. batches'[b] = [r EXCEPT !.enqueued = r.enqueued + 1, !.timer = "off"]
      BY <1>2, <2>3, ReserveNoted
    <3>2. batches'[b].mode = r.mode
      BY <1>1, <3>1 DEF BatchRec
    <3> QED BY <2>1, <2>3, <3>2 DEF Live
  <2> QED BY <2>2, <2>3
<1>3. ASSUME NEW w \in Workers, WorkerNote(w), worker[w].batch = b
      PROVE  finishing'[b] = finishing[b] /\ Live(batches'[b])
  <2> DEFINE t == IF r.current + 1 >= r.total THEN "armed" ELSE r.timer
  <2>1. Live(r) /\ batches'[b] = [r EXCEPT !.current = r.current + 1, !.timer = t]
    BY <1>3, ResultNoted
  <2>2. batches'[b].mode = r.mode
    BY <1>1, <2>1 DEF BatchRec
  <2> QED BY <1>3, <2>1, <2>2 DEF WorkerNote, Live
<1>4. CASE OnIdle(b)
  BY <1>4, SettledEnded DEF OnIdle, Ended
<1>5. CASE Cleanup(b)
  <2>1. Ended(b)
    BY <1>1, <1>5 DEF Cleanup, Books, InBooks, OneEnd
  <2> QED BY <2>1 DEF Ended
<1>6. CASE TimerFires(b)
  <2>1. finishing' = finishing /\ batches'[b].mode = r.mode
    BY <1>1, <1>6 DEF TimerFires, TypeOK, BatchRec
  <2> QED BY <1>1, <2>1
<1>7. CASE OnIdleReturns(b)
  BY <1>1, <1>7 DEF OnIdleReturns
<1>8. CASE BatchDone(b)
  <2>1. finishing'[b] = finishing[b] - 1 /\ batches' = batches
    BY <1>1, <1>8 DEF BatchDone, TypeOK
  <2> QED BY <1>1, <2>1
<1>9. ASSUME finishing'[b] = finishing[b] PROVE ~(finishing'[b] > finishing[b])
  BY <1>1, <1>9
<1> QED BY <1>2, <1>3, <1>4, <1>5, <1>6, <1>7, <1>8, <1>9, QuietStep DEF TrackerStep
-----------------------------------------------------------------------------
(* Beside the scans (IngestScan): they touch markers and album entries, never  *)
(* the counters.                                                               *)

\* A step of IngestScan is one of Ingest, or touches none of what the books are kept in.
LEMMA ScanStepKinds ==
    ASSUME TypeOK, [ScanNext]_allVars
    PROVE  \/ [Next]_vars
           \/ /\ UNCHANGED <<queue, worker, enqVars, tusVars, trackerVars, echo>>
              /\ \/ \E p \in Paths : IndexFile(p) /\ UNCHANGED seen
                 \/ seen' \subseteq seen /\ UNCHANGED albumVars
<1>1. CASE IngestStep
  BY <1>1 DEF IngestStep, Next, WorkerStep
<1>2. ASSUME NEW w \in Workers, WorkerIndexRow(w) PROVE Next
  BY <1>2 DEF WorkerIndexRow, Next, WorkerStep
<1>3. ASSUME NEW s \in Scanners, NEW found \in SUBSET Paths, ScanStart(s, found) PROVE UNCHANGED vars
  BY <1>3 DEF ScanStart
<1>4. ASSUME NEW s \in Scanners, ScanEnd(s) PROVE UNCHANGED vars
  BY <1>4 DEF ScanEnd
<1>5. CASE UNCHANGED allVars
  BY <1>5 DEF allVars
<1>6. ASSUME NEW s \in Scanners, NEW p \in Paths, ScanIndex(s, p)
      PROVE  /\ UNCHANGED <<queue, worker, enqVars, tusVars, trackerVars, echo>>
             /\ IndexFile(p) /\ UNCHANGED seen
  BY <1>6 DEF ScanIndex
<1>7. ASSUME NEW s \in Scanners, ScanRelease(s)
      PROVE  /\ UNCHANGED <<queue, worker, enqVars, tusVars, trackerVars, echo>>
             /\ seen' \subseteq seen /\ UNCHANGED albumVars
  BY <1>7 DEF ScanRelease
<1>8. ASSUME NEW p \in Paths, RemoveRow(p)
      PROVE  /\ UNCHANGED <<queue, worker, enqVars, tusVars, trackerVars, echo>>
             /\ seen' \subseteq seen /\ UNCHANGED albumVars
  BY <1>8 DEF RemoveRow
<1> QED BY <1>1, <1>2, <1>3, <1>4, <1>5, <1>6, <1>7, <1>8 DEF ScanNext, ScanStep

\* The scans keep the types.
LEMMA ScanTypeStep == TypeOK /\ [ScanNext]_allVars => TypeOK'
<1> SUFFICES ASSUME TypeOK, [ScanNext]_allVars PROVE TypeOK'
  OBVIOUS
<1>1. ASSUME UNCHANGED <<queue, worker, enqVars, tusVars, trackerVars, echo>>,
             NEW p \in Paths, IndexFile(p), UNCHANGED seen
      PROVE  TypeOK'
  <2>1. pendingAlbum' \in [Paths -> Albums \cup {NoAlbum}] /\ inAlbum' \subseteq Paths \X Albums
    BY <1>1 DEF IndexFile, TypeOK
  <2> QED BY <1>1, <2>1 DEF TypeOK, enqVars, tusVars, trackerVars
<1>2. ASSUME UNCHANGED <<queue, worker, enqVars, tusVars, trackerVars, echo>>,
             seen' \subseteq seen, UNCHANGED albumVars
      PROVE  TypeOK'
  BY <1>2 DEF TypeOK, enqVars, tusVars, trackerVars, albumVars
<1> QED BY <1>1, <1>2, TypeStep, ScanStepKinds

\* The scans keep the books.
LEMMA ScanBooksStep ==
    ASSUME TypeOK, TypeOK', BatchesDeclared, Books, [ScanNext]_allVars PROVE Books'
<1>1. ASSUME UNCHANGED <<queue, worker, enqVars, tusVars, trackerVars, echo>> PROVE Books'
  <2> SUFFICES ASSUME NEW b \in Named PROVE InBooks(b)'
    BY DEF Books
  <2>1. Outstanding(b) \in Nat /\ Outstanding(b)' = Outstanding(b)
    BY <1>1, OutstandingStep, Parts DEF tusVars
  <2>2. Arrived(b)' = Arrived(b)
    BY <1>1 DEF tusVars, Arrived, UploadsOf
  <2>3. InBooks(b)
    BY DEF Books
  <2> QED BY <1>1, <2>1, <2>2, <2>3, QuietBook DEF trackerVars
<1> QED BY <1>1, BooksStep, ScanStepKinds

\* The books are in order before anything arrives.
LEMMA InitBooks == ASSUME Init, BatchesDeclared PROVE Books /\ CountsConserved /\ NoLeakedAlbumEntry
<1>1. ASSUME NEW b \in Named
      PROVE  /\ InBooks(b) /\ ~Live(batches[b])
  <2>1. QueuedOf(b) = {} /\ AtWorkers(b) = {} /\ Kept(b) = 0
    BY DEF Init, QueuedOf, AtWorkers, Has, Kept, IdleWorker, IdleTus
  <2>2. Outstanding(b) = Cardinality(QueuedOf(b)) + Cardinality(AtWorkers(b)) + Kept(b)
    BY DEF Outstanding, QueuedOf, AtWorkers, Has, Kept
  <2>3. Outstanding(b) = 0
    BY <2>1, <2>2, FS_EmptySet
  <2>4. Arrived(b) = {} /\ ~Live(batches[b]) /\ Endings(b) = 0 /\ cleanup[b] = 0
    BY DEF Init, Arrived, UploadsOf, Live, NoBatch, Endings, Armed, Named
  <2> QED BY <2>3, <2>4 DEF InBooks, Counted, Uncounted, OneEnd
<1> QED BY <1>1 DEF Books, CountsConserved, NoLeakedAlbumEntry, Init

\* No move into the gallery fails, and no file is dropped at a full queue.
NothingLost == [][~TusMoveFails /\ ~TusDrop]_vars

\* A lost file always shows in the variables: the box excludes the two actions.
LEMMA NotLost == ASSUME [~TusMoveFails /\ ~TusDrop]_vars, TypeOK PROVE ~TusMoveFails /\ ~TusDrop
BY DEF vars, tusVars, TusMoveFails, TusDrop, Submitted, IdleTus

\* The scans keep the balance of the counters.
LEMMA ScanBalanceStep ==
    ASSUME TypeOK, TypeOK', BatchesDeclared, Books, CountsConserved, [ScanNext]_allVars,
           [~TusMoveFails /\ ~TusDrop]_vars
    PROVE  CountsConserved'
<1>1. ASSUME UNCHANGED <<queue, worker, enqVars, tusVars, trackerVars, echo>> PROVE CountsConserved'
  <2>1. \A b \in Named : Outstanding(b)' = Outstanding(b)
    BY <1>1, OutstandingStep DEF tusVars
  <2> QED BY <1>1, <2>1 DEF CountsConserved, trackerVars, Live
<1> QED BY <1>1, BalanceStep, NotLost, ScanStepKinds

\* An album entry travels with its file: from the reservation to the queue, to the
\* worker, to the end of its indexing.
LEMMA EntryStep ==
    ASSUME TypeOK, NoLeakedAlbumEntry, [ScanNext]_allVars, [~TusMoveFails /\ ~TusDrop]_vars
    PROVE  NoLeakedAlbumEntry'
<1> SUFFICES ASSUME NEW p \in Paths, pendingAlbum'[p] # NoAlbum PROVE HoldsEntry(p)'
  BY DEF NoLeakedAlbumEntry
<1> USE DEF HoldsEntry, Queued
<1>1. ASSUME HoldsEntry(p), UNCHANGED <<queue, worker, tus>> PROVE HoldsEntry(p)'
  BY <1>1
<1>2. ASSUME UNCHANGED pendingAlbum PROVE HoldsEntry(p)
  BY <1>2 DEF NoLeakedAlbumEntry
<1>3. ASSUME NEW q \in Paths, IndexFile(q) PROVE q # p /\ HoldsEntry(p)
  <2>1. pendingAlbum' = [pendingAlbum EXCEPT ![q] = NoAlbum] /\ pendingAlbum \in [Paths -> Albums \cup {NoAlbum}]
    BY <1>3 DEF IndexFile, TypeOK
  <2>2. q # p /\ pendingAlbum[p] # NoAlbum
    BY <2>1
  <2> USE DEF NoLeakedAlbumEntry
  <2> HIDE DEF HoldsEntry
  <2> QED BY <2>2
<1>4. CASE UNCHANGED <<queue, worker, enqVars, tusVars, trackerVars, echo>> /\
           ((\E q \in Paths : IndexFile(q)) \/ UNCHANGED albumVars)
  BY <1>1, <1>2, <1>3, <1>4 DEF tusVars, albumVars
<1>5. ASSUME NEW e \in Enqueuers, NEW q \in Paths, EnqueueMark(e, q) PROVE HoldsEntry(p)'
  BY <1>1, <1>2, <1>5 DEF EnqueueMark, tusVars, albumVars
<1>6. ASSUME NEW e \in Enqueuers, EnqueueFull(e) \/ EnqueueNote(e) PROVE HoldsEntry(p)'
  BY <1>1, <1>2, <1>6 DEF EnqueueFull, EnqueueNote, tusVars, albumVars
<1>7. ASSUME NEW x \in Item, queue' = Append(queue, x), HoldsEntry(p), UNCHANGED <<worker, tus>> PROVE HoldsEntry(p)'
  <2>1. /\ Len(queue') = Len(queue) + 1
        /\ \A i \in 1..Len(queue) : i \in 1..Len(queue') /\ queue'[i] = queue[i]
    BY <1>7, QueueAppend DEF TypeOK
  <2> QED BY <1>7, <2>1
<1>8. ASSUME NEW e \in Enqueuers, EnqueuePush(e) PROVE HoldsEntry(p)'
  <2>1. [path |-> enq[e].path, batch |-> Legacy] \in Item
    BY <1>8, ConstantsAssumption DEF EnqueuePush, TypeOK, Item
  <2> QED BY <1>2, <1>7, <1>8, <2>1 DEF EnqueuePush, tusVars, albumVars
<1>9. ASSUME NEW u \in Uploads, TusReserve(u) PROVE HoldsEntry(p)'
  <2>1. /\ tus.pc = "idle" /\ tus'.pc # "idle" /\ tus'.path = u.path /\ UNCHANGED <<queue, worker>>
        /\ u.path # p => pendingAlbum'[p] = pendingAlbum[p]
    BY <1>9 DEF TusReserve, TypeOK
  <2> QED BY <2>1 DEF NoLeakedAlbumEntry
<1>10. ASSUME NEW u \in Uploads, TusRefused(u) PROVE HoldsEntry(p)'
  BY <1>1, <1>2, <1>10 DEF TusRefused, albumVars
<1>11. CASE TusMove
  <2>1. tus'.pc # "idle" /\ tus'.path = tus.path /\ UNCHANGED <<queue, worker, pendingAlbum>>
    BY <1>11 DEF TusMove, TypeOK, albumVars
  <2> QED BY <1>2, <2>1
<1>12. CASE TusSubmit
  <2> DEFINE x == [path |-> tus.path, batch |-> tus.batch]
  <2>1. x \in Item /\ queue' = Append(queue, x) /\ UNCHANGED <<worker, pendingAlbum>> /\ x.path = tus.path
    BY <1>12 DEF TusSubmit, Submitted, TypeOK, Item, albumVars
  <2> HIDE DEF x
  <2>2. /\ \A i \in 1..Len(queue) : i \in 1..Len(queue') /\ queue'[i] = queue[i]
        /\ Len(queue') \in 1..Len(queue') /\ queue'[Len(queue')].path = tus.path
    BY <2>1, QueueAppend DEF TypeOK
  <2> QED BY <1>2, <2>1, <2>2
<1>13. ASSUME NEW w \in Workers, WorkerTake(w) PROVE HoldsEntry(p)'
  <2>1. /\ queue # <<>> /\ queue' = Tail(queue) /\ UNCHANGED <<tus, pendingAlbum>> /\ worker[w].pc = "idle"
        /\ worker'[w].pc = "taken" /\ worker'[w].path = Head(queue).path
        /\ \A v \in Workers : v # w => worker'[v] = worker[v]
    BY <1>13 DEF WorkerTake, tusVars, albumVars, TypeOK
  <2>2. Head(queue) = queue[1] /\ \A i \in 2..Len(queue) : i - 1 \in 1..Len(queue') /\ queue'[i - 1] = queue[i]
    <3>1. queue \in Seq(Item)
      BY DEF TypeOK
    <3> QED BY ONLY <2>1, <3>1
  <2>3. HoldsEntry(p)
    BY <1>2, <2>1
  <2>4. CASE \E i \in 1..Len(queue) : queue[i].path = p
    <3>1. PICK i \in 1..Len(queue) : queue[i].path = p
      BY <2>4
    <3>2. CASE i = 1
      BY <2>1, <2>2, <3>1, <3>2
    <3>3. CASE i # 1
      <4>1. i \in 2..Len(queue)
        BY <3>1, <3>3 DEF TypeOK
      <4> QED BY <2>2, <3>1, <4>1
    <3> QED BY <3>2, <3>3
  <2> QED BY <2>1, <2>3, <2>4
<1>14. ASSUME NEW w \in Workers, WorkerIndex(w) PROVE HoldsEntry(p)'
  <2>1. /\ worker[w].path \in Paths /\ IndexFile(worker[w].path) /\ UNCHANGED <<queue, tus>>
        /\ \A v \in Workers : v # w => worker'[v] = worker[v]
    BY <1>14 DEF WorkerIndex, tusVars, TypeOK
  <2>2. worker[w].path # p /\ HoldsEntry(p)
    BY <1>3, <2>1
  <2> QED BY <2>1, <2>2
<1>15. ASSUME NEW w \in Workers, WorkerNote(w) \/ WorkerRelease(w) PROVE HoldsEntry(p)'
  <2>1. /\ worker[w].pc \in {"indexed", "noted"} /\ UNCHANGED <<queue, tus, pendingAlbum>>
        /\ \A v \in Workers : v # w => worker'[v] = worker[v]
    BY <1>15 DEF WorkerNote, WorkerRelease, tusVars, albumVars, TypeOK
  <2> QED BY <1>2, <2>1
<1>16. ASSUME NEW q \in Paths, EchoExpires(q) PROVE HoldsEntry(p)'
  BY <1>1, <1>2, <1>16 DEF EchoExpires, tusVars, albumVars
<1>17. ASSUME NEW b \in Batches, TrackerStep(b) PROVE HoldsEntry(p)'
  <2>1. UNCHANGED <<queue, worker, tus, pendingAlbum>>
    BY <1>17 DEF TrackerStep, TimerFires, OnIdleReturns, OnIdle, BatchDone, Cleanup, tusVars, albumVars
  <2> QED BY <1>1, <1>2, <2>1
<1>18. CASE UNCHANGED vars
  BY <1>1, <1>2, <1>18 DEF vars, tusVars, albumVars
<1>19. ~TusMoveFails /\ ~TusDrop
  BY NotLost
<1>20. CASE [Next]_vars
  BY <1>5, <1>6, <1>8, <1>9, <1>10, <1>11, <1>12, <1>13, <1>14, <1>15, <1>16, <1>17, <1>18, <1>19, <1>20
  DEF Next, EnqueueStep, TusStep, WorkerStep
<1> QED BY <1>4, <1>20, ScanStepKinds
-----------------------------------------------------------------------------
\* Scans and removals beside the workers keep the types too.
THEOREM ScanTypeCorrect == ScanSpec => []TypeOK
<1>1. ScanInit => TypeOK
  BY ConstantsAssumption DEF ScanInit, Init, TypeOK, Item, BatchRec, NoBatch, IdleWorker, IdleEnq, IdleTus
<1> QED BY <1>1, ScanTypeStep, PTL DEF ScanSpec

\* The post-batch hooks run at most once per upload batch whose uploader declared its
\* size: for every number of batches, files, workers and scans, and whatever is dropped.
THEOREM OnceCorrect == ASSUME BatchesDeclared PROVE ScanSpec => []AnnouncedOnce
<1>1. ScanInit => Books
  BY InitBooks DEF ScanInit
<1>2. TypeOK /\ TypeOK' /\ Books /\ [ScanNext]_allVars => Books'
  BY ScanBooksStep
<1>3. TypeOK /\ Books => AnnouncedOnce
  <2> SUFFICES ASSUME TypeOK, Books, NEW b \in Named PROVE announced[b] + finishing[b] <= 1
    BY DEF AnnouncedOnce
  <2>1. Armed(b) \in {0, 1} /\ fired[b] \in Nat /\ finishing[b] \in Nat /\ announced[b] \in Nat
    BY EndingsParts
  <2>2. Armed(b) + fired[b] + finishing[b] + announced[b] <= 1
    BY DEF Books, InBooks, OneEnd, Endings
  <2>3. Armed(b) + fired[b] \in Nat
    BY <2>1
  <2> QED BY <2>1, <2>2, <2>3
<1> QED BY <1>1, <1>2, <1>3, ScanTypeCorrect, PTL DEF ScanSpec

\* onIdle declares a batch of declared size done only when none of its files is
\* reserved, queued or at a worker, also when moves fail and the queue is full.
THEOREM DoneCorrect == ASSUME BatchesDeclared PROVE Spec => DoneOnlyWhenSettled
<1>1. Init => Books
  BY InitBooks
<1>2. TypeOK /\ TypeOK' /\ Books /\ [Next]_vars => Books'
  BY BooksStep
<1>3. TypeOK /\ TypeOK' /\ Books /\ [Next]_vars
      => [\A b \in Named : finishing'[b] > finishing[b] => Outstanding(b) = 0]_vars
  BY EndStep
<1> QED BY <1>1, <1>2, <1>3, TypeCorrect, PTL DEF Spec, DoneOnlyWhenSettled

\* The counters of a batch of declared size add up at every moment, unless a file is
\* lost between its reservation and the queue.
THEOREM CountsCorrect == ASSUME BatchesDeclared PROVE ScanSpec /\ NothingLost => []CountsConserved
<1>1. ScanInit => Books /\ CountsConserved
  BY InitBooks DEF ScanInit
<1>2. TypeOK /\ TypeOK' /\ Books /\ [ScanNext]_allVars => Books'
  BY ScanBooksStep
<1>3. TypeOK /\ TypeOK' /\ Books /\ CountsConserved /\ [ScanNext]_allVars
      /\ [~TusMoveFails /\ ~TusDrop]_vars => CountsConserved'
  BY ScanBalanceStep
<1> QED BY <1>1, <1>2, <1>3, ScanTypeCorrect, PTL DEF ScanSpec, NothingLost

\* No album entry outlives its file, unless the file is lost on the way to the queue:
\* a scan that takes an entry takes it for good.
THEOREM EntriesCorrect == ScanSpec /\ NothingLost => []NoLeakedAlbumEntry
<1>1. ScanInit => NoLeakedAlbumEntry
  BY DEF ScanInit, Init, NoLeakedAlbumEntry
<1>2. TypeOK /\ NoLeakedAlbumEntry /\ [ScanNext]_allVars /\ [~TusMoveFails /\ ~TusDrop]_vars
      => NoLeakedAlbumEntry'
  BY EntryStep
<1> QED BY <1>1, <1>2, ScanTypeCorrect, PTL DEF ScanSpec, NothingLost
=============================================================================
