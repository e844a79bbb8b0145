--------------------------- MODULE UploadsProofs ---------------------------
(* What the upload path promises for any uploads, names, cancels, restarts and *)
(* any order of the events: the types, the bytes of a delivered file until it  *)
(* is indexed, and what the task row says of the upload.                       *)
EXTENDS Uploads, TLAPS

StagingParts  == {"new", "some", "whole", "none"}
Files  == [part : StagingParts, name : Names]
LastStatuses   == {"uploading", "paused", "completed", "failed", "canceled"}
Rows   == [status : LastStatuses \cup {"none"}, due : BOOLEAN]
Events == {"created", "progress", "terminated", "complete"} \X Uploads
Hands  == [up : Uploads \cup {NoUpload}, pc : {"idle", "move", "submit", "failed", "completed"}]

-----------------------------------------------------------------------------
(* The invariant has three parts, by the state they speak of: the files in     *)
(* staging with the events in flight, the task rows, and the reservations.     *)

\* Only a new upload is given a name, and no event of completion is of a new one.
StagingOK ==
    /\ staged \in [Uploads -> Files]
    /\ inHand \subseteq Events
    /\ ingest \in Hands
    /\ \A u \in Uploads : <<"complete", u>> \in inHand => staged[u].part # "new"
    /\ ingest.pc # "idle" => ingest.up \in Uploads /\ staged[ingest.up].part # "new"

RowsOK == tasks \in [Uploads -> Rows] /\ cancels \subseteq Uploads
          /\ upRestarts \in 0..MaxUpRestarts /\ storeErrors \in 0..MaxStoreErrors

\* The name of the upload that is being moved is reserved and not in the queue, and what
\* was moved counts as delivered.
ReservedOK ==
    /\ gallery \in [Names -> Uploads \cup {NoUpload}]
    /\ marks \subseteq Names /\ submitted \subseteq marks /\ delivered \subseteq Uploads
    /\ unrecorded \subseteq delivered /\ (ingest.pc \in {"submit", "completed"} => ingest.up \in delivered)
    /\ ingest.pc \in {"move", "submit"} => staged[ingest.up].name \in marks /\ staged[ingest.up].name \notin submitted

UploadsOK == StagingOK /\ RowsOK /\ ReservedOK

LEMMA Typed == ASSUME UploadsOK PROVE UpTypeOK
BY DEF UploadsOK, StagingOK, RowsOK, ReservedOK, UpTypeOK, StagingParts, Files, LastStatuses, Rows, Events, Hands

LEMMA InitOK == ASSUME UpInit PROVE UploadsOK
<1> USE NoUploadIsNone DEF UpInit
<1>1. NoFileYet \in Files
  BY DEF NoFileYet, Files, StagingParts
<1>2. NoTask \in Rows /\ NoIngest \in Hands /\ NoIngest.pc = "idle"
  BY DEF NoTask, Rows, LastStatuses, NoIngest, Hands
<1> QED BY <1>1, <1>2 DEF UploadsOK, StagingOK, RowsOK, ReservedOK

-----------------------------------------------------------------------------
(* Updates of one file and of one row.                                         *)

\* A file in staging that changes its part keeps its name, and the others stay.
LEMMA PartSet ==
    ASSUME staged \in [Uploads -> Files], NEW u \in Uploads, NEW x \in StagingParts \ {"new"},
           staged' = [staged EXCEPT ![u].part = x]
    PROVE  /\ staged' \in [Uploads -> Files]
           /\ \A v \in Uploads : staged'[v].name = staged[v].name
           /\ \A v \in Uploads : staged[v].part # "new" => staged'[v].part # "new"
           /\ staged'[u].part # "new"
<1>1. [staged[u] EXCEPT !.part = x] \in Files
  BY DEF Files
<1>2. staged' = [staged EXCEPT ![u] = [staged[u] EXCEPT !.part = x]]
  OBVIOUS
<1>3. \A v \in Uploads : staged'[v] = IF v = u THEN [staged[u] EXCEPT !.part = x] ELSE staged[v]
  BY <1>2
<1>4. [staged[u] EXCEPT !.part = x].name = staged[u].name /\ [staged[u] EXCEPT !.part = x].part = x
  BY DEF Files
<1> QED BY <1>1, <1>2, <1>3, <1>4

\* Rows stay rows, whatever an UPDATE sets.
LEMMA RowSet ==
    ASSUME tasks \in [Uploads -> Rows], NEW u \in Uploads, NEW x \in LastStatuses, NEW d \in BOOLEAN, SetTask(u, x, d)
    PROVE  tasks' \in [Uploads -> Rows]
<1>1. [status |-> x, due |-> d] \in Rows
  BY DEF Rows
<1> QED BY <1>1 DEF SetTask

\* The rows need no more than their own part of the invariant.
LEMMA RowsKept == ASSUME UploadsOK, [UpNext]_upVars PROVE RowsOK'
<1> USE NoUploadIsNone DEF UploadsOK, RowsOK, upPast, StoreError
<1>1. ASSUME NEW u \in Uploads, NEW n \in Names, UploadCreate(u, n) \/ WorkerTakes(n) PROVE RowsOK'
  BY <1>1 DEF UploadCreate, WorkerTakes
<1>2. ASSUME NEW u \in Uploads, UploadPatch(u) \/ UploadTerminate(u) \/ IngestReserve(u) \/ CancelReads(u) PROVE RowsOK'
  BY <1>2 DEF UploadPatch, UploadTerminate, IngestReserve, CancelReads
<1>3. ASSUME NEW u \in Uploads, TaskCreated(u) PROVE RowsOK'
  <2>1. [status |-> "uploading", due |-> TRUE] \in Rows
    BY DEF Rows, LastStatuses
  <2> QED BY <1>3, <2>1 DEF TaskCreated
<1>4. ASSUME NEW u \in Uploads, TaskProgress(u) PROVE RowsOK'
  <2>1. [tasks[u] EXCEPT !.due = TRUE] \in Rows
    BY DEF Rows
  <2> QED BY <1>4, <2>1 DEF TaskProgress
<1>5. ASSUME NEW u \in Uploads, TaskTerminated(u) \/ CancelWrites(u) PROVE RowsOK'
  <2>1. tasks' \in [Uploads -> Rows]
    BY <1>5, RowSet DEF TaskTerminated, CancelWrites, LastStatuses
  <2> QED BY <1>5, <2>1 DEF TaskTerminated, CancelWrites
<1>6. CASE IngestMove \/ IngestSubmit
  BY <1>6 DEF IngestMove, IngestSubmit
<1>7. CASE IngestDone
  <2>1. ingest.up \in Uploads
    BY <1>7 DEF IngestDone, StagingOK
  <2>2. tasks' \in [Uploads -> Rows]
    BY <1>7, <2>1, RowSet DEF IngestDone, LastStatuses
  <2> QED BY <1>7, <2>2 DEF IngestDone
<1>8. ASSUME NEW u \in Uploads, UploadGC(u) PROVE RowsOK'
  <2>1. NoTask \in Rows /\ [tasks[u] EXCEPT !.status = "paused"] \in Rows
    BY DEF Rows, LastStatuses, NoTask
  <2> QED BY <1>8, <2>1 DEF UploadGC
<1>9. CASE UploadRestart
  BY <1>9 DEF UploadRestart
<1>10. CASE UNCHANGED upVars
  BY <1>10 DEF upVars
<1>11. ASSUME NEW n \in Names, WorkerTakes(n) PROVE RowsOK'
  BY <1>11 DEF WorkerTakes
<1>12. ASSUME NEW u \in Uploads, NEW ch, StoreFails(ch, u) PROVE RowsOK'
  BY <1>12 DEF StoreFails
<1>13. ASSUME NEW u \in Uploads, CancelFails(u) PROVE RowsOK'
  BY <1>13 DEF CancelFails
<1>14. CASE IngestDoneFails
  BY <1>14 DEF IngestDoneFails
<1> QED BY <1>1, <1>2, <1>3, <1>4, <1>5, <1>6, <1>7, <1>8, <1>9, <1>10, <1>11, <1>12, <1>13, <1>14 DEF UpNext, UpHandler

-----------------------------------------------------------------------------
(* Staging and reservations, one action at a time.                             *)

LEMMA FilesKept == ASSUME UploadsOK, [UpNext]_upVars PROVE StagingOK' /\ ReservedOK'
<1> USE NoUploadIsNone DEF UploadsOK, StagingOK, ReservedOK, upPast
<1>1. ASSUME NEW u \in Uploads, NEW n \in Names, UploadCreate(u, n) PROVE StagingOK' /\ ReservedOK'
  <2>1. [part |-> "some", name |-> n] \in Files
    BY DEF Files, StagingParts
  <2>2. /\ staged' \in [Uploads -> Files]
        /\ staged[u].part = "new" /\ staged'[u].part # "new"
        /\ \A v \in Uploads : v # u => staged'[v] = staged[v]
    BY <1>1, <2>1 DEF UploadCreate
  <2>3. inHand' \subseteq Events /\ \A v \in Uploads : <<"complete", v>> \in inHand' => <<"complete", v>> \in inHand
    BY <1>1 DEF UploadCreate, Events
  <2> QED BY <1>1, <2>2, <2>3 DEF UploadCreate
<1>2. ASSUME NEW u \in Uploads, UploadPatch(u) \/ UploadTerminate(u) PROVE StagingOK' /\ ReservedOK'
  <2>1. /\ staged' \in [Uploads -> Files]
        /\ \A v \in Uploads : staged'[v].name = staged[v].name
        /\ \A v \in Uploads : staged[v].part # "new" => staged'[v].part # "new"
        /\ staged'[u].part # "new"
    <3>1. PICK x \in {"whole", "none"} : staged' = [staged EXCEPT ![u].part = x]
      BY <1>2 DEF UploadPatch, UploadTerminate
    <3> QED BY <3>1, PartSet DEF StagingParts
  <2>2. inHand' \subseteq Events /\ \A v \in Uploads : <<"complete", v>> \in inHand' => v = u \/ <<"complete", v>> \in inHand
    BY <1>2 DEF UploadPatch, UploadTerminate, Events
  <2> QED BY <1>2, <2>1, <2>2 DEF UploadPatch, UploadTerminate
<1>3. ASSUME NEW u \in Uploads, TaskCreated(u) \/ TaskProgress(u) \/ TaskTerminated(u) PROVE StagingOK' /\ ReservedOK'
  BY <1>3 DEF TaskCreated, TaskProgress, TaskTerminated, Handled
<1>4. ASSUME NEW u \in Uploads, IngestReserve(u) PROVE StagingOK' /\ ReservedOK'
  <2>1. staged[u].name \in Names /\ staged[u].part # "new"
    BY <1>4 DEF IngestReserve, Handled, Files
  <2>2. ingest' = [up |-> u, pc |-> IF staged[u].name \in marks THEN "failed" ELSE "move"]
    BY <1>4 DEF IngestReserve
  <2> QED BY <1>4, <2>1, <2>2 DEF IngestReserve, Handled, Hands
<1>5. CASE IngestMove
  <2>1. ingest.up \in Uploads /\ staged[ingest.up].name \in Names
    BY <1>5 DEF IngestMove, Files
  <2>2. /\ staged' \in [Uploads -> Files]
        /\ \A v \in Uploads : staged'[v].name = staged[v].name
        /\ \A v \in Uploads : staged[v].part # "new" => staged'[v].part # "new"
    <3>1. staged' = staged \/ staged' = [staged EXCEPT ![ingest.up].part = "none"]
      BY <1>5 DEF IngestMove
    <3> QED BY <2>1, <3>1, PartSet DEF StagingParts
  <2>3. ingest' \in Hands /\ ingest'.up = ingest.up
    BY <1>5 DEF IngestMove, Hands
  <2>4. gallery' \in [Names -> Uploads \cup {NoUpload}] /\ delivered' \subseteq Uploads
    BY <1>5, <2>1 DEF IngestMove, Torn
  <2>5. /\ unrecorded' \subseteq delivered'
        /\ ingest'.pc \in {"submit", "completed"} => ingest.up \in delivered'
    BY <1>5 DEF IngestMove, Hands
  <2> QED BY <1>5, <2>1, <2>2, <2>3, <2>4, <2>5 DEF IngestMove
<1>6. CASE IngestSubmit
  <2>1. ingest' \in Hands /\ ingest'.up = ingest.up /\ ingest'.pc = "completed"
    BY <1>6 DEF IngestSubmit, Hands
  <2> QED BY <1>6, <2>1 DEF IngestSubmit
<1>7. CASE IngestDone
  <2>1. ingest' \in Hands /\ ingest'.pc = "idle"
    BY <1>7 DEF IngestDone, NoIngest, Hands
  <2> QED BY <1>7, <2>1 DEF IngestDone
<1>8. ASSUME NEW n \in Names, WorkerTakes(n) PROVE StagingOK' /\ ReservedOK'
  BY <1>8 DEF WorkerTakes
<1>9. ASSUME NEW u \in Uploads, CancelReads(u) PROVE StagingOK' /\ ReservedOK'
  BY <1>9 DEF CancelReads
<1>10. ASSUME NEW u \in Uploads, CancelWrites(u) \/ UploadGC(u) PROVE StagingOK' /\ ReservedOK'
  <2>1. /\ staged' \in [Uploads -> Files]
        /\ \A v \in Uploads : staged'[v].name = staged[v].name
        /\ \A v \in Uploads : staged[v].part # "new" => staged'[v].part # "new"
    <3>1. staged' = staged \/ staged' = [staged EXCEPT ![u].part = "none"]
      BY <1>10 DEF CancelWrites, UploadGC
    <3> QED BY <3>1, PartSet DEF StagingParts
  <2> QED BY <1>10, <2>1 DEF CancelWrites, UploadGC
<1>11. CASE UploadRestart
  <2>1. staged' \in [Uploads -> Files]
    <3>1. \A u \in Uploads : [staged[u] EXCEPT !.part = "none"] \in Files
      BY DEF Files, StagingParts
    <3> QED BY <1>11, <3>1 DEF UploadRestart
  <2>2. ingest' \in Hands /\ ingest'.pc = "idle"
    BY <1>11 DEF UploadRestart, NoIngest, Hands
  <2>3. gallery' \in [Names -> Uploads \cup {NoUpload}]
    BY <1>11 DEF UploadRestart, Torn
  <2> QED BY <1>11, <2>1, <2>2, <2>3 DEF UploadRestart
<1>12. CASE UNCHANGED upVars
  BY <1>12 DEF upVars
<1>13. ASSUME NEW u \in Uploads, NEW ch, StoreFails(ch, u) PROVE StagingOK' /\ ReservedOK'
  BY <1>13 DEF StoreFails, Handled
<1>14. ASSUME NEW u \in Uploads, CancelFails(u) PROVE StagingOK' /\ ReservedOK'
  BY <1>14 DEF CancelFails
<1>15. CASE IngestDoneFails
  <2>1. ingest' \in Hands /\ ingest'.pc = "idle"
    BY <1>15 DEF IngestDoneFails, NoIngest, Hands
  <2> QED BY <1>15, <2>1 DEF IngestDoneFails
<1> QED BY <1>1, <1>2, <1>3, <1>4, <1>5, <1>6, <1>7, <1>8, <1>9, <1>10, <1>11, <1>12, <1>13, <1>14, <1>15 DEF UpNext, UpHandler

\* Every reachable state of the upload path has the types of UpTypeOK; what is in the
\* indexer's queue is reserved.
THEOREM UploadTypeCorrect == UpSpec => []UpTypeOK
<1>1. UpInit => UploadsOK BY InitOK
<1>2. UploadsOK /\ [UpNext]_upVars => UploadsOK' BY RowsKept, FilesKept DEF UploadsOK
<1>3. UploadsOK => UpTypeOK BY Typed
<1> QED BY <1>1, <1>2, <1>3, PTL DEF UpSpec

-----------------------------------------------------------------------------
\* Only the move writes to the gallery, and it writes to a name that is not queued.
LEMMA BytesKept ==
    ASSUME UploadsOK, [UpNext]_upVars, NEW n \in Names, n \in submitted, n \in submitted'
    PROVE  gallery'[n] = gallery[n]
<1>1. CASE IngestMove
  BY <1>1 DEF IngestMove, Torn, UploadsOK, StagingOK, ReservedOK
<1>2. ASSUME NEW u \in Uploads, NEW m \in Names, UploadCreate(u, m) PROVE gallery' = gallery
  BY <1>2 DEF UploadCreate
<1>3. ASSUME NEW u \in Uploads,
             \/ UploadPatch(u) \/ UploadTerminate(u) \/ TaskCreated(u) \/ TaskProgress(u) \/ TaskTerminated(u)
             \/ IngestReserve(u) \/ CancelReads(u) \/ CancelWrites(u) \/ UploadGC(u)
      PROVE gallery' = gallery
  BY <1>3 DEF UploadPatch, UploadTerminate, TaskCreated, TaskProgress, TaskTerminated, IngestReserve,
              CancelReads, CancelWrites, UploadGC
<1>4. CASE IngestSubmit \/ IngestDone \/ IngestDoneFails \/ UNCHANGED upVars
  BY <1>4 DEF IngestSubmit, IngestDone, IngestDoneFails, upVars
<1>5. ASSUME NEW m \in Names, WorkerTakes(m) PROVE gallery' = gallery
  BY <1>5 DEF WorkerTakes
<1>6. ASSUME NEW u \in Uploads, NEW ch, StoreFails(ch, u) \/ CancelFails(u) PROVE gallery' = gallery
  BY <1>6 DEF StoreFails, CancelFails
<1>7. ~UploadRestart
  BY DEF UploadRestart
<1> QED BY <1>1, <1>2, <1>3, <1>4, <1>5, <1>6, <1>7 DEF UpNext, UpHandler

\* Until the indexer has taken a delivered file no other upload of the same name
\* overwrites it, for any number of uploads, cancels and restarts.
THEOREM PendingKept == UpSpec => PendingBytesKept
<1>1. UpInit => UploadsOK BY InitOK
<1>2. UploadsOK /\ [UpNext]_upVars => UploadsOK' BY RowsKept, FilesKept DEF UploadsOK
<1>3. UploadsOK /\ [UpNext]_upVars
        => [\A n \in Names : (n \in submitted /\ n \in submitted') => gallery'[n] = gallery[n]]_upVars
  BY BytesKept
<1> QED BY <1>1, <1>2, <1>3, PTL DEF UpSpec, PendingBytesKept

-----------------------------------------------------------------------------
(* What the task rows tell.  UploadOutcome is not inductive: that no late      *)
(* event, cancel or termination rewrites the row of a delivered upload follows *)
(* from where the upload is on its way from the client to the gallery.         *)

At(ch, u) == <<ch, u>> \in inHand
Over(u)   == tasks[u].status \in {"completed", "failed", "canceled"}

\* What was delivered has left staging.
Gone(u) == u \in delivered => staged[u].part = "none"

\* Not yet complete at the client.
Fresh(u) == staged[u].part \in {"new", "some"} =>
    ~At("complete", u) /\ ~At("terminated", u) /\ ingest.up # u /\ ~Over(u)

\* Complete, and the event not handled: a cancel or a DELETE that came first took the file.
Coming(u) == At("complete", u) =>
    /\ ingest.up # u /\ u \notin delivered
    /\ staged[u].part = "whole" => ~At("terminated", u) /\ ~Over(u)

\* In the hands of ingestStagedFile.
Moving(u) == ingest.up = u =>
    /\ ~At("created", u) /\ u \notin cancels
    /\ u \in delivered <=> ingest.pc \in {"submit", "completed"}
    /\ ingest.pc = "move" /\ staged[u].part = "whole" => ~At("terminated", u) /\ ~Over(u)

\* Its row not inserted yet; given up; or through.
Unborn(u)  == At("created", u) => u \notin delivered
Dropped(u) == /\ At("terminated", u) => u \notin delivered /\ staged[u].part = "none"
              /\ u \in cancels => ingest.up # u /\ u \notin delivered \ unrecorded
Landed(u)  == u \in delivered /\ ingest.up # u => tasks[u].status \in {"none", "completed"} \/ u \in unrecorded

Outcome(u) == /\ tasks[u].status = "completed" => u \in delivered
              /\ tasks[u].status \in {"failed", "canceled"} => u \notin delivered \ unrecorded

Told(u) == /\ Gone(u) /\ Fresh(u) /\ Coming(u) /\ Moving(u) /\ Unborn(u) /\ Dropped(u) /\ Landed(u)
           /\ Outcome(u)

OutcomesOK == (ingest.pc = "idle" => ingest.up = NoUpload) /\ \A u \in Uploads : Told(u)

\* A step about another upload.
LEMMA OthersTold ==
    ASSUME NEW v \in Uploads, Told(v),
           staged'[v].part = staged[v].part, tasks'[v] = tasks[v],
           \A ch \in {"created", "progress", "terminated", "complete"} : At(ch, v)' <=> At(ch, v),
           v \in delivered' <=> v \in delivered, v \in unrecorded' <=> v \in unrecorded,
           v \in cancels' <=> v \in cancels,
           ingest'.up = v <=> ingest.up = v, ingest.up = v => ingest' = ingest
    PROVE  Told(v)'
BY DEF Told, Gone, Fresh, Coming, Moving, Unborn, Dropped, Landed, Outcome, Over, At

\* An event that is sent or handled is that of one upload.
LEMMA HandSet ==
    ASSUME inHand \subseteq Events, NEW u \in Uploads,
           NEW S \in SUBSET {"created", "progress", "terminated", "complete"},
           \/ inHand' = inHand \cup {<<ch, u>> : ch \in S}
           \/ inHand' = inHand \ {<<ch, u>> : ch \in S}
    PROVE  \A v \in Uploads : v # u =>
             \A ch \in {"created", "progress", "terminated", "complete"} : At(ch, v)' <=> At(ch, v)
BY DEF At

\* A SetTask, and what it leaves of the other rows.
LEMMA StatusSet ==
    ASSUME tasks \in [Uploads -> Rows], NEW u \in Uploads, NEW x \in LastStatuses, NEW d \in BOOLEAN, SetTask(u, x, d)
    PROVE  /\ \A v \in Uploads : v # u => tasks'[v] = tasks[v]
           /\ \/ tasks[u] = NoTask /\ tasks'[u] = NoTask /\ tasks'[u].status = "none"
              \/ tasks[u] # NoTask /\ tasks'[u].status = x
<1>1. CASE tasks[u] = NoTask
  <2>1. tasks' = tasks
    BY <1>1 DEF SetTask
  <2>2. NoTask.status = "none"
    BY DEF NoTask
  <2> QED BY <1>1, <2>1, <2>2
<1>2. CASE tasks[u] # NoTask
  BY <1>2 DEF SetTask
<1> QED BY <1>1, <1>2

\* What a part that is set leaves of the other files.
LEMMA PartOf ==
    ASSUME staged \in [Uploads -> Files], NEW u \in Uploads, NEW x \in StagingParts,
           staged' = [staged EXCEPT ![u].part = x]
    PROVE  staged'[u].part = x /\ \A v \in Uploads : v # u => staged'[v] = staged[v]
BY DEF Files

\* Every step keeps the rows telling the truth.
LEMMA OutcomeStep ==
    ASSUME ~LateInsert, ~CancelRaces, UploadsOK, OutcomesOK, [UpNext]_upVars
    PROVE  OutcomesOK'
<1> USE NoUploadIsNone
<1> USE DEF UploadsOK, StagingOK, RowsOK, ReservedOK, OutcomesOK, upPast
<1> DEFINE Idle == ingest.pc = "idle" => ingest.up = NoUpload
           All  == {"created", "progress", "terminated", "complete"}
           Same(v) == /\ staged'[v].part = staged[v].part /\ tasks'[v] = tasks[v]
                      /\ \A ch \in All : At(ch, v)' <=> At(ch, v)
                      /\ v \in delivered' <=> v \in delivered
                      /\ v \in unrecorded' <=> v \in unrecorded
                      /\ v \in cancels' <=> v \in cancels
                      /\ ingest'.up = v <=> ingest.up = v
                      /\ ingest.up = v => ingest' = ingest
<1>0. ASSUME NEW u \in Uploads, Idle', Told(u)', \A v \in Uploads : v # u => Same(v)
      PROVE  OutcomesOK'
  <2>1. \A v \in Uploads : v # u => Told(v)'
    BY <1>0, OthersTold
  <2> QED BY <1>0, <2>1
<1> HIDE DEF Same
<1> USE DEF Told, Gone, Fresh, Coming, Moving, Unborn, Dropped, Landed, Outcome, Over, At
<1>1. ASSUME NEW u \in Uploads, NEW n \in Names, UploadCreate(u, n) PROVE OutcomesOK'
  <2>1. /\ staged[u].part = "new" /\ staged'[u].part = "some" /\ \A v \in Uploads : v # u => staged'[v] = staged[v]
        /\ inHand' = inHand \cup {<<"created", u>>}
        /\ UNCHANGED <<tasks, ingest, cancels, delivered, unrecorded>>
    BY <1>1 DEF UploadCreate
  <2>2. \A v \in Uploads : v # u => Same(v)
    BY <2>1 DEF Same
  <2>3. Told(u)'
    BY <2>1
  <2> QED BY <1>0, <2>1, <2>2, <2>3
<1>2. ASSUME NEW u \in Uploads, UploadPatch(u) PROVE OutcomesOK'
  <2>1. /\ staged[u].part = "some" /\ staged' = [staged EXCEPT ![u].part = "whole"]
        /\ inHand' = inHand \cup {<<"progress", u>>, <<"complete", u>>}
        /\ UNCHANGED <<tasks, ingest, cancels, delivered, unrecorded>>
    BY <1>2 DEF UploadPatch
  <2>2. staged'[u].part = "whole" /\ \A v \in Uploads : v # u => staged'[v] = staged[v]
    BY <2>1, PartOf DEF StagingParts
  <2>3. \A v \in Uploads : v # u => Same(v)
    BY <2>1, <2>2 DEF Same
  <2>4. Told(u)'
    BY <2>1, <2>2
  <2> QED BY <1>0, <2>1, <2>3, <2>4
<1>3. ASSUME NEW u \in Uploads, UploadTerminate(u) PROVE OutcomesOK'
  <2>1. /\ staged[u].part = "some" \/ (staged[u].part = "whole" /\ ingest.up # u)
        /\ staged' = [staged EXCEPT ![u].part = "none"]
        /\ inHand' = inHand \cup {<<"terminated", u>>}
        /\ UNCHANGED <<tasks, ingest, cancels, delivered, unrecorded>>
    BY <1>3 DEF UploadTerminate
  <2>2. staged'[u].part = "none" /\ \A v \in Uploads : v # u => staged'[v] = staged[v]
    BY <2>1, PartOf DEF StagingParts
  <2>3. \A v \in Uploads : v # u => Same(v)
    BY <2>1, <2>2 DEF Same
  <2>4. Told(u)'
    BY <2>1, <2>2
  <2> QED BY <1>0, <2>1, <2>3, <2>4
<1>4. ASSUME NEW u \in Uploads, TaskCreated(u) PROVE OutcomesOK'
  <2>1. /\ At("created", u) /\ inHand' = inHand \ {<<"created", u>>}
        /\ tasks'[u].status = "uploading" /\ \A v \in Uploads : v # u => tasks'[v] = tasks[v]
        /\ UNCHANGED <<staged, ingest, cancels, delivered, unrecorded>>
    BY <1>4 DEF TaskCreated, Handled
  <2>2. \A v \in Uploads : v # u => Same(v)
    BY <2>1 DEF Same
  <2>3. Told(u)'
    BY <2>1
  <2> QED BY <1>0, <2>1, <2>2, <2>3
<1>5. ASSUME NEW u \in Uploads, TaskProgress(u) PROVE OutcomesOK'
  <2>1. /\ inHand' = inHand \ {<<"progress", u>>}
        /\ tasks'[u].status = tasks[u].status /\ (tasks[u] = NoTask => tasks'[u] = NoTask)
        /\ \A v \in Uploads : v # u => tasks'[v] = tasks[v]
        /\ UNCHANGED <<staged, ingest, cancels, delivered, unrecorded>>
    BY <1>5 DEF TaskProgress, Handled, Rows
  <2>2. \A v \in Uploads : v # u => Same(v)
    BY <2>1 DEF Same
  <2>3. Told(u)'
    BY <2>1
  <2> QED BY <1>0, <2>1, <2>2, <2>3
<1>6. ASSUME NEW u \in Uploads, TaskTerminated(u) PROVE OutcomesOK'
  <2>1. /\ At("terminated", u) /\ inHand' = inHand \ {<<"terminated", u>>}
        /\ UNCHANGED <<staged, ingest, cancels, delivered, unrecorded>>
        /\ SetTask(u, "canceled", TRUE)
    BY <1>6 DEF TaskTerminated, Handled
  <2>2. /\ \A v \in Uploads : v # u => tasks'[v] = tasks[v]
        /\ \/ tasks[u] = NoTask /\ tasks'[u] = NoTask /\ tasks'[u].status = "none"
           \/ tasks[u] # NoTask /\ tasks'[u].status = "canceled"
    BY <2>1, StatusSet DEF LastStatuses
  <2>3. \A v \in Uploads : v # u => Same(v)
    BY <2>1, <2>2 DEF Same
  <2>4. Told(u)'
    BY <2>1, <2>2
  <2> QED BY <1>0, <2>1, <2>3, <2>4
<1>7. ASSUME NEW u \in Uploads, IngestReserve(u) PROVE OutcomesOK'
  <2>1. /\ At("complete", u) /\ ~At("created", u) /\ u \notin cancels /\ inHand' = inHand \ {<<"complete", u>>}
        /\ ingest.up = NoUpload /\ ingest'.up = u /\ ingest'.pc \in {"failed", "move"}
        /\ UNCHANGED <<staged, tasks, cancels, delivered, unrecorded>>
    BY <1>7 DEF IngestReserve, Handled, Apart, NoIngest
  <2>2. \A v \in Uploads : v # u => Same(v)
    BY <2>1 DEF Same
  <2>3. Told(u)'
    BY <2>1
  <2> QED BY <1>0, <2>1, <2>2, <2>3
<1>8. ASSUME NEW u \in Uploads, ingest.up = u, IngestMove PROVE OutcomesOK'
  <2>1. /\ ingest.pc = "move" /\ ingest'.up = u /\ UNCHANGED <<tasks, inHand, cancels, unrecorded>>
        /\ \/ /\ staged[u].part = "whole"
              /\ staged' = [staged EXCEPT ![u].part = "none"] /\ delivered' = delivered \cup {u}
              /\ ingest'.pc = "submit"
           \/ staged' = staged /\ delivered' = delivered /\ ingest'.pc = "failed"
    BY <1>8 DEF IngestMove, Hands
  <2>2. /\ delivered' # delivered => staged'[u].part = "none"
        /\ staged'[u].part \in {"none", staged[u].part} /\ \A v \in Uploads : v # u => staged'[v] = staged[v]
    BY <2>1, PartOf DEF StagingParts
  <2>3. \A v \in Uploads : v # u => Same(v)
    BY <1>8, <2>1, <2>2 DEF Same
  <2>4. staged[u].part \notin {"new", "some"} /\ ~At("complete", u)
    BY <1>8
  <2>5. Told(u)'
    BY <1>8, <2>1, <2>2, <2>4
  <2> QED BY <1>0, <2>1, <2>3, <2>5
<1>9. CASE IngestSubmit
  <2>1. /\ ingest.pc = "submit" /\ ingest'.pc = "completed" /\ ingest'.up = ingest.up /\ ingest.up \in Uploads
        /\ UNCHANGED <<staged, tasks, inHand, cancels, delivered, unrecorded>>
    BY <1>9 DEF IngestSubmit, Hands
  <2> QED BY <2>1
<1>10. ASSUME NEW u \in Uploads, ingest.up = u, NEW x, ingest.pc = x, IngestDone PROVE OutcomesOK'
  <2>1. /\ x \in {"failed", "completed"} /\ ingest'.up = NoUpload
        /\ UNCHANGED <<staged, inHand, cancels, delivered, unrecorded>>
        /\ SetTask(u, x, x = "failed")
    BY <1>10 DEF IngestDone, NoIngest
  <2>2. /\ \A v \in Uploads : v # u => tasks'[v] = tasks[v]
        /\ \/ tasks[u] = NoTask /\ tasks'[u] = NoTask /\ tasks'[u].status = "none"
           \/ tasks[u] # NoTask /\ tasks'[u].status = x
    <3>1. x \in LastStatuses /\ (x = "failed") \in BOOLEAN
      BY <2>1 DEF LastStatuses
    <3> QED BY <2>1, <3>1, StatusSet
  <2>4. \A v \in Uploads : v # u => Same(v)
    BY <1>10, <2>1, <2>2 DEF Same
  <2>5. /\ u \in delivered <=> x = "completed"
        /\ ~At("complete", u) /\ ~At("created", u) /\ u \notin cancels
        /\ staged[u].part \notin {"new", "some"}
    BY <1>10, <2>1
  <2>6. Told(u)'
    BY <2>1, <2>2, <2>5
  <2> QED BY <1>0, <2>1, <2>4, <2>6
<1>11. ASSUME NEW n \in Names, WorkerTakes(n) PROVE OutcomesOK'
  BY <1>11 DEF WorkerTakes
<1>12. ASSUME NEW u \in Uploads, CancelReads(u) PROVE OutcomesOK'
  <2>1. /\ ingest.up # u /\ tasks[u].status \in {"uploading", "paused", "failed"}
        /\ cancels' = cancels \cup {u}
        /\ UNCHANGED <<staged, tasks, inHand, ingest, delivered, unrecorded>>
    BY <1>12 DEF CancelReads, Apart
  <2>2. \A v \in Uploads : v # u => Same(v)
    BY <2>1 DEF Same
  <2>3. Told(u)'
    BY <2>1
  <2> QED BY <1>0, <2>1, <2>2, <2>3
<1>13. ASSUME NEW u \in Uploads, CancelWrites(u) PROVE OutcomesOK'
  <2>1. /\ u \in cancels /\ cancels' = cancels \ {u}
        /\ staged' = [staged EXCEPT ![u].part = "none"] /\ SetTask(u, "canceled", TRUE)
        /\ UNCHANGED <<inHand, ingest, delivered, unrecorded>>
    BY <1>13 DEF CancelWrites
  <2>2. /\ \A v \in Uploads : v # u => tasks'[v] = tasks[v]
        /\ \/ tasks[u] = NoTask /\ tasks'[u] = NoTask /\ tasks'[u].status = "none"
           \/ tasks[u] # NoTask /\ tasks'[u].status = "canceled"
    BY <2>1, StatusSet DEF LastStatuses
  <2>3. staged'[u].part = "none" /\ \A v \in Uploads : v # u => staged'[v] = staged[v]
    BY <2>1, PartOf DEF StagingParts
  <2>4. \A v \in Uploads : v # u => Same(v)
    BY <2>1, <2>2, <2>3 DEF Same
  <2>5. Told(u)'
    BY <2>1, <2>2, <2>3
  <2> QED BY <1>0, <2>1, <2>4, <2>5
<1>14. ASSUME NEW u \in Uploads, UploadGC(u) PROVE OutcomesOK'
  <2>1. UNCHANGED <<inHand, ingest, cancels, delivered, unrecorded>>
    BY <1>14 DEF UploadGC
  <2>2. CASE tasks[u].status = "uploading"
    <3>1. /\ UNCHANGED staged /\ tasks'[u].status = "paused" /\ \A v \in Uploads : v # u => tasks'[v] = tasks[v]
      BY <1>14, <2>2 DEF UploadGC, Rows
    <3>2. \A v \in Uploads : v # u => Same(v)
      BY <2>1, <3>1 DEF Same
    <3>3. Told(u)'
      BY <2>1, <2>2, <3>1
    <3> QED BY <1>0, <2>1, <3>2, <3>3
  <2>3. CASE tasks[u].status # "uploading"
    <3>1. /\ tasks'[u] = NoTask /\ tasks'[u].status = "none" /\ \A v \in Uploads : v # u => tasks'[v] = tasks[v]
          /\ staged' = [staged EXCEPT ![u].part = "none"]
      BY <1>14, <2>3 DEF UploadGC, NoTask
    <3>2. staged'[u].part = "none" /\ \A v \in Uploads : v # u => staged'[v] = staged[v]
      BY <3>1, PartOf DEF StagingParts
    <3>3. \A v \in Uploads : v # u => Same(v)
      BY <2>1, <3>1, <3>2 DEF Same
    <3>4. Told(u)'
      BY <2>1, <3>1, <3>2
    <3> QED BY <1>0, <2>1, <3>3, <3>4
  <2> QED BY <2>2, <2>3
<1>15. CASE UploadRestart
  <2>1. /\ inHand' = {} /\ ingest'.up = NoUpload /\ cancels' = {} /\ tasks' = tasks
        /\ delivered' = delivered
        /\ unrecorded' = IF ingest.pc \in {"submit", "completed"} THEN unrecorded \cup {ingest.up} ELSE unrecorded
    BY <1>15 DEF UploadRestart, NoIngest
  <2>2. ASSUME NEW v \in Uploads PROVE staged'[v].part \in {"none", staged[v].part}
    <3>1. PICK old \in SUBSET Uploads :
            staged' = [u \in Uploads |-> IF u \in old THEN [staged[u] EXCEPT !.part = "none"] ELSE staged[u]]
      BY <1>15 DEF UploadRestart
    <3>2. staged[v] \in Files
      OBVIOUS
    <3> QED BY <3>1, <3>2 DEF Files
  <2>3. ASSUME NEW v \in Uploads PROVE Told(v)'
    BY <2>1, <2>2
  <2> QED BY <2>1, <2>3
<1>16. CASE UNCHANGED upVars
  BY <1>16 DEF upVars
<1>17. IngestMove \/ IngestDone \/ IngestDoneFails => ingest.up \in Uploads
  BY DEF IngestMove, IngestDone, IngestDoneFails
<1>18. ASSUME NEW u \in Uploads, NEW ch, StoreFails(ch, u) PROVE OutcomesOK'
  <2>1. /\ ch \in All \ {"complete"} /\ inHand' = inHand \ {<<ch, u>>}
        /\ UNCHANGED <<staged, tasks, ingest, cancels, delivered, unrecorded>>
    BY <1>18 DEF StoreFails, Handled
  <2>2. \A v \in Uploads : v # u => Same(v)
    BY <2>1 DEF Same
  <2>3. Told(u)'
    BY <2>1
  <2> QED BY <1>0, <2>1, <2>2, <2>3
<1>19. ASSUME NEW u \in Uploads, CancelFails(u) PROVE OutcomesOK'
  <2>1. cancels' = cancels \ {u} /\ UNCHANGED <<staged, tasks, inHand, ingest, delivered, unrecorded>>
    BY <1>19 DEF CancelFails
  <2> QED BY <2>1
<1>20. ASSUME NEW u \in Uploads, ingest.up = u, IngestDoneFails PROVE OutcomesOK'
  <2>1. /\ ingest.pc \in {"failed", "completed"} /\ ingest'.up = NoUpload
        /\ UNCHANGED <<staged, tasks, inHand, cancels, delivered>>
        /\ unrecorded' = IF ingest.pc = "completed" THEN unrecorded \cup {u} ELSE unrecorded
    BY <1>20 DEF IngestDoneFails, NoIngest
  <2>2. \A v \in Uploads : v # u => Same(v)
    BY <1>20, <2>1 DEF Same
  <2>3. u \in delivered <=> ingest.pc = "completed"
    BY <1>20, <2>1
  <2>4. Told(u)'
    BY <1>20, <2>1, <2>3
  <2> QED BY <1>0, <2>1, <2>2, <2>4
<1> QED BY <1>1, <1>2, <1>3, <1>4, <1>5, <1>6, <1>7, <1>8, <1>9, <1>10, <1>11, <1>12, <1>13, <1>14, <1>15, <1>16, <1>17,
           <1>18, <1>19, <1>20
        DEF UpNext, UpHandler

\* The task row tells what became of the upload, for any number of uploads, names, cancels
\* of uploads that are being sent, terminations, collections, restarts at any step and
\* statements that fail; but for an upload whose completion was never recorded.  If the row
\* is inserted before the upload completes, and neither a cancel nor a DELETE overlaps the
\* ingestion of its own upload.
THEOREM OutcomeCorrect ==
    ASSUME ~LateInsert, ~CancelRaces
    PROVE  UpSpec => []UploadOutcome
<1>1. UpInit => UploadsOK
  BY InitOK
<1>2. UploadsOK /\ [UpNext]_upVars => UploadsOK'
  BY RowsKept, FilesKept DEF UploadsOK
<1>3. UpInit => OutcomesOK
  BY NoUploadIsNone DEF UpInit, OutcomesOK, Told, Gone, Fresh, Coming, Moving, Unborn, Dropped, Landed,
                        Outcome, Over, At, NoIngest, NoTask, NoFileYet
<1>4. UploadsOK /\ OutcomesOK /\ [UpNext]_upVars => OutcomesOK'
  BY OutcomeStep
<1>5. OutcomesOK => UploadOutcome
  BY DEF OutcomesOK, Told, Outcome, UploadOutcome
<1> QED BY <1>1, <1>2, <1>3, <1>4, <1>5, PTL DEF UpSpec
=============================================================================
