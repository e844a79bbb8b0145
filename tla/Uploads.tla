------------------------------ MODULE Uploads -------------------------------
(* Resumable uploads: the goroutines of NewTUSHandler (route/v1/tus.go) that   *)
(* drain tusd's event channels, the tasks of service/uploadstore, the cancel   *)
(* endpoint (route/v1/upload_tasks.go), the GC of NimoOS-Common/upload and     *)
(* PruneStaging.  tusd itself is external: it stages the bytes of an upload    *)
(* and sends one event per channel.                                            *)
EXTENDS Integers, FiniteSets

CONSTANTS
    Uploads, Names,     \* upload ids; file names in the gallery
    NoUpload,
    MaxUpRestarts,
    MaxStoreErrors,     \* bound on statements of the task store that fail
    LateInsert,         \* may an upload complete before its task row is inserted
    CancelRaces         \* may a cancel or a DELETE overlap the ingestion of the same upload

ASSUME NoUploadIsNone ==
    NoUpload \notin Uploads /\ Names # {} /\ MaxUpRestarts \in Nat /\ MaxStoreErrors \in Nat

VARIABLES
    staged,     \* per upload: its file in staging and the name it asks for
    tasks,      \* o_upload_tasks: status, and whether expires_at is set
    inHand,     \* <<channel, upload>>: events sent and not handled
    ingest,     \* the completed upload being ingested, and the step it is at
    cancels,    \* uploads whose cancel has read the row and not written it
    gallery,    \* per name: the upload whose bytes the file has
    marks,      \* names reserved in the indexer
    submitted,  \* names in its queue
    delivered,  \* history: uploads moved into the gallery
    unrecorded, \* history: those of them whose completion never reached the row, because
                \* the process ended before SetStatus or its UPDATE failed
    upRestarts, storeErrors

upVars == <<staged, tasks, inHand, ingest, cancels, gallery, marks, submitted, delivered, unrecorded,
            upRestarts, storeErrors>>
\* The histories and the counters.
upPast == <<delivered, unrecorded, upRestarts, storeErrors>>

NoTask   == [status |-> "none", due |-> FALSE]
NoFileYet == [part |-> "new", name |-> CHOOSE n \in Names : TRUE]
NoIngest == [up |-> NoUpload, pc |-> "idle"]

UpInit ==
    /\ staged = [u \in Uploads |-> NoFileYet] /\ tasks = [u \in Uploads |-> NoTask]
    /\ inHand = {} /\ ingest = NoIngest /\ cancels = {}
    /\ gallery = [n \in Names |-> NoUpload] /\ marks = {} /\ submitted = {}
    /\ delivered = {} /\ unrecorded = {} /\ upRestarts = 0 /\ storeErrors = 0

\* SetStatus and SetFailed: an UPDATE of whatever row there is.
SetTask(u, status, due) ==
    tasks' = IF tasks[u] = NoTask THEN tasks ELSE [tasks EXCEPT ![u] = [status |-> status, due |-> due]]

Handled(ch, u) == <<ch, u>> \in inHand /\ inHand' = inHand \ {<<ch, u>>}
StoreError     == storeErrors < MaxStoreErrors /\ storeErrors' = storeErrors + 1

\* A cancel or a DELETE may not overlap the ingestion of its upload, CancelRaces aside.
Apart(u) == CancelRaces \/ (ingest.up # u /\ u \notin cancels)

-----------------------------------------------------------------------------
(* The client and tusd.                                                        *)

\* POST, accepted by validateMetadata.
UploadCreate(u, n) ==
    /\ staged[u].part = "new"
    /\ staged' = [staged EXCEPT ![u] = [part |-> "some", name |-> n]]
    /\ inHand' = inHand \cup {<<"created", u>>}
    /\ UNCHANGED <<tasks, ingest, cancels, gallery, marks, submitted, upPast>>

\* The last PATCH; earlier ones only send progress.
UploadPatch(u) ==
    /\ staged[u].part = "some"
    /\ staged' = [staged EXCEPT ![u].part = "whole"]
    /\ inHand' = inHand \cup {<<"progress", u>>, <<"complete", u>>}
    /\ UNCHANGED <<tasks, ingest, cancels, gallery, marks, submitted, upPast>>

\* DELETE, of a file that is whole too.
UploadTerminate(u) ==
    /\ staged[u].part = "some" \/ (staged[u].part = "whole" /\ (CancelRaces \/ ingest.up # u))
    /\ staged' = [staged EXCEPT ![u].part = "none"]
    /\ inHand' = inHand \cup {<<"terminated", u>>}
    /\ UNCHANGED <<tasks, ingest, cancels, gallery, marks, submitted, upPast>>

-----------------------------------------------------------------------------
(* The four goroutines.                                                        *)

TaskCreated(u) ==
    /\ Handled("created", u)
    /\ tasks' = [tasks EXCEPT ![u] = [status |-> "uploading", due |-> TRUE]]
    /\ UNCHANGED <<staged, ingest, cancels, gallery, marks, submitted, upPast>>

\* UpdateOffset renews expires_at of any row, a completed one too.
TaskProgress(u) ==
    /\ Handled("progress", u)
    /\ tasks' = IF tasks[u] = NoTask THEN tasks ELSE [tasks EXCEPT ![u].due = TRUE]
    /\ UNCHANGED <<staged, ingest, cancels, gallery, marks, submitted, upPast>>

TaskTerminated(u) ==
    /\ Handled("terminated", u)
    /\ SetTask(u, "canceled", TRUE)
    /\ UNCHANGED <<staged, ingest, cancels, gallery, marks, submitted, upPast>>

\* A statement of the store fails: the goroutine ignores it (tus.go: `_ =`).
StoreFails(ch, u) ==
    /\ ch \in {"created", "progress", "terminated"} /\ Handled(ch, u) /\ StoreError
    /\ UNCHANGED <<staged, tasks, ingest, cancels, gallery, marks, submitted, delivered, unrecorded, upRestarts>>

\* ingestStagedFile, steps 1 and 2.
\* Mutant: the answer of MarkAndReserve is not looked at.
IngestReserveAlways(u) ==
    /\ ingest = NoIngest /\ Handled("complete", u) /\ Apart(u)
    /\ LateInsert \/ <<"created", u>> \notin inHand
    /\ ingest' = [up |-> u, pc |-> "move"] /\ marks' = marks \cup {staged[u].name}
    /\ UNCHANGED <<staged, tasks, cancels, gallery, submitted, upPast>>

IngestReserve(u) ==
    LET n == staged[u].name IN
    /\ ingest = NoIngest /\ Handled("complete", u) /\ Apart(u)
    /\ LateInsert \/ <<"created", u>> \notin inHand
    /\ ingest' = [up |-> u, pc |-> IF n \in marks THEN "failed" ELSE "move"]
    /\ marks' = marks \cup {n}
    /\ UNCHANGED <<staged, tasks, cancels, gallery, submitted, upPast>>

\* Step 3: the rename, or the copy.  What was there is overwritten; a failure leaves the
\* reservation, and a copy that breaks off leaves a piece of the file.
Torn(n) == gallery' = [gallery EXCEPT ![n] = NoUpload]

IngestMove ==
    LET u == ingest.up IN
    /\ ingest.pc = "move"
    /\ \/ /\ staged[u].part = "whole"
          /\ gallery' = [gallery EXCEPT ![staged[u].name] = u]
          /\ staged' = [staged EXCEPT ![u].part = "none"]
          /\ delivered' = delivered \cup {u}
          /\ ingest' = [ingest EXCEPT !.pc = "submit"]
       \/ /\ ingest' = [ingest EXCEPT !.pc = "failed"]
          /\ UNCHANGED gallery \/ (staged[u].part = "whole" /\ Torn(staged[u].name))
          /\ UNCHANGED <<staged, delivered>>
    /\ UNCHANGED <<tasks, inHand, cancels, marks, submitted, unrecorded, upRestarts, storeErrors>>

\* Mutant: the goroutine releases its reservation as soon as the path is queued.
IngestSubmitReleases ==
    /\ ingest.pc = "submit"
    /\ submitted' = submitted \cup {staged[ingest.up].name}
    /\ marks' = marks \ {staged[ingest.up].name}
    /\ ingest' = [ingest EXCEPT !.pc = "completed"]
    /\ UNCHANGED <<staged, tasks, inHand, cancels, gallery, upPast>>

\* Step 4.
IngestSubmit ==
    /\ ingest.pc = "submit"
    /\ submitted' = submitted \cup {staged[ingest.up].name}
    /\ ingest' = [ingest EXCEPT !.pc = "completed"]
    /\ UNCHANGED <<staged, tasks, inHand, cancels, gallery, marks, upPast>>

\* Mutant: the goroutine goes on after a failed ingestion.
IngestDoneAnyhow ==
    /\ ingest.pc \in {"failed", "completed"}
    /\ SetTask(ingest.up, "completed", FALSE)
    /\ ingest' = NoIngest
    /\ UNCHANGED <<staged, inHand, cancels, gallery, marks, submitted, upPast>>

\* SetFailed with a TTL, or SetStatus(completed) without one.
IngestDone ==
    /\ ingest.pc \in {"failed", "completed"}
    /\ SetTask(ingest.up, ingest.pc, ingest.pc = "failed")
    /\ ingest' = NoIngest
    /\ UNCHANGED <<staged, inHand, cancels, gallery, marks, submitted, upPast>>

\* The UPDATE fails, and nobody looks: the row stays as it was.
IngestDoneFails ==
    /\ ingest.pc \in {"failed", "completed"} /\ StoreError
    /\ ingest' = NoIngest
    /\ unrecorded' = IF ingest.pc = "completed" THEN unrecorded \cup {ingest.up} ELSE unrecorded
    /\ UNCHANGED <<staged, tasks, inHand, cancels, gallery, marks, submitted, delivered, upRestarts>>

\* A pool worker takes the path and releases its marker.
WorkerTakes(n) ==
    /\ n \in submitted
    /\ submitted' = submitted \ {n} /\ marks' = marks \ {n}
    /\ UNCHANGED <<staged, tasks, inHand, ingest, cancels, gallery, upPast>>

-----------------------------------------------------------------------------
(* Cancel, GC, staging cleanup, restart.                                       *)

\* CancelUpload reads the row, mostly of an upload that is being sent; a task that ended
\* is left alone.
CancelReads(u) ==
    /\ tasks[u].status \in {"uploading", "paused", "failed"} /\ u \notin cancels
    /\ Apart(u)
    /\ cancels' = cancels \cup {u}
    /\ UNCHANGED <<staged, tasks, inHand, ingest, gallery, marks, submitted, upPast>>

CancelWrites(u) ==
    /\ u \in cancels
    /\ cancels' = cancels \ {u}
    /\ SetTask(u, "canceled", TRUE)
    /\ staged' = [staged EXCEPT ![u].part = "none"]
    /\ UNCHANGED <<inHand, ingest, gallery, marks, submitted, upPast>>

\* The UPDATE fails: an error for the client, and nothing else.
CancelFails(u) ==
    /\ u \in cancels /\ StoreError
    /\ cancels' = cancels \ {u}
    /\ UNCHANGED <<staged, tasks, inHand, ingest, gallery, marks, submitted, delivered, unrecorded, upRestarts>>

\* External GC, an upload idle past expires_at: first paused, then deleted
\* together with its staged file, like every other task that expired.
UploadGC(u) ==
    /\ tasks[u].due
    /\ IF tasks[u].status = "uploading"
       THEN tasks' = [tasks EXCEPT ![u].status = "paused"] /\ UNCHANGED staged
       ELSE /\ tasks' = [tasks EXCEPT ![u] = NoTask]
            /\ staged' = [staged EXCEPT ![u].part = "none"]
    /\ UNCHANGED <<inHand, ingest, cancels, gallery, marks, submitted, upPast>>

\* main removes what staging holds and is too old; everything in memory is new.  A file
\* that was on its way arrived, or not, or in part; nobody tells its row.
UploadRestart ==
    /\ upRestarts < MaxUpRestarts
    /\ upRestarts' = upRestarts + 1
    /\ \E old \in SUBSET Uploads :
         staged' = [u \in Uploads |-> IF u \in old THEN [staged[u] EXCEPT !.part = "none"] ELSE staged[u]]
    /\ inHand' = {} /\ ingest' = NoIngest /\ cancels' = {} /\ marks' = {} /\ submitted' = {}
    /\ unrecorded' = IF ingest.pc \in {"submit", "completed"} THEN unrecorded \cup {ingest.up} ELSE unrecorded
    /\ UNCHANGED gallery \/ (ingest.pc = "move" /\ staged[ingest.up].part = "whole" /\ Torn(staged[ingest.up].name))
    /\ UNCHANGED <<tasks, delivered, storeErrors>>

-----------------------------------------------------------------------------
UpHandler(ch) ==
    \/ ch = "created"    /\ \E u \in Uploads : TaskCreated(u) \/ StoreFails(ch, u)
    \/ ch = "progress"   /\ \E u \in Uploads : TaskProgress(u) \/ StoreFails(ch, u)
    \/ ch = "terminated" /\ \E u \in Uploads : TaskTerminated(u) \/ StoreFails(ch, u)
    \/ ch = "complete"   /\ \/ \E u \in Uploads : IngestReserve(u)
                            \/ IngestMove \/ IngestSubmit \/ IngestDone \/ IngestDoneFails
    \/ ch = "worker"     /\ \E n \in Names : WorkerTakes(n)
    \/ ch = "gc"         /\ \E u \in Uploads : UploadGC(u)

UpHandlers == {"created", "progress", "terminated", "complete", "worker", "gc"}

UpNext ==
    \/ \E u \in Uploads : \/ \E n \in Names : UploadCreate(u, n)
                          \/ UploadPatch(u) \/ UploadTerminate(u)
                          \/ CancelReads(u) \/ CancelWrites(u) \/ CancelFails(u)
    \/ \E ch \in UpHandlers : UpHandler(ch)
    \/ UploadRestart

UpSpec == UpInit /\ [][UpNext]_upVars /\ \A ch \in UpHandlers : WF_upVars(UpHandler(ch))

-----------------------------------------------------------------------------
UpTypeOK ==
    /\ staged \in [Uploads -> [part : {"new", "some", "whole", "none"}, name : Names]]
    /\ tasks \in [Uploads -> [status : {"none", "uploading", "paused", "completed", "failed", "canceled"},
                              due : BOOLEAN]]
    /\ inHand \subseteq {"created", "progress", "terminated", "complete"} \X Uploads
    /\ ingest \in [up : Uploads \cup {NoUpload}, pc : {"idle", "move", "submit", "failed", "completed"}]
    /\ cancels \subseteq Uploads /\ gallery \in [Names -> Uploads \cup {NoUpload}]
    /\ marks \subseteq Names /\ submitted \subseteq marks /\ delivered \subseteq Uploads
    /\ unrecorded \subseteq delivered
    /\ upRestarts \in 0..MaxUpRestarts /\ storeErrors \in 0..MaxStoreErrors

\* The task tells what became of the upload: one that says completed was moved into the
\* gallery, and one that says failed or canceled never got there, whenever it was canceled
\* or terminated; but for an upload whose completion was never recorded (the process ended
\* between the rename and SetStatus, tus.go:167-293, or that UPDATE failed): its row says
\* 'uploading', is paused by the GC, and may be canceled beside the file.
UploadOutcome ==
    \A u \in Uploads : /\ tasks[u].status = "completed" => u \in delivered
                       /\ tasks[u].status \in {"failed", "canceled"} => u \notin delivered \ unrecorded

\* Until the indexer has taken a delivered file, no other upload of the same
\* name overwrites it (the reservation of ingestStagedFile).
PendingBytesKept ==
    [][\A n \in Names : (n \in submitted /\ n \in submitted') => gallery'[n] = gallery[n]]_upVars

\* Every task row is finished or gone in the end: none stays 'uploading'.
TasksSettled == \A u \in Uploads : tasks[u].status \in {"none", "completed"}
TasksSettle == <>[]TasksSettled
=============================================================================
