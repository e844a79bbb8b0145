-------------------------------- MODULE Sharpness --------------------------------
(* BackfillSharpness (service/quality_backfill.go): once in the life of a library  *)
(* the faces detected before sharpness was measured get their score, and a marker  *)
(* file says that it was done.                                                     *)
EXTENDS Naturals, FiniteSets

CONSTANTS
    Legacy,         \* the faces without a score
    Chunk,          \* sharpnessBackfillBatchSize
    MaxQualityEvents, MaxQualityRestarts,
    MaxQualityFaults    \* bound on statements and writes that fail

ASSUME ChunkSize == Chunk \in Nat \ {0}

VARIABLES
    score,          \* face_detections.sharpness: "null" or "scored"
    source,         \* what resolveFaceScanSource makes of the asset: "good", "bad", "offline", "trashed"
    marker,         \* .face_sharpness_backfill_v1.done
    backfill,       \* step, the rows of the snapshot left, rows left in this batch
    spoilt,         \* history: the faces that were not "good" at some time
    unwritten,      \* history: the faces whose score the database did not take
    qualityEvents, qualityRestarts, qualityFaults

quVars == <<score, source, marker, backfill, spoilt, unwritten, qualityEvents, qualityRestarts, qualityFaults>>

NoBackfill(pc) == [pc |-> pc, rows |-> {}, left |-> 0]

QuInit ==
    /\ score = [f \in Legacy |-> "null"]
    /\ source \in [Legacy -> {"good", "bad", "offline"}] /\ spoilt = {f \in Legacy : source[f] # "good"}
    /\ marker = FALSE /\ backfill = NoBackfill("delay") /\ unwritten = {}
    /\ qualityEvents = 0 /\ qualityRestarts = 0 /\ qualityFaults = 0

QualityFault == qualityFaults < MaxQualityFaults /\ qualityFaults' = qualityFaults + 1

\* main.go: three minutes after the start; a marker ends it.
QueryTargets ==
    /\ backfill.pc = "delay"
    /\ backfill' = IF marker THEN NoBackfill("ended")
                   ELSE [pc |-> "rows", left |-> Chunk,
                         rows |-> {f \in Legacy : score[f] = "null" /\ source[f] \in {"good", "bad"}}]
    /\ UNCHANGED <<score, source, marker, spoilt, unwritten, qualityEvents, qualityRestarts, qualityFaults>>

\* A query that fails ends the pass until the next start.
QueryFails ==
    /\ backfill.pc = "delay" /\ ~marker /\ QualityFault
    /\ backfill' = NoBackfill("failed")
    /\ UNCHANGED <<score, source, marker, spoilt, unwritten, qualityEvents, qualityRestarts>>

\* legacyFaceSharpness reads the file now: a row whose source is gone is skipped for good.
ScoreRow(f) ==
    /\ backfill.pc = "rows" /\ f \in backfill.rows /\ backfill.left > 0
    /\ backfill' = [backfill EXCEPT !.rows = @ \ {f}, !.left = @ - 1]
    /\ score' = [score EXCEPT ![f] = IF source[f] = "good" THEN "scored" ELSE @]
    /\ UNCHANGED <<source, marker, spoilt, unwritten, qualityEvents, qualityRestarts, qualityFaults>>

\* So is one whose UPDATE fails, and the pass goes on to its marker.
ScoreFails(f) ==
    /\ backfill.pc = "rows" /\ f \in backfill.rows /\ backfill.left > 0 /\ source[f] = "good"
    /\ QualityFault
    /\ backfill' = [backfill EXCEPT !.rows = @ \ {f}, !.left = @ - 1]
    /\ unwritten' = unwritten \cup {f}
    /\ UNCHANGED <<score, source, marker, spoilt, qualityEvents, qualityRestarts>>

\* The pause between two batches.
Pause ==
    /\ backfill.pc = "rows" /\ backfill.rows # {} /\ backfill.left = 0
    /\ backfill' = [backfill EXCEPT !.left = Chunk]
    /\ UNCHANGED <<score, source, marker, spoilt, unwritten, qualityEvents, qualityRestarts, qualityFaults>>

\* Mutant: the marker is written when the first batch is done.
MarksEarly ==
    /\ backfill.pc = "rows" /\ (backfill.rows = {} \/ backfill.left = 0)
    /\ marker' = TRUE /\ backfill' = NoBackfill("ended")
    /\ UNCHANGED <<score, source, spoilt, unwritten, qualityEvents, qualityRestarts, qualityFaults>>

\* The marker, however many were skipped.
WriteMarker ==
    /\ backfill.pc = "rows" /\ backfill.rows = {}
    /\ marker' = TRUE /\ backfill' = NoBackfill("ended")
    /\ UNCHANGED <<score, source, spoilt, unwritten, qualityEvents, qualityRestarts, qualityFaults>>

\* A marker that cannot be written is logged: the next start makes the pass again.
MarkerFails ==
    /\ backfill.pc = "rows" /\ backfill.rows = {} /\ QualityFault
    /\ backfill' = NoBackfill("failed")
    /\ UNCHANGED <<score, source, marker, spoilt, unwritten, qualityEvents, qualityRestarts>>

\* A drive goes or comes back, a photo is trashed, a file is damaged.
SourceEvent(f, to) ==
    /\ qualityEvents < MaxQualityEvents /\ qualityEvents' = qualityEvents + 1
    /\ source[f] # to /\ source' = [source EXCEPT ![f] = to]
    /\ spoilt' = IF to = "good" THEN spoilt ELSE spoilt \cup {f}
    /\ UNCHANGED <<score, marker, backfill, unwritten, qualityRestarts, qualityFaults>>

\* The process ends, in the middle or after the marker.
QuRestart ==
    /\ qualityRestarts < MaxQualityRestarts /\ qualityRestarts' = qualityRestarts + 1
    /\ backfill' = NoBackfill("delay")
    /\ UNCHANGED <<score, source, marker, spoilt, unwritten, qualityEvents, qualityFaults>>

QuRuns ==
    \/ QueryTargets \/ QueryFails \/ Pause \/ WriteMarker \/ MarkerFails
    \/ \E f \in Legacy : ScoreRow(f) \/ ScoreFails(f)

QuNext ==
    \/ QuRuns \/ QuRestart
    \/ \E f \in Legacy, to \in {"good", "bad", "offline", "trashed"} : SourceEvent(f, to)

QuSpec == QuInit /\ [][QuNext]_quVars /\ WF_quVars(QuRuns)

---------------------------------------------------------------------------------
QuTypeOK ==
    /\ score \in [Legacy -> {"null", "scored"}] /\ spoilt \subseteq Legacy /\ unwritten \subseteq Legacy
    /\ backfill.rows \subseteq Legacy /\ backfill.left \in 0..Chunk

\* The marker that forbids another pass is written only when every face that the pass could
\* score and write has its score, whatever restarts, failed queries and failed markers fell
\* in between.  A face whose drive was away, or whose file was bad, or whose UPDATE failed
\* when its turn came is behind a marker that says the pass was made.
OncePassIsWhole == marker => \A f \in Legacy \ (spoilt \cup unwritten) : score[f] = "scored"

\* In the end the pass is made, or its last attempt failed and waits for the next start.
PassEnds == marker \/ backfill.pc = "failed"
=================================================================================
