------------------------------ MODULE Captions ------------------------------
(* Captions (service/captionfeed.go, service/captionpull.go): assets are       *)
(* handed to NimoOS-Parser, which only acknowledges; the captions come back    *)
(* by polling.  Parser is external: it runs a job on the thumbnail as it is    *)
(* then, or fails it and tells nobody.                                         *)
EXTENDS Integers, FiniteSets

CONSTANTS
    Assets,
    captionMaxAttempts,
    MaxCaptionEdits,    \* content changes, trashings, restores and purges by the user
    MaxOutages,         \* times Parser goes away
    Recaption           \* may an asset's content change once Parser was asked for a caption

ASSUME CaptionBounds == MaxCaptionEdits \in Nat /\ MaxOutages \in Nat

VARIABLES
    asset,      \* the row: content, state and the caption_* columns
    text,       \* asset_caption: the content the local caption tells of, or 0
    remote,     \* Parser: the content its caption tells of, or 0
    asked,      \* Parser: assets with a queued job
    deletes,    \* assets of DeleteRemote goroutines not run yet
    inline,     \* FeedOne: assets just indexed, "ask", or acknowledged and not marked
    sweep,      \* Backfill: running, its targets, the acknowledged one; rerunPending
    parserUp, outages, userActs

cpVars == <<asset, text, remote, asked, deletes, inline, sweep, parserUp, outages, userActs>>

NoCall == "none"
NoSweep == [running |-> FALSE, rerun |-> FALSE, todo |-> {}, answer |-> NoCall, on |-> {}]
Fresh  == [state |-> "live", ver |-> 1, synced |-> FALSE, handed |-> "never", attempts |-> 0]

CpInit ==
    /\ asset = [a \in Assets |-> Fresh] /\ text = [a \in Assets |-> 0]
    /\ remote = [a \in Assets |-> 0] /\ asked = {} /\ deletes = {}
    /\ inline = [a \in Assets |-> "ask"] /\ sweep = NoSweep
    /\ parserUp = TRUE /\ outages = 0 /\ userActs = 0

\* What IngestAsset answers: 202, a refusal, or ErrParserUnavailable.
Answers == IF parserUp THEN {"handed", "rejected"} ELSE {"unavailable"}

\* markHandedOff and markRejected: updates by id, of a row that may have changed.
Marked(a, answer) ==
    IF asset[a].state = "gone" THEN asset
    ELSE LET r == [asset[a] EXCEPT !.attempts = @ + 1] IN
         [asset EXCEPT ![a] = IF answer = "handed" THEN [r EXCEPT !.synced = TRUE, !.handed = "fresh"] ELSE r]

-----------------------------------------------------------------------------
(* FeedOne, the hook at the end of processFileInternal.                        *)

FeedOneSkips(a) ==
    /\ inline[a] = "ask"
    /\ asset[a].synced \/ asset[a].state = "gone" \/ ~parserUp
    /\ inline' = [inline EXCEPT ![a] = NoCall]
    /\ UNCHANGED <<asset, text, remote, asked, deletes, sweep, parserUp, outages, userActs>>

FeedOneAsks(a) ==
    /\ inline[a] = "ask" /\ ~asset[a].synced /\ asset[a].state # "gone" /\ parserUp
    /\ \E answer \in Answers :
         /\ inline' = [inline EXCEPT ![a] = answer]
         /\ asked' = IF answer = "handed" THEN asked \cup {a} ELSE asked
    /\ UNCHANGED <<asset, text, remote, deletes, sweep, parserUp, outages, userActs>>

FeedOneMarks(a) ==
    /\ inline[a] \in {"handed", "rejected"}
    /\ asset' = Marked(a, inline[a])
    /\ inline' = [inline EXCEPT ![a] = NoCall]
    /\ UNCHANGED <<text, remote, asked, deletes, sweep, parserUp, outages, userActs>>

-----------------------------------------------------------------------------
(* Backfill, the last link of the post-batch chain.                            *)

Stale(a) == /\ asset[a].synced /\ asset[a].handed # "fresh" /\ asset[a].state = "live"
            /\ asset[a].attempts < captionMaxAttempts /\ text[a] = 0

\* Mutant: a hand-off is never given up for lost.
RequeueNone == asset
requeueStale == [a \in Assets |-> IF Stale(a) THEN [asset[a] EXCEPT !.synced = FALSE] ELSE asset[a]]

queryPending(rows) == {a \in Assets : /\ ~rows[a].synced /\ rows[a].state = "live"
                                      /\ rows[a].attempts < captionMaxAttempts}

SweepRound ==
    /\ asset' = requeueStale
    /\ sweep' = [NoSweep EXCEPT !.running = TRUE, !.todo = queryPending(requeueStale)]

BackfillCaptions ==
    /\ IF sweep.running
       THEN sweep' = [sweep EXCEPT !.rerun = TRUE] /\ UNCHANGED asset
       ELSE SweepRound
    /\ UNCHANGED <<text, remote, asked, deletes, inline, parserUp, outages, userActs>>

\* feedBatch: an asset deleted meanwhile is passed over; a Parser that is away
\* ends the round.
FeedNext ==
    /\ sweep.running /\ sweep.on = {}
    /\ \E a \in sweep.todo :
         IF asset[a].state = "gone"
         THEN sweep' = [sweep EXCEPT !.todo = @ \ {a}] /\ UNCHANGED asked
         ELSE \E answer \in Answers :
                /\ sweep' = IF answer = "unavailable" THEN [sweep EXCEPT !.todo = {}]
                            ELSE [sweep EXCEPT !.todo = @ \ {a}, !.answer = answer, !.on = {a}]
                /\ asked' = IF answer = "handed" THEN asked \cup {a} ELSE asked
    /\ UNCHANGED <<asset, text, remote, deletes, inline, parserUp, outages, userActs>>

FeedMarks ==
    /\ \E a \in sweep.on : asset' = Marked(a, sweep.answer)
    /\ sweep' = [sweep EXCEPT !.on = {}, !.answer = NoCall]
    /\ UNCHANGED <<text, remote, asked, deletes, inline, parserUp, outages, userActs>>

SweepEnds ==
    /\ sweep.running /\ sweep.todo = {} /\ sweep.on = {}
    /\ IF sweep.rerun THEN SweepRound ELSE sweep' = NoSweep /\ UNCHANGED asset
    /\ UNCHANGED <<text, remote, asked, deletes, inline, parserUp, outages, userActs>>

-----------------------------------------------------------------------------
(* PullOnce, for one caption of the listing.                                   *)

\* Mutant: an orphan is skipped and not deleted in Parser.
PullSkipsOrphan(a) ==
    /\ parserUp /\ remote[a] # 0 /\ asset[a].state # "gone" /\ text[a] # remote[a]
    /\ text' = [text EXCEPT ![a] = remote[a]]
    /\ UNCHANGED <<asset, remote, asked, deletes, inline, sweep, parserUp, outages, userActs>>

\* The mtime of a caption grows each time Parser makes it, so another text is a
\* newer one.  Without a row the foreign key refuses the INSERT.
PullOne(a) ==
    /\ parserUp /\ remote[a] # 0
    /\ IF asset[a].state = "gone"
       THEN remote' = [remote EXCEPT ![a] = 0] /\ UNCHANGED text
       ELSE text[a] # remote[a] /\ text' = [text EXCEPT ![a] = remote[a]] /\ UNCHANGED remote
    /\ UNCHANGED <<asset, asked, deletes, inline, sweep, parserUp, outages, userActs>>

\* DeleteRemote's goroutine; unreachable means missed.
DeleteRemote(a) ==
    /\ a \in deletes
    /\ deletes' = deletes \ {a}
    /\ remote' = IF parserUp THEN [remote EXCEPT ![a] = 0] ELSE remote
    /\ UNCHANGED <<asset, text, asked, inline, sweep, parserUp, outages, userActs>>

-----------------------------------------------------------------------------
(* Parser, the clock, and what the rest of the program does to rows.           *)

ParserDone(a) ==
    /\ parserUp /\ a \in asked
    /\ asked' = asked \ {a}
    /\ \/ remote' = [remote EXCEPT ![a] = asset[a].ver]
       \/ UNCHANGED remote
    /\ UNCHANGED <<asset, text, deletes, inline, sweep, parserUp, outages, userActs>>

ParserGoes ==
    /\ parserUp /\ outages < MaxOutages
    /\ parserUp' = FALSE /\ outages' = outages + 1
    /\ UNCHANGED <<asset, text, remote, asked, deletes, inline, sweep, userActs>>

ParserReturns ==
    /\ ~parserUp /\ parserUp' = TRUE
    /\ UNCHANGED <<asset, text, remote, asked, deletes, inline, sweep, outages, userActs>>

\* captionStaleAfter has passed.
HandoffAges(a) ==
    /\ asset[a].handed = "fresh"
    /\ asset' = [asset EXCEPT ![a].handed = "old"]
    /\ UNCHANGED <<text, remote, asked, deletes, inline, sweep, parserUp, outages, userActs>>

UserActs == userActs < MaxCaptionEdits /\ userActs' = userActs + 1

\* The upsert of new content, then the hook; a thumbnail or vector made again
\* calls the hook for the same content.
Reindexed(a) ==
    /\ UserActs /\ asset[a].state = "live" /\ inline[a] = NoCall
    /\ \/ UNCHANGED asset
       \/ /\ Recaption \/ (a \notin asked /\ remote[a] = 0 /\ text[a] = 0)
          /\ asset' = [asset EXCEPT ![a] = [Fresh EXCEPT !.ver = asset[a].ver + 1]]
    /\ inline' = [inline EXCEPT ![a] = "ask"]
    /\ UNCHANGED <<text, remote, asked, deletes, sweep, parserUp, outages>>

CaptionTrash(a) ==
    /\ UserActs /\ asset[a].state = "live"
    /\ asset' = [asset EXCEPT ![a].state = "trashed"]
    /\ deletes' = deletes \cup {a}
    /\ UNCHANGED <<text, remote, asked, inline, sweep, parserUp, outages>>

OnRestore(a) ==
    /\ UserActs /\ asset[a].state = "trashed"
    /\ asset' = [asset EXCEPT ![a] = [Fresh EXCEPT !.ver = asset[a].ver]]
    /\ UNCHANGED <<text, remote, asked, deletes, inline, sweep, parserUp, outages>>

CaptionPurge(a) ==
    /\ UserActs /\ asset[a].state # "gone"
    /\ asset' = [asset EXCEPT ![a].state = "gone"] /\ text' = [text EXCEPT ![a] = 0]
    /\ deletes' = deletes \cup {a}
    /\ UNCHANGED <<remote, asked, inline, sweep, parserUp, outages>>

-----------------------------------------------------------------------------
\* A batch ends again and again: each one sweeps, then pulls.
CpRuns(w) ==
    \/ w = "sweep"  /\ ((~sweep.running /\ BackfillCaptions) \/ FeedNext \/ FeedMarks \/ SweepEnds)
    \/ w = "inline" /\ \E a \in Assets : FeedOneSkips(a) \/ FeedOneAsks(a) \/ FeedOneMarks(a)
    \/ w = "pull"   /\ \E a \in Assets : PullOne(a)
    \/ w = "delete" /\ \E a \in Assets : DeleteRemote(a)
    \/ w = "parser" /\ (ParserReturns \/ \E a \in Assets : ParserDone(a))
    \/ w = "clock"  /\ \E a \in Assets : HandoffAges(a)

CpWorkers == {"sweep", "inline", "pull", "delete", "parser", "clock"}

CpNext ==
    \/ BackfillCaptions \/ ParserGoes
    \/ \E w \in CpWorkers : CpRuns(w)
    \/ \E a \in Assets : Reindexed(a) \/ CaptionTrash(a) \/ OnRestore(a) \/ CaptionPurge(a)

CpSpec == CpInit /\ [][CpNext]_cpVars /\ \A w \in CpWorkers : WF_cpVars(CpRuns(w))

-----------------------------------------------------------------------------
CpTypeOK ==
    /\ asset \in [Assets -> [state : {"live", "trashed", "gone"}, ver : 1..(MaxCaptionEdits + 1),
                             synced : BOOLEAN, handed : {"never", "fresh", "old"}, attempts : Nat]]
    /\ text \in [Assets -> 0..(MaxCaptionEdits + 1)] /\ remote \in [Assets -> 0..(MaxCaptionEdits + 1)]
    /\ asked \subseteq Assets /\ deletes \subseteq Assets
    /\ inline \in [Assets -> {"none", "ask", "handed", "rejected"}]
    /\ sweep \in [running : BOOLEAN, rerun : BOOLEAN, todo : SUBSET Assets,
                  answer : {"none", "handed", "rejected"}, on : SUBSET Assets]
    /\ parserUp \in BOOLEAN /\ outages \in 0..MaxOutages /\ userActs \in 0..MaxCaptionEdits

\* An asset that stays in the library gets the caption of its content, or used
\* up its attempts: a hand-off that Parser lost is made again.
CaptionSettled ==
    \A a \in Assets : asset[a].state = "live" =>
        text[a] = asset[a].ver \/ asset[a].attempts >= captionMaxAttempts
CaptionSettles == <>[]CaptionSettled

\* Parser ends without a caption of an asset that was purged, whichever of the
\* delete and the job came first and whatever was missed.
NoGhost == \A a \in Assets : asset[a].state = "gone" => remote[a] = 0
GhostsRemoved == <>[]NoGhost
=============================================================================
