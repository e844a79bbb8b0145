-------------------------------- MODULE Sprites --------------------------------
(* Hover previews of videos (service/sprite.go and BackfillSprites): one        *)
(* generator shared by the routes, the pregeneration after indexing and the    *)
(* backfill.  The first caller for an output builds it under a semaphore, the  *)
(* others wait for it and look again.  A failure of the backfill cools down.   *)
EXTENDS Naturals, FiniteSets

CONSTANTS
    Videos,
    Callers,            \* goroutines of the routes and of the pregeneration
    spriteMaxConcurrent,
    MaxPurges,          \* bound on the outputs removed from the cache
    MaxBuildFaults,     \* bound on failed builds
    MaxAway             \* bound on the times ffmpeg or a source goes away

ASSUME NobodyCalls == Videos # {} /\ "nobody" \notin Callers

VARIABLES
    output,     \* videos whose sprite is on disk
    source,     \* videos whose file is there
    ffmpeg,     \* is ffmpeg installed
    call,       \* step and video of a caller, the backfill included
    inflight,   \* per video the caller that leads its generation, or nobody
    slots,      \* callers in the semaphore
    pass,       \* the backfill: is it running, videos still pending
    cooling,    \* videos in the failure ledger whose retry is not due
    spriteFaults, purges, aways

spVars == <<output, source, ffmpeg, call, inflight, slots, pass, cooling, spriteFaults, purges, aways>>
spEnv  == <<source, ffmpeg, purges, aways>>

Nobody   == "nobody"
Backfill == "backfill"
Everyone == Callers \cup {Backfill}
SpriteIdle     == [pc |-> "idle", video |-> CHOOSE v \in Videos : TRUE]
NoPass   == [on |-> FALSE, todo |-> {}]

SpInit ==
    /\ output = {} /\ source = Videos /\ ffmpeg = TRUE
    /\ call = [c \in Everyone |-> SpriteIdle]
    /\ inflight = [v \in Videos |-> Nobody] /\ slots = {}
    /\ pass = NoPass /\ cooling = {}
    /\ spriteFaults = 0 /\ purges = 0 /\ aways = 0

\* ------------------------------------------------------------------ ensure

\* An output on disk is a success at once.
CallOf(c, v) == call' = [call EXCEPT ![c] = IF v \in output THEN [SpriteIdle EXCEPT !.video = v, !.pc = "made"]
                                            ELSE [SpriteIdle EXCEPT !.video = v, !.pc = "lock"]]

CallerArrives(c, v) ==
    /\ call[c].pc = "idle"
    /\ CallOf(c, v)
    /\ UNCHANGED <<output, inflight, slots, pass, cooling, spriteFaults, spEnv>>

\* Mutant: the look at the entry and its insertion are no longer one critical section.
LeadsAnyhow(c) ==
    /\ call[c].pc = "lock"
    /\ call' = [call EXCEPT ![c].pc = "sem"] /\ inflight' = [inflight EXCEPT ![call[c].video] = c]
    /\ UNCHANGED <<output, slots, pass, cooling, spriteFaults, spEnv>>

\* Under the mutex: join the leader, or lead.
JoinOrLead(c) ==
    LET v == call[c].video IN
    /\ call[c].pc = "lock"
    /\ IF inflight[v] # Nobody
       THEN call' = [call EXCEPT ![c].pc = "wait"] /\ UNCHANGED inflight
       ELSE call' = [call EXCEPT ![c].pc = "sem"] /\ inflight' = [inflight EXCEPT ![v] = c]
    /\ UNCHANGED <<output, slots, pass, cooling, spriteFaults, spEnv>>

TakesSlot(c) ==
    /\ c \in Everyone /\ call[c].pc = "sem" /\ Cardinality(slots) < spriteMaxConcurrent
    /\ slots' = slots \cup {c} /\ call' = [call EXCEPT ![c].pc = "build"]
    /\ UNCHANGED <<output, inflight, pass, cooling, spriteFaults, spEnv>>

\* ffmpeg renames a finished output into place, or fails.
Builds(c) ==
    LET v == call[c].video
        Ends(pc) == call' = [call EXCEPT ![c].pc = pc] IN
    /\ call[c].pc = "build"
    /\ \/ ffmpeg /\ v \in source /\ Ends("built") /\ output' = output \cup {v} /\ UNCHANGED spriteFaults
       \/ ffmpeg /\ spriteFaults < MaxBuildFaults /\ spriteFaults' = spriteFaults + 1 /\ Ends("broke") /\ UNCHANGED output
       \/ ffmpeg /\ v \notin source /\ Ends("broke") /\ UNCHANGED <<output, spriteFaults>>
       \/ ~ffmpeg /\ Ends("none") /\ UNCHANGED <<output, spriteFaults>>
    /\ UNCHANGED <<inflight, slots, pass, cooling, spEnv>>

Result == [built |-> "made", broke |-> "failed", none |-> "absent"]

\* The leader has its result, and who waited for this output looks for it.
Returned(c) == [d \in Everyone |->
    IF d = c THEN [call[c] EXCEPT !.pc = Result[call[c].pc]]
    ELSE IF call[d].pc = "wait" /\ call[d].video = call[c].video THEN [call[d] EXCEPT !.pc = "look"] ELSE call[d]]

\* Mutant: a build that failed returns before the deferred cleanup.
ReleasesWhenBuilt(c) ==
    /\ call[c].pc \in DOMAIN Result
    /\ slots' = slots \ {c}
    /\ inflight' = IF call[c].pc = "built" THEN [inflight EXCEPT ![call[c].video] = Nobody] ELSE inflight
    /\ call' = IF call[c].pc = "built" THEN Returned(c) ELSE [call EXCEPT ![c].pc = Result[@]]
    /\ UNCHANGED <<output, pass, cooling, spriteFaults, spEnv>>

\* The deferred calls: the slot, then the entry and its channel.
Releases(c) ==
    /\ call[c].pc \in DOMAIN Result
    /\ slots' = slots \ {c}
    /\ inflight' = [inflight EXCEPT ![call[c].video] = Nobody]
    /\ call' = Returned(c)
    /\ UNCHANGED <<output, pass, cooling, spriteFaults, spEnv>>

\* The channel is closed: look whether the leader made it.
Joined(c) ==
    LET v == call[c].video IN
    /\ call[c].pc = "look"
    /\ call' = [call EXCEPT ![c].pc = IF v \in output THEN "made" ELSE "failed"]
    /\ UNCHANGED <<output, inflight, slots, pass, cooling, spriteFaults, spEnv>>

CallerReturns(c) ==
    /\ c \in Callers /\ call[c].pc \in {"made", "failed", "absent"}
    /\ call' = [call EXCEPT ![c] = SpriteIdle]
    /\ UNCHANGED <<output, inflight, slots, pass, cooling, spriteFaults, spEnv>>

\* --------------------------------------------------------- BackfillSprites

\* The candidates, then those of them without an output.
pendingBackfill == (Videos \ cooling) \ output

PassStarts ==
    /\ ~pass.on /\ pendingBackfill # {}
    /\ pass' = [on |-> TRUE, todo |-> pendingBackfill]
    /\ UNCHANGED <<output, call, inflight, slots, cooling, spriteFaults, spEnv>>

\* A missing source is passed over and is no failure.
PassNext ==
    /\ pass.on /\ call[Backfill].pc = "idle"
    /\ \E v \in pass.todo :
         /\ pass' = [pass EXCEPT !.todo = @ \ {v}]
         /\ IF v \in source THEN CallOf(Backfill, v) ELSE UNCHANGED call
    /\ UNCHANGED <<output, inflight, slots, cooling, spriteFaults, spEnv>>

\* A failure goes to the ledger, a success clears it, ffmpeg missing ends the pass.
Records ==
    LET v == call[Backfill].video IN
    /\ call[Backfill].pc \in {"made", "failed", "absent"}
    /\ cooling' = [made |-> cooling \ {v}, failed |-> cooling \cup {v}, absent |-> cooling][call[Backfill].pc]
    /\ pass' = IF call[Backfill].pc = "absent" THEN NoPass ELSE pass
    /\ call' = [call EXCEPT ![Backfill] = SpriteIdle]
    /\ UNCHANGED <<output, inflight, slots, spriteFaults, spEnv>>

PassEnds ==
    /\ pass.on /\ pass.todo = {} /\ call[Backfill].pc = "idle"
    /\ pass' = NoPass
    /\ UNCHANGED <<output, call, inflight, slots, cooling, spriteFaults, spEnv>>

RetryDue(v) ==
    /\ v \in cooling /\ cooling' = cooling \ {v}
    /\ UNCHANGED <<output, call, inflight, slots, pass, spriteFaults, spEnv>>

\* ------------------------------------------------------------- environment

\* The cache of a video is cleared; a source or ffmpeg goes and comes back.
OutputPurged(v) ==
    /\ v \in output /\ purges < MaxPurges
    /\ output' = output \ {v} /\ purges' = purges + 1
    /\ UNCHANGED <<source, ffmpeg, call, inflight, slots, pass, cooling, spriteFaults, aways>>

GoesAway ==
    /\ aways < MaxAway /\ aways' = aways + 1
    /\ \/ ffmpeg /\ ffmpeg' = FALSE /\ UNCHANGED source
       \/ \E v \in source : source' = source \ {v} /\ UNCHANGED ffmpeg
    /\ UNCHANGED <<output, call, inflight, slots, pass, cooling, spriteFaults, purges>>

ComesBack ==
    /\ ~ffmpeg \/ source # Videos
    /\ ffmpeg' = TRUE /\ source' = Videos
    /\ UNCHANGED <<output, call, inflight, slots, pass, cooling, spriteFaults, purges, aways>>

Steps(c) == JoinOrLead(c) \/ TakesSlot(c) \/ Builds(c) \/ Releases(c) \/ Joined(c) \/ CallerReturns(c)

SpRuns(c) ==
    \/ c \in Everyone /\ Steps(c)
    \/ c = Backfill /\ (PassStarts \/ PassNext \/ Records \/ PassEnds)
    \/ c = "clock" /\ \E v \in Videos : RetryDue(v)
    \/ c = "disk" /\ ComesBack

SpGoroutines == Everyone \cup {"clock", "disk"}

SpNext ==
    \/ \E c \in SpGoroutines : SpRuns(c)
    \/ \E c \in Callers, v \in Videos : CallerArrives(c, v)
    \/ \E v \in Videos : OutputPurged(v)
    \/ GoesAway

\* A channel serves who waits in turn, so a slot that is free again and again is got.
SpSpec == /\ SpInit /\ [][SpNext]_spVars
          /\ \A c \in SpGoroutines : WF_spVars(SpRuns(c)) /\ SF_spVars(TakesSlot(c))

--------------------------------------------------------------------------------
SpTypeOK ==
    /\ output \subseteq Videos /\ source \subseteq Videos /\ ffmpeg \in BOOLEAN /\ slots \subseteq Everyone
    /\ \A v \in Videos : inflight[v] \in Everyone \cup {Nobody}
    /\ cooling \subseteq Videos /\ pass.todo \subseteq Videos

\* No output is written by two ffmpeg processes at a time, and whoever builds is the
\* leader that the joiners of this output wait for.
OneBuilder == \A c, d \in Everyone : call[c].pc = "build" =>
    /\ inflight[call[c].video] = c
    /\ (d # c /\ call[d].pc = "build") => call[d].video # call[c].video

\* Every video gets its sprite: whatever failed, was away or was cleared meanwhile, a
\* later pass of the backfill makes it, and nobody waits for a leader that is gone.
SpriteSettles == <>[](Videos \subseteq output)
================================================================================
