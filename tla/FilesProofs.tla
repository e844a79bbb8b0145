---------------------------- MODULE FilesProofs ----------------------------
(* Theorems about the components that MCFiles runs side by side: the sprites,   *)
(* the storage statistics, the places of the photos, the bus and the watcher;   *)
(* and about the properties its run checks of the side-by-side behaviour.       *)
EXTENDS MCFiles, UploadsProofs, TLAPS, FiniteSetTheorems

-----------------------------------------------------------------------------
(* The sprite generator.                                                       *)

Steppers == {"idle", "lock", "wait", "sem", "build", "built", "broke", "none", "look", "made", "failed", "absent"}
Calls    == [pc : Steppers, video : Videos]

\* From the insertion of its entry to the deferred cleanup a caller leads.
Leading == {"sem", "build", "built", "broke", "none"}

CallsOK ==
    /\ call \in [Everyone -> Calls]
    /\ inflight \in [Videos -> Everyone \cup {Nobody}]
    /\ pass.todo \subseteq Videos

LeadersKnown == \A c \in Everyone : call[c].pc \in Leading => inflight[call[c].video] = c

LeadersOK == CallsOK /\ LeadersKnown

-----------------------------------------------------------------------------
LEMMA IdleIsCall == SpriteIdle \in Calls /\ SpriteIdle.pc = "idle" /\ Nobody \notin Everyone
BY NobodyCalls DEF SpriteIdle, Calls, Steppers, Nobody, Everyone, Backfill

LEMMA InitLeads == ASSUME SpInit PROVE LeadersOK
BY IdleIsCall DEF SpInit, LeadersOK, CallsOK, LeadersKnown, Leading, NoPass

\* A call that moves to a step at which it does not lead, while the entries stay.
LEMMA CallMoves ==
    ASSUME LeadersOK, NEW c \in Everyone, NEW k \in Calls,
           k.pc \in Leading => inflight[k.video] = c,
           call' = [call EXCEPT ![c] = k], UNCHANGED inflight, pass'.todo \subseteq Videos
    PROVE  LeadersOK'
BY DEF LeadersOK, CallsOK, LeadersKnown

\* A new call is no leader.
LEMMA CallArrives ==
    ASSUME LeadersOK, NEW c \in Everyone, NEW v \in Videos, CallOf(c, v), UNCHANGED inflight, pass'.todo \subseteq Videos
    PROVE  LeadersOK'
<1> DEFINE k == IF v \in output THEN [SpriteIdle EXCEPT !.video = v, !.pc = "made"]
                ELSE [SpriteIdle EXCEPT !.video = v, !.pc = "lock"]
<1>1. k \in Calls /\ k.pc \notin Leading
  BY IdleIsCall DEF Calls, Steppers, Leading
<1>2. call' = [call EXCEPT ![c] = k]
  BY DEF CallOf
<1> QED BY <1>1, <1>2, CallMoves

\* A call that moves on for the same video, while the entries stay.
LEMMA StepMoves ==
    ASSUME LeadersOK, NEW c \in Everyone, NEW x \in Steppers,
           x \in Leading => call[c].pc \in Leading,
           call' = [call EXCEPT ![c].pc = x], UNCHANGED <<inflight, pass>>
    PROVE  LeadersOK'
<1> DEFINE k == [call[c] EXCEPT !.pc = x]
<1>1. k \in Calls /\ k.pc = x /\ k.video = call[c].video
  BY DEF LeadersOK, CallsOK, Calls
<1>2. call' = [call EXCEPT ![c] = k]
  OBVIOUS
<1>3. pass'.todo \subseteq Videos
  BY DEF LeadersOK, CallsOK
<1>4. k.pc \in Leading => inflight[k.video] = c
  BY <1>1 DEF LeadersOK, LeadersKnown
<1> QED BY <1>1, <1>2, <1>3, <1>4, CallMoves

LEMMA JoinLeads == ASSUME LeadersOK, NEW c \in Everyone, JoinOrLead(c) PROVE LeadersOK'
<1> DEFINE v == call[c].video
<1>1. v \in Videos
  BY DEF LeadersOK, CallsOK, Calls
<1>2. CASE inflight[v] # Nobody
  <2>1. call' = [call EXCEPT ![c].pc = "wait"] /\ UNCHANGED <<inflight, pass>>
    BY <1>2 DEF JoinOrLead
  <2> QED BY <2>1, StepMoves DEF Steppers, Leading
<1>3. CASE inflight[v] = Nobody
  <2>1. call' = [call EXCEPT ![c].pc = "sem"] /\ inflight' = [inflight EXCEPT ![v] = c] /\ pass' = pass
    BY <1>3 DEF JoinOrLead
  <2>2. call' \in [Everyone -> Calls]
    <3>1. [call[c] EXCEPT !.pc = "sem"] \in Calls
      BY DEF LeadersOK, CallsOK, Calls, Steppers
    <3> QED BY <2>1, <3>1 DEF LeadersOK, CallsOK
  <2>3. CallsOK'
    BY <1>1, <2>1, <2>2 DEF LeadersOK, CallsOK
  <2>4. \A d \in Everyone : call'[d].video = call[d].video /\ (d # c => call'[d].pc = call[d].pc)
    BY <2>1 DEF LeadersOK, CallsOK, Calls
  <2>5. \A d \in Everyone : d # c /\ call[d].pc \in Leading => call[d].video # v
    BY <1>3, IdleIsCall DEF LeadersOK, LeadersKnown
  <2>6. LeadersKnown'
    BY <1>1, <2>1, <2>4, <2>5 DEF LeadersKnown, LeadersOK, CallsOK, Calls
  <2> QED BY <2>3, <2>6 DEF LeadersOK
<1> QED BY <1>2, <1>3

LEMMA ReleaseLeads == ASSUME LeadersOK, NEW c \in Everyone, Releases(c) PROVE LeadersOK'
<1> DEFINE v == call[c].video
<1>1. v \in Videos /\ inflight[v] = c
  <2>1. call[c].pc \in Leading
    BY DEF Releases, Result, Leading
  <2> QED BY <2>1 DEF LeadersOK, LeadersKnown, CallsOK, Calls
<1>2. /\ call' = Returned(c)
      /\ inflight' = [inflight EXCEPT ![v] = Nobody]
      /\ pass' = pass
  BY DEF Releases
<1>3. Result[call[c].pc] \in {"made", "failed", "absent"}
  BY DEF Releases, Result
<1>4. \A d \in Everyone : /\ call'[d].video = call[d].video
                          /\ call'[d].pc = call[d].pc \/ call'[d].pc \in {"made", "failed", "absent", "look"}
                          /\ d = c => call'[d].pc \notin Leading
  BY <1>2, <1>3 DEF Returned, LeadersOK, CallsOK, Calls, Leading
<1>5. \A d \in Everyone : call'[d] \in Calls
  BY <1>2, <1>3 DEF Returned, LeadersOK, CallsOK, Calls, Steppers
<1>6. CallsOK'
  BY <1>1, <1>2, <1>5 DEF Returned, LeadersOK, CallsOK
<1>7. LeadersKnown'
  <2>1. SUFFICES ASSUME NEW d \in Everyone, call'[d].pc \in Leading PROVE inflight'[call'[d].video] = d
    BY DEF LeadersKnown
  <2>2. d # c /\ call[d].pc \in Leading /\ call'[d].video = call[d].video
    BY <1>4, <2>1 DEF Leading
  <2>3. call[d].video \in Videos /\ inflight[call[d].video] = d
    BY <2>2 DEF LeadersOK, LeadersKnown, CallsOK, Calls
  <2> QED BY <1>1, <1>2, <2>2, <2>3
<1> QED BY <1>6, <1>7 DEF LeadersOK

LEMMA StepLeads == ASSUME LeadersOK, [SpNext]_spVars PROVE LeadersOK'
<1>1. ASSUME NEW c \in Callers, NEW v \in Videos, CallerArrives(c, v) PROVE LeadersOK'
  <2>1. c \in Everyone /\ pass'.todo \subseteq Videos
    BY <1>1 DEF CallerArrives, Everyone, LeadersOK, CallsOK
  <2> QED BY <1>1, <2>1, CallArrives DEF CallerArrives
<1>2. ASSUME NEW c \in Everyone, TakesSlot(c) \/ Builds(c) \/ Joined(c) PROVE LeadersOK'
  <2>1. UNCHANGED <<inflight, pass>>
    BY <1>2 DEF TakesSlot, Builds, Joined
  <2>2. PICK x \in Steppers : call' = [call EXCEPT ![c].pc = x] /\ (x \in Leading => call[c].pc \in Leading)
    <3>1. CASE TakesSlot(c)
      BY <3>1 DEF TakesSlot, Steppers, Leading
    <3>2. CASE Builds(c)
      BY <3>2 DEF Builds, Steppers, Leading
    <3>3. CASE Joined(c)
      BY <3>3 DEF Joined, Steppers, Leading
    <3> QED BY <1>2, <3>1, <3>2, <3>3
  <2> QED BY <2>1, <2>2, StepMoves
<1>3. ASSUME NEW c \in Everyone, CallerReturns(c) PROVE LeadersOK'
  <2>1. pass'.todo \subseteq Videos
    BY <1>3 DEF CallerReturns, LeadersOK, CallsOK
  <2> QED BY <1>3, <2>1, IdleIsCall, CallMoves DEF CallerReturns, Leading
<1>4. CASE PassStarts
  BY <1>4 DEF PassStarts, pendingBackfill, LeadersOK, CallsOK, LeadersKnown
<1>5. CASE PassNext
  <2>1. PICK v \in pass.todo : /\ pass' = [pass EXCEPT !.todo = @ \ {v}]
                               /\ IF v \in source THEN CallOf(Backfill, v) ELSE UNCHANGED call
    BY <1>5 DEF PassNext
  <2>2. v \in Videos /\ Backfill \in Everyone /\ pass'.todo \subseteq Videos /\ UNCHANGED inflight
    BY <1>5, <2>1 DEF PassNext, LeadersOK, CallsOK, Everyone
  <2>3. CASE v \in source
    BY <2>1, <2>2, <2>3, CallArrives
  <2>4. CASE v \notin source
    BY <2>1, <2>2, <2>4 DEF LeadersOK, CallsOK, LeadersKnown
  <2> QED BY <2>3, <2>4
<1>6. CASE Records
  <2>1. Backfill \in Everyone /\ pass'.todo \subseteq Videos
    BY <1>6 DEF Records, LeadersOK, CallsOK, Everyone, NoPass
  <2> QED BY <1>6, <2>1, IdleIsCall, CallMoves DEF Records, Leading
<1>7. CASE PassEnds \/ GoesAway \/ ComesBack \/ UNCHANGED spVars
  BY <1>7 DEF PassEnds, NoPass, GoesAway, ComesBack, spVars, LeadersOK, CallsOK, LeadersKnown
<1>8. ASSUME NEW v \in Videos, RetryDue(v) \/ OutputPurged(v) PROVE LeadersOK'
  BY <1>8 DEF RetryDue, OutputPurged, LeadersOK, CallsOK, LeadersKnown
<1> QED BY <1>1, <1>2, <1>3, <1>4, <1>5, <1>6, <1>7, <1>8, JoinLeads, ReleaseLeads DEF SpNext, SpRuns, Steps

\* Never do two ffmpeg processes write one output, whoever asks for it and whatever
\* fails, and who builds it is the leader its joiners wait for: for any number of
\* videos, callers and slots of the semaphore.
THEOREM OneBuilderCorrect == SpSpec => []OneBuilder
<1>1. SpInit => LeadersOK BY InitLeads
<1>2. LeadersOK /\ [SpNext]_spVars => LeadersOK' BY StepLeads
<1>3. LeadersOK => OneBuilder BY DEF LeadersOK, LeadersKnown, OneBuilder, Leading
<1> QED BY <1>1, <1>2, <1>3, PTL DEF SpSpec

-----------------------------------------------------------------------------
(* The storage statistics.                                                     *)

Counts == [here : BOOLEAN, fresh : BOOLEAN, counted : SUBSET Dirs, prunable : SUBSET Dirs]

Walks  == [pc : {"idle", "ids", "list", "sum"}, gen : Nat, ids : SUBSET Dirs, left : SUBSET Dirs, out : Counts]
Prunes == [pc : {"idle", "remove"}, ids : SUBSET Dirs, left : SUBSET Dirs, removed : SUBSET Dirs]

StorageTyped ==
    /\ dir \in [Dirs -> {"none", "owned", "orphan"}]
    /\ cache \in Counts
    /\ fsGen \in Nat
    /\ walk \in Walks
    /\ prune \in Prunes
    /\ freed \subseteq Dirs

-----------------------------------------------------------------------------
(* A walk vouches for its counts only while its generation is the current one. *)

\* What was freed is gone: a walk that comes to it later does not count it.
FreedIsGone == \A d \in freed : dir[d] = "none"

WalkIsNotAhead == walk.gen <= fsGen

CurrentWalkIsSound == walk.gen = fsGen => walk.out.prunable \cap freed = {}

Kept == StorageTyped /\ FreedIsGone /\ WalkIsNotAhead /\ CurrentWalkIsSound /\ FreedStaysFreed

LEMMA StartKept == ASSUME StInit PROVE Kept
BY DEF StInit, Kept, StorageTyped, Counts, FreedIsGone, WalkIsNotAhead, CurrentWalkIsSound, FreedStaysFreed,
       NoCache, NoWalk, NoPrune, Walks, Prunes

LEMMA WalkKept ==
    ASSUME Kept,
           \/ Stats \/ WarmFS \/ WalkReadsIds \/ WalkLists \/ WalkPublishes
           \/ \E d \in Dirs : WalkCounts(d)
    PROVE Kept'
<1> USE DEF Kept, StorageTyped, Counts, FreedIsGone, WalkIsNotAhead, CurrentWalkIsSound, FreedStaysFreed
<1>1. CASE Stats \/ WarmFS
  <2>1. walk' = [pc |-> "ids", gen |-> fsGen, ids |-> {}, left |-> {}, out |-> NoCache]
    BY <1>1 DEF Stats, WarmFS, WalkStarts, NoWalk
  <2>2. UNCHANGED <<dir, cache, fsGen, prune, freed>>
    BY <1>1 DEF Stats, WarmFS
  <2>3. NoCache \in Counts /\ NoCache.prunable = {}
    BY DEF NoCache
  <2>4. StorageTyped'
    BY <2>1, <2>2, <2>3 DEF Walks
  <2> QED BY <2>1, <2>2, <2>3, <2>4
<1>2. CASE WalkReadsIds
  <2>1. NoWalk \in Walks
    BY DEF NoWalk, NoCache, Walks
  <2>2. NoWalk.out.prunable = {} /\ Owned \subseteq Dirs
    BY DEF NoWalk, NoCache, Owned
  <2>3. UNCHANGED <<dir, cache, fsGen, prune, freed>>
    BY <1>2 DEF WalkReadsIds
  <2>4. walk' = [walk EXCEPT !.pc = "list", !.ids = Owned] \/ walk' = NoWalk
    BY <1>2 DEF WalkReadsIds
  <2>5. walk' \in Walks
    BY <2>1, <2>2, <2>4 DEF Walks
  <2>6. CASE walk' = NoWalk
    <3>1. walk'.gen = 0 /\ walk'.out.prunable = {}
      BY <2>6 DEF NoWalk, NoCache
    <3> QED BY <2>3, <2>5, <3>1
  <2>7. CASE walk' = [walk EXCEPT !.pc = "list", !.ids = Owned]
    <3>1. walk'.gen = walk.gen /\ walk'.out = walk.out
      BY <2>7 DEF Walks
    <3> QED BY <2>3, <2>5, <3>1
  <2> QED BY <2>4, <2>6, <2>7
<1>3. CASE WalkLists
  BY <1>3 DEF WalkLists, OnDisk, Walks
<1>4. CASE WalkPublishes
  <2>1. walk' = [pc |-> "idle", gen |-> 0, ids |-> {}, left |-> {}, out |-> NoCache]
    BY <1>4 DEF WalkPublishes, NoWalk
  <2>2. NoCache \in Counts /\ NoCache.prunable = {}
    BY DEF NoCache
  <2>3. UNCHANGED <<dir, fsGen, prune, freed>>
    BY <1>4 DEF WalkPublishes
  <2>4. cache' \in Counts /\ cache'.prunable \cap freed = {}
    BY <1>4 DEF WalkPublishes, Walks
  <2>5. StorageTyped'
    BY <2>1, <2>2, <2>3, <2>4 DEF Walks
  <2> QED BY <2>1, <2>2, <2>3, <2>4, <2>5
<1>5. ASSUME NEW d \in Dirs, WalkCounts(d) PROVE Kept'
  <2>1. walk'.out.prunable \subseteq walk.out.prunable \cup (IF dir[d] # "none" THEN {d} ELSE {})
    BY <1>5 DEF WalkCounts, Walks
  <2>2. UNCHANGED <<dir, cache, fsGen, prune, freed>>
    BY <1>5 DEF WalkCounts
  <2>3. walk' \in Walks /\ walk'.gen = walk.gen
    <3> DEFINE c == IF dir[d] # "none" THEN walk.out.counted \cup {d} ELSE walk.out.counted
               k == IF dir[d] # "none" /\ d \notin walk.ids THEN walk.out.prunable \cup {d} ELSE walk.out.prunable
    <3>1. walk' = [walk EXCEPT !.left = walk.left \ {d}, !.out.counted = c, !.out.prunable = k]
      BY <1>5 DEF WalkCounts
    <3>2. walk \in Walks /\ walk.out \in Counts /\ c \subseteq Dirs /\ k \subseteq Dirs
      BY DEF Walks
    <3> HIDE DEF c, k
    <3> QED BY ONLY <3>1, <3>2 DEF Walks, Counts
  <2> QED BY <2>1, <2>2, <2>3
<1> QED BY <1>1, <1>2, <1>3, <1>4, <1>5

LEMMA PruneKept ==
    ASSUME Kept, PruneStarts \/ PruneBreaks \/ PruneEnds \/ \E d \in Dirs : PruneOne(d)
    PROVE Kept'
<1> USE DEF Kept, StorageTyped, Counts, FreedIsGone, WalkIsNotAhead, CurrentWalkIsSound, FreedStaysFreed
<1>1. CASE PruneStarts \/ PruneBreaks
  <2>1. prune' \in Prunes
    <3>1. CASE PruneStarts
      BY <3>1 DEF PruneStarts, NoPrune, Owned, OnDisk, Prunes
    <3>2. CASE PruneBreaks
      BY <3>2 DEF PruneBreaks, NoPrune, Prunes
    <3> QED BY <1>1, <3>1, <3>2
  <2>2. UNCHANGED <<dir, cache, fsGen, walk, freed>>
    BY <1>1 DEF PruneStarts, PruneBreaks
  <2> QED BY <2>1, <2>2
<1>2. CASE PruneEnds
  <2>1. cache' \in Counts /\ cache'.prunable = {}
    BY <1>2 DEF PruneEnds, NoCache
  <2>2. fsGen' = fsGen + 1 /\ UNCHANGED <<dir, walk>>
    BY <1>2 DEF PruneEnds
  <2>3. freed' \subseteq Dirs /\ \A d \in freed' : dir'[d] = "none"
    <3>1. freed' = freed \cup {d \in prune.removed : dir[d] = "none"}
      BY <1>2 DEF PruneEnds
    <3> QED BY <3>1, <2>2 DEF Prunes
  <2>4. prune' \in Prunes
    BY <1>2 DEF PruneEnds, NoPrune, Prunes
  <2>5. StorageTyped' /\ FreedIsGone'
    BY <2>1, <2>2, <2>3, <2>4
  <2>6. walk'.gen < fsGen'
    BY <2>2 DEF Walks
  <2>7. FreedStaysFreed'
    BY <2>1
  <2> QED BY <2>5, <2>6, <2>7 DEF Walks
<1>3. ASSUME NEW d \in Dirs, PruneOne(d) PROVE Kept'
  BY <1>3 DEF PruneOne, Prunes
<1> QED BY <1>1, <1>2, <1>3

LEMMA StepKept == ASSUME Kept, [StNext]_stVars PROVE Kept'
<1> USE DEF Kept, StorageTyped, Counts, FreedIsGone, WalkIsNotAhead, CurrentWalkIsSound, FreedStaysFreed
<1>1. CASE CacheExpires
  BY <1>1 DEF CacheExpires
<1>2. ASSUME NEW d \in Dirs, NEW to \in {"owned", "orphan", "none"}, DirEvent(d, to) PROVE Kept'
  <2>1. d \in freed => to = "owned"
    BY <1>2 DEF DirEvent
  <2> QED BY <1>2, <2>1 DEF DirEvent
<1>3. CASE UNCHANGED stVars
  BY <1>3 DEF stVars
<1> QED BY <1>1, <1>2, <1>3, WalkKept, PruneKept DEF StNext, StRuns

\* Whatever a finished prune has removed is not offered as prunable again, for any
\* directories and any number of walks that overlap it: a walk that counted a directory
\* before it was pruned belongs to an older generation and does not publish.
THEOREM FreedCorrect == StSpec => []FreedStaysFreed
<1>1. StInit => Kept BY StartKept
<1>2. Kept /\ [StNext]_stVars => Kept' BY StepKept
<1>3. Kept => FreedStaysFreed BY DEF Kept
<1> QED BY <1>1, <1>2, <1>3, PTL DEF StSpec

-----------------------------------------------------------------------------
(* The places.                                                                  *)

\* An indexed photo keeps the position it got.
PositionsStay == ~Moves

Positions == Spots \cup {"none", "gone"}
GeoCalls ==
    [pc : {"idle", "query", "read", "write", "ended", "dead"}, ids : SUBSET Places, at : {<<>>} \cup Places \X Spots]

\* What a caller is about to write is still the photo's position, or its row is gone.
GeoInv ==
    /\ gps \in [Places -> Positions] /\ geo \in [Places -> Spots \cup {"none"}] /\ caller \in [GeoCallers -> GeoCalls]
    /\ PlacesMatch
    /\ \A c \in GeoCallers : caller[c].pc = "write" =>
          caller[c].at # <<>> /\ gps[caller[c].at[1]] \in {caller[c].at[2], "gone"}

LEMMA CallsAreRecords == \A pc \in {"idle", "query", "read", "write", "ended", "dead"} :
                            NoGeoCall(pc) \in GeoCalls /\ NoGeoCall(pc).pc = pc
BY DEF NoGeoCall, GeoCalls

LEMMA GeoStarts == GeInit => GeoInv
<1>1. SUFFICES ASSUME GeInit PROVE GeoInv
  OBVIOUS
<1>2. caller \in [GeoCallers -> GeoCalls] /\ \A c \in GeoCallers : caller[c].pc # "write"
  BY <1>1, CallsAreRecords DEF GeInit, AfterLoop
<1> QED BY <1>1, <1>2 DEF GeInit, GeoInv, PlacesMatch, Positions

\* Who calls and which step is taken does not matter as long as no position or city
\* changes, and what is read is what stands there.
LEMMA CallKeeps ==
    ASSUME GeoInv, UNCHANGED <<gps, geo>>, NEW c \in GeoCallers, NEW r \in GeoCalls,
           caller' = [caller EXCEPT ![c] = r],
           r.pc = "write" => r.at # <<>> /\ gps[r.at[1]] \in {r.at[2], "gone"}
    PROVE  GeoInv'
<1>1. caller' \in [GeoCallers -> GeoCalls] /\ \A d \in GeoCallers : caller'[d] = IF d = c THEN r ELSE caller[d]
  BY DEF GeoInv
<1> QED BY <1>1 DEF GeoInv, PlacesMatch

LEMMA ReadsKeep == ASSUME GeoInv, NEW c \in GeoCallers, NEW x \in Places, GeocodeReads(c, x) PROVE GeoInv'
<1>1. caller[c] \in GeoCalls /\ gps[x] \in Positions
  BY DEF GeoInv
<1>2. CASE gps[x] \in Spots
  <2> DEFINE r == [caller[c] EXCEPT !.pc = "write", !.at = <<x, gps[x]>>]
  <2>1. r \in GeoCalls /\ r.pc = "write" /\ r.at = <<x, gps[x]>>
    BY <1>1, <1>2 DEF GeoCalls
  <2>2. caller' = [caller EXCEPT ![c] = r] /\ UNCHANGED <<gps, geo>>
    BY <1>2 DEF GeocodeReads
  <2>3. r.at # <<>> /\ gps[r.at[1]] \in {r.at[2], "gone"}
    BY <2>1
  <2> HIDE DEF r
  <2> QED BY <2>1, <2>2, <2>3, CallKeeps
<1>3. CASE gps[x] \notin Spots
  <2> DEFINE r == [caller[c] EXCEPT !.ids = caller[c].ids \ {x}]
  <2>1. r \in GeoCalls /\ r.pc = caller[c].pc
    BY <1>1 DEF GeoCalls
  <2>2. caller' = [caller EXCEPT ![c] = r] /\ UNCHANGED <<gps, geo>> /\ caller[c].pc = "read"
    BY <1>3 DEF GeocodeReads
  <2> HIDE DEF r
  <2> QED BY <2>1, <2>2, CallKeeps
<1> QED BY <1>2, <1>3

LEMMA WritesKeep == ASSUME GeoInv, NEW c \in GeoCallers, NEW x \in Places, GeocodeWrites(c, x) PROVE GeoInv'
<1>1. caller[c] \in GeoCalls /\ caller[c].pc = "write" /\ x = caller[c].at[1] /\ UNCHANGED gps
  BY DEF GeocodeWrites, GeoInv
<1>2. caller[c].at[2] \in Spots /\ gps[x] \in {caller[c].at[2], "gone"}
  BY <1>1 DEF GeoInv, GeoCalls
<1>3. CASE gps[x] = "gone"
  <2>1. Fails(c) \in GeoCalls /\ Fails(c).pc # "write"
    BY CallsAreRecords DEF Fails
  <2>2. caller' = [caller EXCEPT ![c] = Fails(c)] /\ UNCHANGED <<gps, geo>>
    BY <1>3 DEF GeocodeWrites
  <2> QED BY <2>1, <2>2, CallKeeps
<1>4. CASE gps[x] # "gone"
  <2> DEFINE r == [NoGeoCall("read") EXCEPT !.ids = caller[c].ids \ {x}]
  <2>1. r \in GeoCalls /\ r.pc = "read"
    BY <1>1 DEF GeoCalls, NoGeoCall
  <2>2. caller' = [caller EXCEPT ![c] = r] /\ geo' = [geo EXCEPT ![x] = caller[c].at[2]]
    BY <1>4 DEF GeocodeWrites
  <2> HIDE DEF r
  <2>3. caller' \in [GeoCallers -> GeoCalls] /\ \A d \in GeoCallers : caller'[d] = IF d = c THEN r ELSE caller[d]
    BY <2>1, <2>2 DEF GeoInv
  <2>4. geo' \in [Places -> Spots \cup {"none"}] /\ PlacesMatch'
    BY <1>1, <1>2, <1>4, <2>2 DEF GeoInv, PlacesMatch
  <2> QED BY <1>1, <2>1, <2>3, <2>4 DEF GeoInv
<1> QED BY <1>3, <1>4

\* A photo gets its one position, or its row goes, and the city with it.
LEMMA EventsKeep ==
    ASSUME PositionsStay, GeoInv, NEW x \in Places, NEW to \in Spots \cup {"none", "gone"}, PlaceEvent(x, to) PROVE GeoInv'
<1>1. /\ gps' = [gps EXCEPT ![x] = to] /\ UNCHANGED caller /\ (to = "gone" \/ (gps[x] = "none" /\ to # "none"))
      /\ geo' = IF to = "gone" THEN [geo EXCEPT ![x] = "none"] ELSE geo
  BY DEF PlaceEvent, PositionsStay
<1>2. gps' \in [Places -> Positions] /\ geo' \in [Places -> Spots \cup {"none"}]
  BY <1>1 DEF GeoInv, Positions
<1>3. PlacesMatch'
  BY <1>1 DEF GeoInv, PlacesMatch
<1>4. ASSUME NEW c \in GeoCallers, caller'[c].pc = "write"
      PROVE  caller'[c].at # <<>> /\ gps'[caller'[c].at[1]] \in {caller'[c].at[2], "gone"}
  <2> DEFINE y == caller[c].at[1]
  <2>1. caller[c].at # <<>> /\ y \in Places /\ caller[c].at[2] \in Spots /\ gps[y] \in {caller[c].at[2], "gone"}
    BY <1>1, <1>4 DEF GeoInv, GeoCalls
  <2>2. y = x => to = "gone"
    BY <1>1, <2>1 DEF Spots, PlaceEvent
  <2> QED BY <1>1, <2>1, <2>2 DEF GeoInv
<1> QED BY <1>1, <1>2, <1>3, <1>4 DEF GeoInv

LEMMA GeoRestartKeeps == ASSUME GeoInv, NEW upgraded \in BOOLEAN, GeoRestart(upgraded) PROVE GeoInv'
<1>1. caller' \in [GeoCallers -> GeoCalls] /\ (\A c \in GeoCallers : caller'[c].pc # "write") /\ UNCHANGED gps
  BY CallsAreRecords DEF GeoRestart, AfterLoop
<1>2. geo' \in [Places -> Spots \cup {"none"}] /\ PlacesMatch'
  BY <1>1 DEF GeoRestart, regeocodeIfStale, GeoInv, PlacesMatch
<1> QED BY <1>1, <1>2 DEF GeoInv

LEMMA GeoSteps == ASSUME PositionsStay PROVE GeoInv /\ [GeNext]_geVars => GeoInv'
<1>1. SUFFICES ASSUME GeoInv, [GeNext]_geVars PROVE GeoInv'
  OBVIOUS
<1>2. ASSUME NEW c \in GeoCallers, NEW pc \in {"idle", "query", "read", "ended", "dead"}, UNCHANGED <<gps, geo>>,
             caller' = [caller EXCEPT ![c] = NoGeoCall(pc)]
      PROVE  GeoInv'
  BY <1>1, <1>2, CallKeeps, CallsAreRecords
<1>3. ASSUME NEW c \in GeoCallers, GeoCalled(c) PROVE GeoInv'
  BY <1>2, <1>3 DEF GeoCalled
<1>4. ASSUME NEW c \in GeoCallers, GeoQuery(c) PROVE GeoInv'
  <2>1. CASE GeoPending = {}
    BY <1>2, <1>4, <2>1 DEF GeoQuery
  <2>2. CASE GeoPending # {}
    <3>1. PICK ids \in SUBSET GeoPending : caller' = [caller EXCEPT ![c] = [NoGeoCall("read") EXCEPT !.ids = ids]]
      BY <1>4, <2>2 DEF GeoQuery
    <3> DEFINE r == [NoGeoCall("read") EXCEPT !.ids = ids]
    <3>2. r \in GeoCalls /\ r.pc = "read"
      BY DEF GeoCalls, NoGeoCall, GeoPending
    <3>3. UNCHANGED <<gps, geo>> /\ caller' = [caller EXCEPT ![c] = r]
      BY <1>4, <3>1 DEF GeoQuery
    <3> HIDE DEF r
    <3> QED BY <1>1, <3>2, <3>3, CallKeeps
  <2> QED BY <2>1, <2>2
<1>5. ASSUME NEW c \in GeoCallers, GeoLoops(c) \/ GeoError(c) PROVE GeoInv'
  BY <1>2, <1>5 DEF GeoLoops, GeoError, Fails
<1>6. ASSUME NEW x \in Places, PlaceTrashed(x) PROVE GeoInv'
  BY <1>1, <1>6 DEF PlaceTrashed, GeoInv, PlacesMatch
<1>7. CASE UNCHANGED geVars
  BY <1>1, <1>7 DEF geVars, GeoInv, PlacesMatch
<1> QED BY <1>1, <1>3, <1>4, <1>5, <1>6, <1>7, ReadsKeep, WritesKeep, EventsKeep, GeoRestartKeeps DEF GeNext, GeRuns

-----------------------------------------------------------------------------
(* The subscriber to the message bus.                                          *)

\* No path is filled again before the event of its deletion is handled.
EventsAreTimely == ~Recreates

BusPaths == BusFiles \cup BusFolders
Messages == [name : {"deleted", "other"}, paths : Seq(BusPaths)]
Subscriptions == [pc : {"dial", "read", "sleep", "remove", "prune"}, backoff : InitialBackoff..MaxBackoff, paths : Seq(BusPaths)]

\* The files whose deletion is told by what was sent, or is at hand.
Announced(msgs, paths) == Named(paths) \cup {f \in BusFiles : \E i \in 1..Len(msgs) : msgs[i].name = "deleted" /\ f \in Named(msgs[i].paths)}

BusTyped ==
    /\ there \subseteq BusFiles /\ listed \subseteq BusFiles /\ unheard \subseteq BusFiles
    /\ wire \in Seq(Messages) /\ sub \in Subscriptions
    /\ sub.pc \in {"remove", "prune"} <=> sub.paths # <<>>

\* A row whose file is gone will be cleaned up, unless nobody heard of it; and what is
\* told of is gone.
BusInv ==
    /\ BusTyped /\ wrongly = {}
    /\ \A f \in listed \ there : f \in unheard \cup Announced(wire, sub.paths) \/ FolderOf[f] \in Dotted
    /\ there \cap Announced(wire, sub.paths) = {}

LEMMA NamedIn == ASSUME NEW paths \in Seq(BusPaths)
                 PROVE  /\ Named(paths) \subseteq BusFiles
                        /\ paths = <<>> => Named(paths) = {}
                        /\ paths # <<>> => /\ Head(paths) \in BusPaths /\ Tail(paths) \in Seq(BusPaths) /\ Len(paths) > 0
                                           /\ Named(paths) = Under(Head(paths)) \cup Named(Tail(paths))
                                           /\ (Len(paths) = 1 <=> Tail(paths) = <<>>)
<1>1. Named(paths) \subseteq BusFiles
  BY DEF Named, Under
<1>2. paths = <<>> => Named(paths) = {}
  BY DEF Named
<1>3. ASSUME paths # <<>> PROVE /\ Head(paths) \in BusPaths /\ Tail(paths) \in Seq(BusPaths) /\ Len(paths) > 0
                                /\ (Len(paths) = 1 <=> Tail(paths) = <<>>)
                                /\ Head(paths) = paths[1] /\ Len(Tail(paths)) = Len(paths) - 1
                                /\ \A k \in 1..(Len(paths) - 1) : Tail(paths)[k] = paths[k + 1]
  <2>1. /\ Head(paths) \in BusPaths /\ Tail(paths) \in Seq(BusPaths) /\ Len(paths) \in Nat /\ Len(paths) > 0
        /\ Head(paths) = paths[1] /\ Len(Tail(paths)) = Len(paths) - 1
        /\ \A k \in 1..(Len(paths) - 1) : Tail(paths)[k] = paths[k + 1]
    BY <1>3
  <2>2. \A q \in Seq(BusPaths) : Len(q) = 0 <=> q = <<>>
    OBVIOUS
  <2>3. Len(Tail(paths)) = 0 <=> Tail(paths) = <<>>
    BY <2>1, <2>2
  <2>4. Len(paths) = 1 <=> Len(Tail(paths)) = 0
    BY <2>1
  <2>5. Len(paths) = 1 <=> Tail(paths) = <<>>
    BY ONLY <2>3, <2>4
  <2> QED BY ONLY <2>1, <2>5
<1>4. ASSUME paths # <<>> PROVE Named(paths) = Under(Head(paths)) \cup Named(Tail(paths))
  <2>1. DOMAIN paths = 1..Len(paths) /\ DOMAIN Tail(paths) = 1..(Len(paths) - 1) /\ Len(paths) \in Nat
    BY <1>3, <1>4
  <2>2. ASSUME NEW f \in Named(paths) PROVE f \in Under(Head(paths)) \cup Named(Tail(paths))
    <3>1. PICK k \in 1..Len(paths) : f \in Under(paths[k])
      BY <2>1 DEF Named
    <3>2. CASE k = 1
      BY <1>3, <1>4, <3>1, <3>2
    <3>3. CASE k # 1
      <4>1. k - 1 \in 1..(Len(paths) - 1) /\ Tail(paths)[k - 1] = paths[k]
        BY <1>3, <1>4, <2>1, <3>3
      <4> QED BY <2>1, <3>1, <4>1 DEF Named
    <3> QED BY <3>2, <3>3
  <2>3. Under(Head(paths)) \subseteq Named(paths)
    BY <1>3, <1>4, <2>1 DEF Named
  <2>4. Named(Tail(paths)) \subseteq Named(paths)
    <3>1. \A k \in 1..(Len(paths) - 1) : k + 1 \in 1..Len(paths) /\ Tail(paths)[k] = paths[k + 1]
      BY <1>3, <1>4, <2>1
    <3> QED BY <2>1, <3>1 DEF Named
  <2> QED BY <2>2, <2>3, <2>4
<1> QED BY <1>1, <1>2, <1>3, <1>4

\* What is told of once a message was sent, or read.
LEMMA SentIsTold == ASSUME NEW msgs \in Seq(Messages), NEW m \in Messages, NEW paths \in Seq(BusPaths)
              PROVE  /\ Append(msgs, m) \in Seq(Messages)
                     /\ Announced(Append(msgs, m), paths) = Announced(msgs, paths) \cup (IF m.name = "deleted" THEN Named(m.paths) ELSE {})
<1>1. /\ Append(msgs, m) \in Seq(Messages) /\ Len(Append(msgs, m)) = Len(msgs) + 1 /\ Len(msgs) \in Nat
      /\ Append(msgs, m)[Len(msgs) + 1] = m /\ \A i \in 1..Len(msgs) : Append(msgs, m)[i] = msgs[i]
  OBVIOUS
<1>2. Named(m.paths) \subseteq BusFiles
  BY NamedIn DEF Messages
<1> DEFINE a == Append(msgs, m)
           T == Announced(a, paths)
           U == Announced(msgs, paths) \cup (IF m.name = "deleted" THEN Named(m.paths) ELSE {})
<1>3. a \in Seq(Messages) /\ Len(a) = Len(msgs) + 1 /\ Len(msgs) \in Nat /\ a[Len(msgs) + 1] = m
      /\ \A i \in 1..Len(msgs) : a[i] = msgs[i]
  BY <1>1
<1> HIDE DEF a
<1>4. ASSUME NEW f \in T PROVE f \in U
  <2>1. CASE f \in Named(paths)
    BY <2>1 DEF Announced
  <2>2. CASE f \notin Named(paths)
    <3>1. PICK i \in 1..Len(a) : a[i].name = "deleted" /\ f \in Named(a[i].paths) /\ f \in BusFiles
      BY <2>2 DEF Announced
    <3>2. i = Len(msgs) + 1 \/ i \in 1..Len(msgs)
      BY <1>3
    <3> QED BY <1>3, <3>1, <3>2 DEF Announced
  <2> QED BY <2>1, <2>2
<1>5. ASSUME NEW f \in U PROVE f \in T
  <2>1. CASE f \in Named(paths)
    BY <2>1 DEF Announced
  <2>2. ASSUME NEW i \in 1..Len(msgs), f \in BusFiles, msgs[i].name = "deleted", f \in Named(msgs[i].paths) PROVE f \in T
    <3>1. i \in 1..Len(a) /\ a[i] = msgs[i]
      BY <1>3
    <3> QED BY <2>2, <3>1 DEF Announced
  <2>3. CASE m.name = "deleted" /\ f \in Named(m.paths)
    <3>1. Len(msgs) + 1 \in 1..Len(a)
      BY <1>3
    <3> QED BY <1>2, <1>3, <2>3, <3>1 DEF Announced
  <2> QED BY <2>1, <2>2, <2>3 DEF Announced
<1> QED BY <1>3, <1>4, <1>5 DEF a

LEMMA ReadIsTold == ASSUME NEW msgs \in Seq(Messages), msgs # <<>>
              PROVE  /\ Head(msgs) \in Messages /\ Tail(msgs) \in Seq(Messages)
                     /\ Announced(Tail(msgs), IF Head(msgs).name = "deleted" THEN Head(msgs).paths ELSE <<>>) = Announced(msgs, <<>>)
<1>1. /\ Head(msgs) \in Messages /\ Tail(msgs) \in Seq(Messages) /\ Len(msgs) \in Nat /\ Len(msgs) > 0
      /\ Head(msgs) = msgs[1] /\ Len(Tail(msgs)) = Len(msgs) - 1
      /\ \A i \in 1..(Len(msgs) - 1) : Tail(msgs)[i] = msgs[i + 1]
  OBVIOUS
<1> DEFINE t == Tail(msgs)
           h == Head(msgs)
           now == IF h.name = "deleted" THEN h.paths ELSE <<>>
<1>2. Named(<<>>) = {} /\ Named(h.paths) \subseteq BusFiles
  BY <1>1, NamedIn DEF Messages, Named
<1>3. Named(now) = IF h.name = "deleted" THEN Named(h.paths) ELSE {}
  BY <1>2
<1>4. h = msgs[1] /\ Len(t) = Len(msgs) - 1 /\ \A i \in 1..(Len(msgs) - 1) : t[i] = msgs[i + 1]
  BY <1>1
<1> HIDE DEF t, h, now
<1>5. ASSUME NEW f \in Announced(msgs, <<>>) PROVE f \in Announced(t, now)
  <2>1. PICK i \in 1..Len(msgs) : msgs[i].name = "deleted" /\ f \in Named(msgs[i].paths) /\ f \in BusFiles
    BY <1>2 DEF Announced
  <2>2. CASE i = 1
    BY <1>3, <1>4, <2>1, <2>2 DEF Announced
  <2>3. CASE i # 1
    <3>1. i - 1 \in 1..Len(t) /\ t[i - 1] = msgs[i]
      BY <1>1, <1>4, <2>3
    <3> QED BY <2>1, <3>1 DEF Announced
  <2> QED BY <2>2, <2>3
<1>6. ASSUME NEW f \in Announced(t, now) PROVE f \in Announced(msgs, <<>>)
  <2>1. CASE f \in Named(now)
    <3>1. h.name = "deleted" /\ f \in Named(h.paths) /\ f \in BusFiles /\ 1 \in 1..Len(msgs)
      BY <1>1, <1>2, <1>3, <2>1
    <3> QED BY <1>4, <3>1 DEF Announced
  <2>2. CASE f \notin Named(now)
    <3>1. PICK i \in 1..Len(t) : t[i].name = "deleted" /\ f \in Named(t[i].paths) /\ f \in BusFiles
      BY <2>2 DEF Announced
    <3>2. i + 1 \in 1..Len(msgs) /\ t[i] = msgs[i + 1]
      BY <1>1, <1>4
    <3> QED BY <3>1, <3>2 DEF Announced
  <2> QED BY <2>1, <2>2
<1>7. Announced(t, now) = Announced(msgs, <<>>)
  BY <1>5, <1>6
<1> QED BY <1>1, <1>7 DEF t, h, now

LEMMA BusStarts == BuInit => BusInv
<1>1. SUFFICES ASSUME BuInit PROVE BusInv
  OBVIOUS
<1>2. Announced(wire, sub.paths) = {}
  BY <1>1 DEF BuInit, Announced, Named
<1>3. sub \in Subscriptions /\ sub.paths = <<>> /\ sub.pc = "dial"
  BY <1>1, Backoffs DEF BuInit, Subscriptions
<1>4. wire \in Seq(Messages)
  BY <1>1 DEF BuInit
<1> QED BY <1>1, <1>2, <1>3, <1>4 DEF BuInit, BusInv, BusTyped

\* The subscriber's own progress: what is told of stays.
LEMMA SubscriberKeeps ==
    ASSUME BusInv, UNCHANGED <<there, listed, unheard, wrongly>>, NEW s \in Subscriptions, sub' = s,
           wire' \in Seq(Messages), s.pc \in {"remove", "prune"} <=> s.paths # <<>>,
           Announced(wire', s.paths) \subseteq Announced(wire, sub.paths),
           \A f \in listed \ there : f \in Announced(wire, sub.paths) => f \in Announced(wire', s.paths) \/ FolderOf[f] \in Dotted
    PROVE  BusInv'
<1>1. BusTyped'
  BY DEF BusInv, BusTyped
<1>2. Announced(wire, sub.paths)' = Announced(wire', s.paths)
  BY DEF Announced
<1> QED BY <1>1, <1>2 DEF BusInv

LEMMA WaitsKeep == ASSUME BusInv, DialSucceeds \/ DialFails \/ Slept PROVE BusInv'
<1>1. sub \in Subscriptions /\ nextBackoff(sub.backoff) \in InitialBackoff..MaxBackoff
  BY Backoffs DEF BusInv, BusTyped, Subscriptions, nextBackoff
<1>2. PICK pc \in {"dial", "read", "sleep"}, b \in InitialBackoff..MaxBackoff : sub' = [sub EXCEPT !.pc = pc, !.backoff = b]
  <2>1. CASE DialSucceeds
    <3>1. sub' = [sub EXCEPT !.pc = "read", !.backoff = InitialBackoff]
      BY <2>1 DEF DialSucceeds
    <3>2. InitialBackoff \in InitialBackoff..MaxBackoff
      BY Backoffs
    <3> QED BY <3>1, <3>2
  <2>2. CASE DialFails
    <3>1. sub' = [sub EXCEPT !.pc = "sleep", !.backoff = sub.backoff] /\ sub.backoff \in InitialBackoff..MaxBackoff
      BY <1>1, <2>2 DEF DialFails, Subscriptions
    <3> QED BY <3>1
  <2>3. CASE Slept
    BY <1>1, <2>3 DEF Slept
  <2> QED BY <2>1, <2>2, <2>3
<1>3. sub' \in Subscriptions /\ sub'.paths = sub.paths /\ sub'.pc = pc /\ sub.pc \notin {"remove", "prune"}
  BY <1>1, <1>2 DEF Subscriptions, DialSucceeds, DialFails, Slept
<1>4. UNCHANGED <<there, listed, unheard, wrongly, wire>>
  BY DEF DialSucceeds, DialFails, Slept
<1> QED BY <1>3, <1>4, SubscriberKeeps DEF BusInv, BusTyped

\* What was on the wire is now told to nobody.
LEMMA LossKeeps == ASSUME BusInv, ConnectionLost PROVE BusInv'
<1>1. /\ sub \in Subscriptions /\ sub.pc = "read" /\ sub.paths = <<>> /\ wire \in Seq(Messages)
      /\ sub' = [sub EXCEPT !.pc = "sleep"] /\ wire' = <<>> /\ UNCHANGED <<there, listed, wrongly>>
      /\ unheard' = unheard \cup UNION {Named(wire[i].paths) : i \in DOMAIN wire}
  BY DEF ConnectionLost, BusInv, BusTyped
<1>2. sub' \in Subscriptions /\ sub'.pc = "sleep" /\ sub'.paths = <<>>
  BY <1>1 DEF Subscriptions
<1>3. Announced(wire, sub.paths) \subseteq unheard'
  BY <1>1 DEF Announced, Named
<1>4. Announced(wire, sub.paths)' = {}
  BY <1>1, <1>2 DEF Announced, Named
<1>5. unheard' \subseteq BusFiles
  <2>1. \A i \in DOMAIN wire : Named(wire[i].paths) \subseteq BusFiles
    <3>1. \A i \in DOMAIN wire : wire[i] \in Messages
      BY <1>1
    <3>2. \A i \in DOMAIN wire : wire[i].paths \in Seq(BusPaths)
      BY <3>1 DEF Messages
    <3> QED BY <3>2, NamedIn
  <2> QED BY <1>1, <2>1 DEF BusInv, BusTyped
<1>6. unheard \subseteq unheard'
  BY <1>1
<1>7. BusTyped'
  BY <1>1, <1>2, <1>5 DEF BusInv, BusTyped
<1> QED BY <1>1, <1>3, <1>4, <1>6, <1>7 DEF BusInv

LEMMA ReadKeeps == ASSUME BusInv, ReadsMessage PROVE BusInv'
<1> DEFINE now == IF Head(wire).name = "deleted" THEN Head(wire).paths ELSE <<>>
           s == [sub EXCEPT !.pc = IF now = <<>> THEN "read" ELSE "remove", !.paths = now]
<1>1. sub \in Subscriptions /\ sub.pc = "read" /\ sub.paths = <<>> /\ wire \in Seq(Messages) /\ wire # <<>> /\ wire' = Tail(wire)
      /\ UNCHANGED <<there, listed, unheard, wrongly>> /\ sub' = s
  BY DEF ReadsMessage, BusInv, BusTyped
<1>2. Head(wire) \in Messages /\ wire' \in Seq(Messages) /\ Announced(wire', now) = Announced(wire, sub.paths)
  BY <1>1, ReadIsTold
<1>3. now \in Seq(BusPaths)
  BY <1>2 DEF Messages
<1> HIDE DEF now
<1>4. s \in Subscriptions /\ s.paths = now /\ (s.pc \in {"remove", "prune"} <=> s.paths # <<>>)
  BY <1>1, <1>3 DEF Subscriptions
<1> HIDE DEF s
<1> QED BY <1>1, <1>2, <1>4, SubscriberKeeps

\* A path of which everything was cleaned up, or that is skipped.
LEMMA NextPathIs ==
    ASSUME BusInv, sub.pc \in {"remove", "prune"}
    PROVE  /\ sub.paths \in Seq(BusPaths) /\ sub.paths # <<>>
           /\ NextPath \in Subscriptions /\ NextPath.paths = Tail(sub.paths)
           /\ (NextPath.pc \in {"remove", "prune"} <=> NextPath.paths # <<>>)
           /\ Announced(wire, sub.paths) = Announced(wire, NextPath.paths) \cup Under(Head(sub.paths))
<1>1. sub \in Subscriptions /\ sub.paths \in Seq(BusPaths) /\ sub.paths # <<>>
  BY DEF BusInv, BusTyped, Subscriptions
<1>2. Tail(sub.paths) \in Seq(BusPaths) /\ (Len(sub.paths) = 1 <=> Tail(sub.paths) = <<>>)
      /\ Named(sub.paths) = Under(Head(sub.paths)) \cup Named(Tail(sub.paths))
  BY <1>1, NamedIn
<1>3. NextPath \in Subscriptions /\ NextPath.paths = Tail(sub.paths) /\ NextPath.pc = IF Len(sub.paths) = 1 THEN "read" ELSE "remove"
  BY <1>1, <1>2 DEF NextPath, Subscriptions
<1> QED BY <1>1, <1>2, <1>3 DEF Announced

LEMMA SkipKeeps == ASSUME BusInv, SkipsPath PROVE BusInv'
<1>1. sub.pc = "remove" /\ sub' = NextPath /\ UNCHANGED <<there, listed, wire, unheard, wrongly>> /\ Head(sub.paths) \in Dotted
  BY DEF SkipsPath, shouldHandleDeletedPath
<1>2. /\ NextPath \in Subscriptions /\ (NextPath.pc \in {"remove", "prune"} <=> NextPath.paths # <<>>)
      /\ Announced(wire, sub.paths) = Announced(wire, NextPath.paths) \cup Under(Head(sub.paths))
  BY <1>1, NextPathIs
<1>3. \A f \in Under(Head(sub.paths)) : FolderOf[f] \in Dotted
  BY <1>1, FoldersAreDotted DEF Under
<1>4. wire' = wire /\ wire \in Seq(Messages)
  BY <1>1 DEF BusInv, BusTyped
<1> QED BY <1>1, <1>2, <1>3, <1>4, SubscriberKeeps

LEMMA RemoveKeeps == ASSUME BusInv, RemovesRow PROVE BusInv'
<1>1. /\ sub \in Subscriptions /\ sub.pc = "remove" /\ sub' = [sub EXCEPT !.pc = "prune"] /\ UNCHANGED <<there, wire, unheard>>
      /\ listed' = listed \ {Head(sub.paths)} /\ wrongly' = wrongly \cup ({Head(sub.paths)} \cap listed \cap there)
  BY DEF RemovesRow, BusInv, BusTyped
<1>2. sub' \in Subscriptions /\ sub'.pc = "prune" /\ sub'.paths = sub.paths
  BY <1>1 DEF Subscriptions
<1>3. Under(Head(sub.paths)) \subseteq Announced(wire, sub.paths)
  BY <1>1, NextPathIs
<1>4. {Head(sub.paths)} \cap listed \cap there = {}
  BY <1>3 DEF BusInv, BusTyped, Under
<1>5. Announced(wire, sub.paths)' = Announced(wire, sub.paths)
  BY <1>1, <1>2 DEF Announced
<1>6. BusTyped'
  BY <1>1, <1>2 DEF BusInv, BusTyped
<1> QED BY <1>1, <1>4, <1>5, <1>6 DEF BusInv

LEMMA PruneKeeps == ASSUME BusInv, PrunesUnder PROVE BusInv'
<1>1. /\ sub.pc = "prune" /\ sub' = NextPath /\ UNCHANGED <<there, wire, unheard, wrongly>>
      /\ listed' = listed \ (Under(Head(sub.paths)) \ there)
  BY DEF PrunesUnder
<1>2. /\ NextPath \in Subscriptions /\ (NextPath.pc \in {"remove", "prune"} <=> NextPath.paths # <<>>)
      /\ Announced(wire, sub.paths) = Announced(wire, NextPath.paths) \cup Under(Head(sub.paths))
  BY <1>1, NextPathIs
<1>3. Announced(wire, sub.paths)' = Announced(wire, NextPath.paths)
  BY <1>1 DEF Announced
<1>4. BusTyped'
  BY <1>1, <1>2 DEF BusInv, BusTyped
<1> QED BY <1>1, <1>2, <1>3, <1>4 DEF BusInv

\* What is deleted is told of at once, or nobody hears of it.
LEMMA DeletionKeeps == ASSUME BusInv, NEW paths \in Requests, Deleted(paths) PROVE BusInv'
<1>1. paths \in Seq(BusPaths)
  <2>1. ASSUME NEW p \in BusPaths, paths = <<p>> PROVE paths \in Seq(BusPaths)
    BY <2>1
  <2>2. ASSUME NEW p \in BusPaths, NEW q \in BusPaths, paths = <<p, q>> PROVE paths \in Seq(BusPaths)
    BY <2>2
  <2> QED BY <2>1, <2>2 DEF Requests, BusPaths
<1> DEFINE taken == Named(paths) \cap there
           m == [name |-> "deleted", paths |-> paths]
<1>2. there' = there \ taken /\ UNCHANGED <<listed, sub, wrongly>> /\ taken \subseteq BusFiles
  BY <1>1, NamedIn DEF Deleted
<1>3. wire \in Seq(Messages) /\ sub.paths \in Seq(BusPaths) /\ m \in Messages
  BY <1>1 DEF BusInv, BusTyped, Subscriptions, Messages
<1>4. m.name = "deleted" /\ m.paths = paths
  OBVIOUS
<1>5. CASE sub.pc \in {"read", "remove", "prune"}
  <2>1. wire' = Append(wire, m) /\ UNCHANGED unheard
    BY <1>5 DEF Deleted
  <2> HIDE DEF m
  <2>2. wire' \in Seq(Messages) /\ Announced(wire', sub.paths) = Announced(wire, sub.paths) \cup Named(paths)
    BY <1>3, <1>4, <2>1, SentIsTold
  <2>3. Announced(wire, sub.paths)' = Announced(wire', sub.paths)
    BY <1>2 DEF Announced
  <2>4. BusTyped'
    BY <1>2, <2>1, <2>2 DEF BusInv, BusTyped
  <2> QED BY <1>2, <2>1, <2>2, <2>3, <2>4 DEF BusInv
<1>6. CASE sub.pc \notin {"read", "remove", "prune"}
  <2>1. wire' = wire /\ unheard' = unheard \cup taken
    BY <1>6 DEF Deleted
  <2>2. Announced(wire, sub.paths)' = Announced(wire, sub.paths)
    BY <1>2, <2>1 DEF Announced
  <2>3. BusTyped'
    BY <1>2, <2>1 DEF BusInv, BusTyped
  <2> QED BY <1>2, <2>1, <2>2, <2>3 DEF BusInv
<1> QED BY <1>5, <1>6

LEMMA OtherKeeps == ASSUME BusInv, OtherEvent PROVE BusInv'
<1>1. PICK f \in BusFiles : wire' = Append(wire, [name |-> "other", paths |-> <<f>>])
  BY DEF OtherEvent
<1> DEFINE m == [name |-> "other", paths |-> <<f>>]
<1>2. m \in Messages /\ m.name = "other" /\ wire \in Seq(Messages) /\ sub \in Subscriptions /\ sub.paths \in Seq(BusPaths)
  BY DEF BusInv, BusTyped, Subscriptions, Messages, BusPaths
<1>3. wire' = Append(wire, m)
  BY <1>1
<1> HIDE DEF m
<1>4. wire' \in Seq(Messages) /\ Announced(wire', sub.paths) = Announced(wire, sub.paths)
  <2>1. /\ Append(wire, m) \in Seq(Messages)
        /\ Announced(Append(wire, m), sub.paths)
             = Announced(wire, sub.paths) \cup (IF m.name = "deleted" THEN Named(m.paths) ELSE {})
    BY ONLY <1>2, SentIsTold
  <2> QED BY ONLY <1>2, <1>3, <2>1
<1>5. UNCHANGED <<there, listed, sub, unheard, wrongly>>
  BY DEF OtherEvent
<1> QED BY <1>2, <1>4, <1>5, SubscriberKeeps DEF BusInv, BusTyped

\* A file that comes back is not one that is told to be gone.
LEMMA PutBackKeeps == ASSUME EventsAreTimely, BusInv, NEW f \in BusFiles, PutBack(f) PROVE BusInv'
<1>1. there' = there \cup {f} /\ listed' = listed \cup {f} /\ unheard' = unheard \ {f} /\ UNCHANGED <<sub, wire, wrongly>>
  BY DEF PutBack
<1>2. f \notin Announced(wire, sub.paths)
  BY DEF PutBack, EventsAreTimely, Announced, BusInv, BusTyped
<1>3. Announced(wire, sub.paths)' = Announced(wire, sub.paths)
  BY <1>1 DEF Announced
<1>4. BusTyped'
  BY <1>1 DEF BusInv, BusTyped
<1> QED BY <1>1, <1>2, <1>3, <1>4 DEF BusInv

LEMMA RescanKeeps == ASSUME BusInv, Rescans \/ UNCHANGED buVars PROVE BusInv'
<1>1. Announced(wire, sub.paths)' = Announced(wire, sub.paths)
  BY DEF Announced, Rescans, buVars
<1> QED BY <1>1 DEF Rescans, buVars, BusInv, BusTyped

LEMMA BusSteps == ASSUME EventsAreTimely, BusInv, [BuNext]_buVars PROVE BusInv'
BY WaitsKeep, LossKeeps, ReadKeeps, SkipKeeps, RemoveKeeps, PruneKeeps, DeletionKeeps, OtherKeeps, PutBackKeeps, RescanKeeps
   DEF BuNext

LEMMA BusInvSuffices == BusInv => BuTypeOK /\ DeletionsAreHeard
<1>1. SUFFICES ASSUME BusInv PROVE BuTypeOK /\ DeletionsAreHeard
  OBVIOUS
<1>2. BuTypeOK
  BY <1>1 DEF BusInv, BusTyped, BuTypeOK, Subscriptions
<1>3. ASSUME sub.pc = "read", wire = <<>> PROVE Announced(wire, sub.paths) = {}
  BY <1>1, <1>3 DEF BusInv, BusTyped, Announced, Named
<1> QED BY <1>1, <1>2, <1>3 DEF BusInv, DeletionsAreHeard

-----------------------------------------------------------------------------
(* The watcher.  First the tree.                                                *)

TreeDirs == Folders \cup {Top}

LEMMA UpToBasics ==
    /\ \A x \in Nodes : x \in UpTo(x) /\ UpTo(x) \subseteq Nodes
    /\ \A x, a, b \in Nodes : a \in UpTo(b) /\ b \in UpTo(x) => a \in UpTo(x)
    /\ \A x \in Nodes \ {Top} : ParentOf[x] \in TreeDirs /\ ParentOf[x] \in Nodes
                                /\ UpTo(x) = {x} \cup UpTo(ParentOf[x])
    /\ \A x \in TreeDirs : UpTo(x) \subseteq TreeDirs
<1>1. \A x \in Nodes : x \in UpTo(x) /\ UpTo(x) \subseteq Nodes
  BY DEF UpTo
<1>2. \A x, a, b \in Nodes : a \in UpTo(b) /\ b \in UpTo(x) => a \in UpTo(x)
  BY DEF UpTo
<1>3. ASSUME NEW x \in Nodes \ {Top}
      PROVE  ParentOf[x] \in TreeDirs /\ ParentOf[x] \in Nodes /\ UpTo(x) = {x} \cup UpTo(ParentOf[x])
  <2>1. x \in Folders \cup Media /\ ParentOf[x] \in TreeDirs /\ ParentOf[x] \in Nodes
    BY FoldersAreATree DEF Nodes, TreeDirs
  <2>2. ASSUME NEW a \in UpTo(ParentOf[x]) PROVE a \in UpTo(x)
    BY <2>2 DEF UpTo, Upward
  <2>3. ASSUME NEW a \in UpTo(x), a # x PROVE a \in UpTo(ParentOf[x])
    <3>1. SUFFICES ASSUME NEW S \in Upward, ParentOf[x] \in S PROVE a \in S
      BY <2>3 DEF UpTo
    <3>2. S \cup {x} \in Upward
      BY <3>1 DEF Upward
    <3>3. a \in S \cup {x}
      BY <2>3, <3>2 DEF UpTo
    <3> QED BY <2>3, <3>3
  <2> QED BY <1>1, <2>1, <2>2, <2>3
<1>4. ASSUME NEW x \in TreeDirs PROVE UpTo(x) \subseteq TreeDirs
  <2>1. TreeDirs \in Upward
    BY FoldersAreATree DEF Upward, TreeDirs, Nodes
  <2> QED BY <2>1 DEF UpTo
<1> QED BY <1>1, <1>2, <1>3, <1>4

\* Everything lies under the root.
LEMMA RootAbove == \A x \in Nodes : Top \in UpTo(x)
<1>1. SUFFICES ASSUME NEW x \in Nodes, NEW S \in Upward, x \in S, Top \notin S PROVE FALSE
  BY DEF UpTo, Nodes
<1>2. \A y \in S : y \in Folders \cup Media /\ ParentOf[y] \in S /\ ParentOf[y] \in Folders
  BY <1>1, FoldersAreATree DEF Upward, Nodes
<1>3. PICK d \in S \cap Folders : ParentOf[d] \notin S \cap Folders
  <2>1. S \cap Folders # {}
    BY <1>1, <1>2
  <2> QED BY <2>1, FoldersAreATree
<1> QED BY <1>2, <1>3

\* Who lies under a folder lies under something in it.
LEMMA StepDown ==
    ASSUME NEW p \in TreeDirs, NEW a \in UpTo(p), a # p
    PROVE  \E c \in Folders : ParentOf[c] = a /\ c \in UpTo(p)
<1>1. SUFFICES ASSUME \A c \in Folders : c \in UpTo(p) => ParentOf[c] # a PROVE FALSE
  OBVIOUS
<1> DEFINE S == UpTo(p) \ {a}
<1>2. p \in Nodes /\ UpTo(p) \subseteq TreeDirs
  BY UpToBasics DEF TreeDirs, Nodes
<1>3. ASSUME NEW y \in S \ {Top} PROVE ParentOf[y] \in S
  <2>1. y \in Folders /\ y \in Nodes \ {Top} /\ y \in UpTo(p)
    BY <1>2, <1>3 DEF TreeDirs, Nodes
  <2>2. ParentOf[y] \in UpTo(y) /\ ParentOf[y] \in Nodes
    BY <2>1, UpToBasics
  <2> QED BY <1>1, <1>2, <2>1, <2>2, UpToBasics
<1>4. S \in Upward /\ p \in S
  BY <1>2, <1>3, UpToBasics DEF Upward
<1> QED BY <1>4 DEF UpTo

-----------------------------------------------------------------------------
(* The invariant.                                                              *)

WalkSteps == (TreeDirs \X {"add", "read"}) \cup Folders
Trackers ==
    [pc : {"idle", "register", "watch", "index"}, covered : BOOLEAN, worth : BOOLEAN, todo : SUBSET WalkSteps, read : SUBSET Folders]
RescanStates == {r \in [on : BOOLEAN, todo : SUBSET TreeDirs, cool : BOOLEAN] : ~(r.on /\ r.cool)}

WatchTyped ==
    /\ present \subseteq Nodes /\ Top \in present /\ watched \subseteq TreeDirs \cap present /\ Top \in watched
    /\ events \in Seq(Folders \cup Media) /\ enqueued \subseteq Media
    /\ tracker \in [Folders -> Trackers] /\ rescan \in RescanStates
    /\ refused \subseteq present /\ blind \subseteq present

Waiting(x) == \E i \in 1..Len(events) : events[i] = x

\* A folder's event comes once, before its goroutine.
EventsOnce ==
    /\ \A i \in 1..Len(events) : events[i] \in present
    /\ \A i, j \in 1..Len(events) : events[i] = events[j] => i = j
    /\ \A d \in Folders : Waiting(d) => tracker[d].pc = "idle"

\* A goroutine is about what lies under its folder, and its catch-up scan has read what
\* is there or has yet to come by.
TrackersFit ==
    \A d \in Folders :
        /\ tracker[d].pc # "idle" => d \in present
        /\ tracker[d].pc # "watch" => ~tracker[d].covered
        /\ tracker[d].pc # "index" => tracker[d].read = {}
        /\ tracker[d].pc = "watch" =>
              \A x \in TreeDirs, s \in {"add", "read"} : <<x, s>> \in tracker[d].todo => x \in present /\ d \in UpTo(x)
        /\ tracker[d].pc = "index" =>
              \A p \in Folders \cap present : d \in UpTo(p) => p \in tracker[d].read \/ tracker[d].todo \cap UpTo(p) # {}

\* A folder that has its watch or is left to the daily scan; any other one has its event,
\* its goroutine or a walk to come, or lies in such a one.
Served(d) == d \in watched \cup refused \cup blind
WatchComes(d) ==
    \/ Waiting(d) \/ tracker[d].pc = "register" \/ ~Served(ParentOf[d])
    \/ \E e \in Folders : /\ tracker[e].pc = "watch"
                          /\ <<d, "add">> \in tracker[e].todo \/ <<ParentOf[d], "read">> \in tracker[e].todo

\* A scan that will come by p: of a goroutine that will not be covered, or the rescan.
Firm(p) ==
    \/ \E e \in Folders \cap UpTo(p) : tracker[e].pc = "watch" /\ ~tracker[e].covered
    \/ \E e \in Folders : tracker[e].pc = "index" /\ tracker[e].todo \cap UpTo(p) # {}
    \/ rescan.on /\ rescan.todo \cap UpTo(p) # {}
Prospective(p) == \E e \in Folders \cap UpTo(p) : (Waiting(e) \/ tracker[e].pc = "register") /\ ~WalkCovered(e)

WatchInv ==
    /\ WatchTyped /\ EventsOnce /\ TrackersFit
    /\ \A x \in present \ {Top} : ParentOf[x] \in present
    /\ \A d \in Folders \cap present : Served(d) \/ WatchComes(d)
    /\ \A f \in Media \cap present : f \in enqueued \cup blind \/ Waiting(f) \/ Firm(ParentOf[f]) \/ Prospective(ParentOf[f])

LEMMA WatchStarts == WaInit => WatchInv
<1>1. SUFFICES ASSUME WaInit PROVE WatchInv
  OBVIOUS
<1>2. WatchTyped
  BY <1>1 DEF WaInit, WatchTyped, Nodes, TreeDirs, NoTracker, NoRescan, Trackers, RescanStates
<1>3. ~\E x : Waiting(x)
  BY <1>1 DEF WaInit, Waiting
<1> QED BY <1>1, <1>2, <1>3, FoldersAreATree DEF WaInit, WatchInv, EventsOnce, TrackersFit, NoTracker

\* What is there lies in what is there.
LEMMA PresentUpward == ASSUME WatchInv, NEW p \in present PROVE UpTo(p) \subseteq present
<1>1. present \in Upward
  BY DEF WatchInv, WatchTyped, Upward
<1> QED BY <1>1 DEF UpTo

\* A file that nobody will hear of appears where a scan has yet to come by.
LEMMA ScanComes ==
    ASSUME WatchInv, NEW p \in Folders \cap present, ~Served(p),
           \A d \in Folders : p \notin tracker[d].read /\ ~tracker[d].covered
    PROVE  Firm(p) \/ Prospective(p)
<1>1. p \in Nodes /\ p \in TreeDirs /\ UpTo(p) \subseteq TreeDirs /\ UpTo(p) \subseteq present /\ p \in UpTo(p)
  BY PresentUpward, UpToBasics DEF Nodes, TreeDirs
<1> DEFINE S == {d \in Folders \cap UpTo(p) : ~Served(d)}
<1>2. PICK q \in S : ParentOf[q] \notin S
  <2>1. S \in SUBSET Folders /\ S # {}
    BY <1>1
  <2> QED BY <2>1, FoldersAreATree
<1>3. q \in Nodes \ {Top} /\ q \in Folders /\ q \in UpTo(p) /\ q \in present /\ ~Served(q)
  BY <1>1, <1>2, FoldersAreATree DEF Nodes
<1>4. ParentOf[q] \in UpTo(q) /\ ParentOf[q] \in TreeDirs /\ ParentOf[q] \in Nodes
  BY <1>3, UpToBasics
<1>5. ParentOf[q] \in UpTo(p) /\ Served(ParentOf[q])
  <2>1. ParentOf[q] \in UpTo(p)
    BY <1>1, <1>3, <1>4, UpToBasics
  <2>2. Served(Top)
    BY DEF WatchInv, WatchTyped, Served
  <2> QED BY <1>2, <1>4, <2>1, <2>2 DEF TreeDirs
<1>6. WatchComes(q)
  BY <1>3 DEF WatchInv
<1>7. CASE Waiting(q) \/ tracker[q].pc = "register"
  <2>1. CASE ~WalkCovered(q)
    BY <1>3, <1>7, <2>1 DEF Prospective
  <2>2. CASE WalkCovered(q)
    <3>1. PICK a \in Folders : a \in UpTo(ParentOf[q]) /\ tracker[a].pc \in {"watch", "index"}
      BY <2>2 DEF WalkCovered, Above
    <3>2. a \in Nodes /\ a \in UpTo(p)
      BY <1>1, <1>4, <1>5, <3>1, UpToBasics DEF Nodes
    <3>3. CASE tracker[a].pc = "watch"
      BY <3>2, <3>3 DEF Firm
    <3>4. CASE tracker[a].pc = "index"
      <4>1. p \in tracker[a].read \/ tracker[a].todo \cap UpTo(p) # {}
        BY <3>2, <3>4 DEF WatchInv, TrackersFit
      <4> QED BY <3>1, <3>4, <4>1 DEF Firm
    <3> QED BY <3>1, <3>3, <3>4
  <2> QED BY <2>1, <2>2
<1>8. ASSUME NEW e \in Folders, tracker[e].pc = "watch",
             <<q, "add">> \in tracker[e].todo \/ <<ParentOf[q], "read">> \in tracker[e].todo
      PROVE  Firm(p)
  <2>1. e \in UpTo(q) \/ e \in UpTo(ParentOf[q])
    BY <1>3, <1>4, <1>8 DEF WatchInv, TrackersFit, TreeDirs
  <2>2. e \in UpTo(p)
    BY <1>1, <1>3, <1>4, <1>5, <1>8, <2>1, UpToBasics DEF Nodes
  <2> QED BY <1>8, <2>2 DEF Firm
<1> QED BY <1>5, <1>6, <1>7, <1>8 DEF WatchComes

-----------------------------------------------------------------------------
(* The steps.                                                                  *)

\* What reads a folder's surroundings reads the folder.
LEMMA ScansReachDown ==
    ASSUME NEW p \in Nodes, NEW q \in Nodes, p \in UpTo(q), Firm(p) \/ Prospective(p) PROVE Firm(q) \/ Prospective(q)
<1>1. UpTo(p) \subseteq UpTo(q)
  BY UpToBasics
<1> QED BY <1>1 DEF Firm, Prospective

\* One file or folder, with what is in it, appears.
LEMMA AppearKeeps ==
    ASSUME ~LateArrivals, WatchInv, NEW x \in Folders \cup Media, NEW below \in SUBSET (Folders \cup Media), Appear(x, below)
    PROVE  WatchInv'
<1> DEFINE p == ParentOf[x]
           new == {x} \cup below
<1>1. /\ x \notin present /\ p \in present /\ (x \in Media => below = {}) /\ new \cap present = {}
      /\ \A y \in below : ParentOf[y] \in new /\ x \in UpTo(ParentOf[y])
      /\ present' = present \cup new
      /\ events' = (IF p \in watched THEN Append(events, x) ELSE events)
      /\ blind' = (IF GivenUp(p) THEN blind \cup new ELSE blind)
      /\ UNCHANGED <<watched, tracker, enqueued, rescan, refused>>
  BY DEF Appear, Above
<1>2. \A d \in Folders : p \notin tracker[d].read /\ ~tracker[d].covered
  BY DEF Appear
<1>3. new \subseteq Nodes \ {Top} /\ x \in Nodes /\ p \in TreeDirs /\ p \in Nodes /\ UpTo(x) = {x} \cup UpTo(p)
  BY UpToBasics, FoldersAreATree DEF Nodes
<1>4. \A y \in new : UpTo(p) \subseteq UpTo(y) /\ x \in UpTo(y) /\ UpTo(y) \subseteq new \cup UpTo(p)
  <2>1. SUFFICES ASSUME NEW y \in new PROVE UpTo(p) \subseteq UpTo(y) /\ x \in UpTo(y) /\ UpTo(y) \subseteq new \cup UpTo(p)
    OBVIOUS
  <2>2. x \in UpTo(y) /\ y \in Nodes
    <3>1. CASE y = x
      BY <1>3, <3>1, UpToBasics
    <3>2. CASE y # x
      <4>1. y \in Nodes \ {Top} /\ x \in UpTo(ParentOf[y])
        BY <1>1, <1>3, <3>2
      <4> QED BY <4>1, UpToBasics
    <3> QED BY <3>1, <3>2
  <2>3. UpTo(p) \subseteq UpTo(y)
    BY <1>3, <2>2, UpToBasics
  <2> DEFINE S == new \cup UpTo(p)
  <2>4. S \in Upward
    <3>1. ASSUME NEW z \in S \ {Top} PROVE ParentOf[z] \in S
      <4>1. CASE z \in UpTo(p)
        <5>1. z \in Nodes \ {Top}
          BY <1>3, <3>1, <4>1, UpToBasics
        <5>2. ParentOf[z] \in Nodes /\ ParentOf[z] \in UpTo(z)
          BY <5>1, UpToBasics
        <5> QED BY <1>3, <4>1, <5>1, <5>2, UpToBasics
      <4>2. CASE z = x
        BY <1>3, <4>2, UpToBasics
      <4>3. CASE z \in below
        BY <1>1, <4>3
      <4> QED BY <3>1, <4>1, <4>2, <4>3
    <3>2. S \subseteq Nodes
      BY <1>3, UpToBasics
    <3> QED BY <3>1, <3>2 DEF Upward
  <2>5. UpTo(y) \subseteq S
    BY <2>4 DEF UpTo
  <2> QED BY <2>2, <2>3, <2>5
<1> HIDE DEF new
<1>5. \A y : Waiting(y)' <=> Waiting(y) \/ (p \in watched /\ y = x)
  <2>1. events \in Seq(Folders \cup Media)
    BY DEF WatchInv, WatchTyped
  <2>2. /\ Len(Append(events, x)) = Len(events) + 1 /\ Append(events, x)[Len(events) + 1] = x /\ Len(events) \in Nat
        /\ \A i \in 1..Len(events) : Append(events, x)[i] = events[i]
    BY <2>1
  <2>3. CASE p \in watched
    <3>1. events' = Append(events, x)
      BY <1>1, <2>3
    <3>2. Len(events') = Len(events) + 1 /\ events'[Len(events) + 1] = x /\ \A i \in 1..Len(events) : events'[i] = events[i]
      BY <2>2, <3>1
    <3>3. 1..Len(events') = 1..Len(events) \cup {Len(events) + 1}
      BY <2>2, <3>2
    <3> QED BY <2>3, <3>2, <3>3 DEF Waiting
  <2>4. CASE p \notin watched
    BY <1>1, <2>4 DEF Waiting
  <2> QED BY <2>3, <2>4
<1>6. WatchTyped'
  <2>1. events' \in Seq(Folders \cup Media)
    BY <1>1 DEF WatchInv, WatchTyped
  <2>2. refused' \subseteq present' /\ blind' \subseteq present'
    BY <1>1 DEF WatchInv, WatchTyped
  <2> QED BY <1>1, <1>3, <2>1, <2>2 DEF WatchInv, WatchTyped
<1>7. ~Waiting(x) /\ (x \in Folders => tracker[x].pc = "idle")
  <2>1. ~Waiting(x)
    BY <1>1 DEF WatchInv, EventsOnce, Waiting
  <2> QED BY <1>1, <2>1 DEF WatchInv, TrackersFit
<1>8. EventsOnce'
  <2>1. CASE p \notin watched
    BY <1>1, <1>5, <2>1 DEF WatchInv, EventsOnce
  <2>2. CASE p \in watched
    <3>1. events' = Append(events, x) /\ events \in Seq(Folders \cup Media)
      BY <1>1, <2>2 DEF WatchInv, WatchTyped
    <3>2. /\ Len(events') = Len(events) + 1 /\ events'[Len(events) + 1] = x /\ Len(events) \in Nat
          /\ \A i \in 1..Len(events) : events'[i] = events[i] /\ events[i] # x
      BY <1>7, <3>1 DEF Waiting
    <3>3. \A i \in 1..Len(events') : i \in 1..Len(events) \/ i = Len(events) + 1
      BY <3>2
    <3>4. \A i \in 1..Len(events') : events'[i] \in present'
      BY <1>1, <3>2, <3>3 DEF WatchInv, EventsOnce, new
    <3>5. \A i, j \in 1..Len(events') : events'[i] = events'[j] => i = j
      BY <3>2, <3>3 DEF WatchInv, EventsOnce
    <3>6. \A d \in Folders : Waiting(d)' => tracker'[d].pc = "idle"
      BY <1>1, <1>5, <1>7 DEF WatchInv, EventsOnce
    <3> QED BY <3>4, <3>5, <3>6 DEF EventsOnce
  <2> QED BY <2>1, <2>2
<1>9. UpTo(Top) = {Top}
  <2>1. {Top} \in Upward
    BY DEF Upward, Nodes
  <2> QED BY <2>1, UpToBasics DEF UpTo, Nodes
\* A folder that is there and above something new is above p.
<1>10. ASSUME NEW y \in new, NEW d \in Folders, d \in present, d \in UpTo(y) PROVE p \in Folders /\ d \in UpTo(p)
  <2>1. d \in UpTo(p)
    BY <1>1, <1>4, <1>10
  <2> QED BY <1>3, <1>9, <2>1, FoldersAreATree DEF TreeDirs
<1>11. TrackersFit'
  <2>1. ASSUME NEW d \in Folders, tracker[d].pc = "index", NEW y \in Folders \cap present', d \in UpTo(y)
        PROVE  y \in tracker[d].read \/ tracker[d].todo \cap UpTo(y) # {}
    <3>1. CASE y \in present
      BY <2>1, <3>1 DEF WatchInv, TrackersFit
    <3>2. CASE y \in new
      <4>1. d \in present
        BY <2>1 DEF WatchInv, TrackersFit
      <4>2. p \in Folders /\ d \in UpTo(p) /\ p \in present
        BY <1>1, <1>10, <2>1, <3>2, <4>1
      <4>3. tracker[d].todo \cap UpTo(p) # {}
        BY <1>2, <2>1, <4>2 DEF WatchInv, TrackersFit
      <4> QED BY <1>4, <3>2, <4>3
    <3> QED BY <1>1, <2>1, <3>1, <3>2
  <2> QED BY <1>1, <2>1 DEF WatchInv, TrackersFit
<1>12. \A y \in present' \ {Top} : ParentOf[y] \in present'
  BY <1>1 DEF WatchInv, new
<1>13. ASSUME NEW d \in Folders \cap present' PROVE Served(d)' \/ WatchComes(d)'
  <2>1. \A c \in present : Served(c)' <=> Served(c)
    BY <1>1 DEF Served
  <2>2. CASE d \in present
    <3>1. d # Top /\ ParentOf[d] \in present
      BY <2>2, FoldersAreATree DEF WatchInv
    <3>2. Served(d) \/ WatchComes(d)
      BY <2>2 DEF WatchInv
    <3> QED BY <1>1, <1>5, <2>1, <2>2, <3>1, <3>2 DEF WatchComes
  <2>3. CASE d \in new /\ GivenUp(p)
    BY <1>1, <2>3 DEF Served
  <2>4. CASE d \in new /\ ~GivenUp(p)
    <3>1. d = x \/ ParentOf[d] \in new
      BY <1>1, <2>4 DEF new
    <3>2. \A c \in new : ~Served(c)'
      BY <1>1, <2>4 DEF WatchInv, WatchTyped, Served
    <3>3. p \in watched \/ ~Served(p)'
      BY <1>1, <2>4 DEF GivenUp, Served
    <3> QED BY <1>1, <1>5, <3>1, <3>2, <3>3 DEF WatchComes
  <2> QED BY <1>1, <1>13, <2>2, <2>3, <2>4
<1>14. \A q : (Firm(q) => Firm(q)') /\ (Prospective(q) => Prospective(q)')
  BY <1>1, <1>5 DEF Firm, Prospective, WalkCovered
<1>15. p \notin watched /\ ~GivenUp(p) => p \in Folders /\ (Firm(p) \/ Prospective(p))
  <2>1. SUFFICES ASSUME ~Served(p) PROVE p \in Folders /\ (Firm(p) \/ Prospective(p))
    BY DEF GivenUp, Served
  <2>2. p \in Folders \cap present
    BY <1>1, <1>3, <2>1 DEF WatchInv, WatchTyped, TreeDirs, Served
  <2> HIDE DEF p
  <2> QED BY <1>2, <2>1, <2>2, ScanComes
\* What lies in a new folder is told of by its event, or read by a walk above.
<1>16. ASSUME x \in Folders, p \in watched PROVE Firm(x)' \/ Prospective(x)'
  <2>1. CASE ~WalkCovered(x)
    <3>1. Waiting(x)' /\ ~WalkCovered(x)' /\ x \in UpTo(x)
      BY <1>1, <1>3, <1>5, <1>16, <2>1, UpToBasics DEF WalkCovered
    <3> QED BY <1>16, <3>1 DEF Prospective
  <2>2. CASE WalkCovered(x)
    <3>1. PICK a \in Folders : a \in UpTo(p) /\ tracker[a].pc \in {"watch", "index"}
      BY <2>2 DEF WalkCovered, Above
    <3>2. p \in Folders /\ a \in UpTo(x) /\ p \in present
      BY <1>1, <1>3, <1>9, <3>1, FoldersAreATree DEF TreeDirs
    <3>3. CASE tracker[a].pc = "watch"
      <4>1. Firm(x)
        BY <1>2, <3>2, <3>3 DEF Firm
      <4> QED BY <1>14, <4>1
    <3>4. CASE tracker[a].pc = "index"
      <4>1. tracker[a].todo \cap UpTo(p) # {}
        BY <1>2, <3>1, <3>2, <3>4 DEF WatchInv, TrackersFit
      <4>2. Firm(x)
        BY <1>3, <3>4, <4>1 DEF Firm
      <4> QED BY <1>14, <4>2
    <3> QED BY <3>1, <3>3, <3>4
  <2> QED BY <2>1, <2>2
<1>17. ASSUME NEW f \in Media \cap present'
       PROVE  f \in enqueued' \cup blind' \/ Waiting(f)' \/ Firm(ParentOf[f])' \/ Prospective(ParentOf[f])'
  <2>1. CASE f \in present
    BY <1>1, <1>5, <1>14, <2>1 DEF WatchInv
  <2>2. CASE f = x /\ ~GivenUp(p)
    BY <1>5, <1>14, <1>15, <2>2
  <2>4. CASE f \in new /\ GivenUp(p)
    BY <1>1, <2>4
  <2>3. CASE f \in below /\ ~GivenUp(p)
    <3>1. x \in Folders /\ x \in UpTo(ParentOf[f]) /\ ParentOf[f] \in Nodes
      BY <1>1, <1>3, <2>3, UpToBasics DEF new
    <3>2. CASE p \in watched
      <4>1. Firm(x)' \/ Prospective(x)'
        BY <1>16, <3>1, <3>2
      <4>2. UpTo(x) \subseteq UpTo(ParentOf[f])
        BY <1>3, <3>1, UpToBasics
      <4> QED BY <4>1, <4>2 DEF Firm, Prospective
    <3>3. CASE p \notin watched
      <4>1. Firm(p) \/ Prospective(p)
        BY <1>15, <2>3, <3>3
      <4>2. p \in UpTo(ParentOf[f])
        BY <1>3, <3>1, UpToBasics
      <4>3. Firm(ParentOf[f]) \/ Prospective(ParentOf[f])
        BY <1>3, <3>1, <4>1, <4>2, ScansReachDown
      <4> QED BY <1>14, <4>3
    <3> QED BY <3>2, <3>3
  <2> QED BY <1>1, <1>17, <2>1, <2>2, <2>3, <2>4 DEF new
<1> QED BY <1>6, <1>8, <1>11, <1>12, <1>13, <1>17 DEF WatchInv

\* The first event is taken from the queue.
LEMMA FirstEvent ==
    ASSUME WatchInv, events # <<>>, events' = Tail(events)
    PROVE  /\ Head(events) \in Folders \cup Media /\ Head(events) \in present /\ Waiting(Head(events))
           /\ events' \in Seq(Folders \cup Media)
           /\ \A x : Waiting(x)' <=> Waiting(x) /\ x # Head(events)
           /\ \A i \in 1..Len(events') : events'[i] \in present
           /\ \A i, j \in 1..Len(events') : events'[i] = events'[j] => i = j
<1>1. /\ events \in Seq(Folders \cup Media) /\ (\A i \in 1..Len(events) : events[i] \in present)
      /\ \A i, j \in 1..Len(events) : events[i] = events[j] => i = j
  BY DEF WatchInv, WatchTyped, EventsOnce
<1>2. /\ Head(events) = events[1] /\ Len(events) \in Nat /\ Len(events) > 0 /\ events' \in Seq(Folders \cup Media)
      /\ Len(events') = Len(events) - 1 /\ \A i \in 1..(Len(events) - 1) : events'[i] = events[i + 1]
  BY <1>1
<1>3. 1 \in 1..Len(events) /\ \A i \in 1..Len(events') : i + 1 \in 1..Len(events) /\ i + 1 # 1 /\ events'[i] = events[i + 1]
  BY <1>2
<1>4. Head(events) \in Folders \cup Media /\ Head(events) \in present /\ Waiting(Head(events))
  <2>1. events[1] \in Folders \cup Media
    BY <1>1, <1>3
  <2> QED BY <1>1, <1>2, <1>3, <2>1 DEF Waiting
<1>5. ASSUME NEW x PROVE Waiting(x)' <=> Waiting(x) /\ x # Head(events)
  <2>1. ASSUME Waiting(x)' PROVE Waiting(x) /\ x # Head(events)
    <3>1. PICK i \in 1..Len(events') : events'[i] = x
      BY <2>1 DEF Waiting
    <3>2. i + 1 \in 1..Len(events) /\ i + 1 # 1 /\ x = events[i + 1]
      BY <1>3, <3>1
    <3> QED BY <1>1, <1>2, <1>3, <3>2 DEF Waiting
  <2>2. ASSUME Waiting(x), x # Head(events) PROVE Waiting(x)'
    <3>1. PICK i \in 1..Len(events) : events[i] = x
      BY <2>2 DEF Waiting
    <3>2. i # 1
      BY <1>2, <2>2, <3>1
    <3>3. i - 1 \in 1..Len(events') /\ events'[i - 1] = x
      BY <1>2, <3>1, <3>2
    <3> QED BY <3>3 DEF Waiting
  <2> QED BY <2>1, <2>2
<1>6. \A i \in 1..Len(events') : events'[i] \in present
  BY <1>1, <1>3
<1>7. ASSUME NEW i \in 1..Len(events'), NEW j \in 1..Len(events'), events'[i] = events'[j] PROVE i = j
  <2>1. i + 1 = j + 1
    BY <1>1, <1>3, <1>7
  <2> QED BY <2>1
<1> QED BY <1>2, <1>4, <1>5, <1>6, <1>7

LEMMA HandleKeeps == ASSUME WatchInv, HandleEvent PROVE WatchInv'
<1> DEFINE x == Head(events)
<1>1. /\ x \in Folders \cup Media /\ x \in present /\ Waiting(x) /\ events' \in Seq(Folders \cup Media)
      /\ \A y : Waiting(y)' <=> Waiting(y) /\ y # x
      /\ \A i \in 1..Len(events') : events'[i] \in present
      /\ \A i, j \in 1..Len(events') : events'[i] = events'[j] => i = j
  BY FirstEvent DEF HandleEvent
<1>2. UNCHANGED <<present, watched, rescan, refused, blind>>
  BY DEF HandleEvent
<1>3. CASE x \in Folders
  <2> DEFINE r == [NoTracker EXCEPT !.pc = "register"]
  <2>1. r \in Trackers /\ r.pc = "register" /\ r.todo = {} /\ r.read = {} /\ ~r.covered
    BY DEF NoTracker, Trackers
  <2>2. tracker' = [tracker EXCEPT ![x] = r] /\ UNCHANGED enqueued
    BY <1>3 DEF HandleEvent
  <2> HIDE DEF r, x
  <2>3. /\ tracker \in [Folders -> Trackers] /\ tracker' \in [Folders -> Trackers] /\ tracker[x].pc = "idle"
        /\ \A d \in Folders : tracker'[d] = IF d = x THEN r ELSE tracker[d]
    BY <1>1, <1>3, <2>1, <2>2 DEF WatchInv, WatchTyped, EventsOnce
  <2>4. WatchTyped'
    BY <1>1, <1>2, <2>2, <2>3 DEF WatchInv, WatchTyped
  <2>5. EventsOnce'
    BY <1>1, <1>2, <2>3 DEF WatchInv, EventsOnce
  <2>6. TrackersFit'
    BY <1>1, <1>2, <2>1, <2>3 DEF WatchInv, TrackersFit
  <2>7. \A d \in Folders : WatchComes(d) => WatchComes(d)'
    BY <1>1, <1>2, <2>1, <2>3 DEF WatchComes, Served
  <2>8. \A q : (Firm(q) => Firm(q)') /\ (Prospective(q) => Prospective(q)')
    <3>1. \A d \in Folders : WalkCovered(d)' <=> WalkCovered(d)
      BY <2>1, <2>3 DEF WalkCovered
    <3>2. \A q : Firm(q) => Firm(q)'
      BY <1>2, <2>3 DEF Firm
    <3>3. \A q : Prospective(q) => Prospective(q)'
      BY <1>1, <2>1, <2>3, <3>1 DEF Prospective
    <3> QED BY <3>2, <3>3
  <2>9. \A f \in Media : f # x
    BY <1>3, FoldersAreATree
  <2> QED BY <1>1, <1>2, <2>2, <2>4, <2>5, <2>6, <2>7, <2>8, <2>9 DEF WatchInv, Served
<1>4. CASE x \notin Folders
  <2>1. enqueued' = enqueued \cup {x} /\ UNCHANGED tracker /\ x \in Media
    BY <1>1, <1>4 DEF HandleEvent
  <2> HIDE DEF x
  <2>2. WatchTyped' /\ EventsOnce' /\ TrackersFit'
    BY <1>1, <1>2, <2>1 DEF WatchInv, WatchTyped, EventsOnce, TrackersFit
  <2>3. \A d \in Folders : WatchComes(d) => WatchComes(d)'
    BY <1>1, <1>2, <1>4, <2>1 DEF WatchComes, Served
  <2>4. \A q : (Firm(q) => Firm(q)') /\ (Prospective(q) => Prospective(q)')
    BY <1>1, <1>2, <1>4, <2>1 DEF Firm, Prospective, WalkCovered
  <2> QED BY <1>1, <1>2, <2>1, <2>2, <2>3, <2>4 DEF WatchInv, Served
<1> QED BY <1>3, <1>4

\* A step of one goroutine, what it changes of the watches and of the queue being given.
LEMMA TrackerMoves ==
    ASSUME WatchInv, NEW d \in Folders, NEW r \in Trackers, tracker' = [tracker EXCEPT ![d] = r],
           tracker[d].pc # "idle" \/ r.pc = "idle", UNCHANGED <<present, events, rescan>>,
           watched' \subseteq TreeDirs \cap present, watched \subseteq watched', enqueued' \subseteq Media, enqueued \subseteq enqueued',
           refused' \subseteq present, refused \subseteq refused', blind' \subseteq present, blind \subseteq blind',
           /\ r.pc # "watch" => ~r.covered
           /\ r.pc # "index" => r.read = {}
           /\ r.pc = "watch" =>
                 \A x \in TreeDirs, s \in {"add", "read"} : <<x, s>> \in r.todo => x \in present /\ d \in UpTo(x)
           /\ r.pc = "index" => \A p \in Folders \cap present : d \in UpTo(p) => p \in r.read \/ r.todo \cap UpTo(p) # {},
           \A c \in Folders \cap present : WatchComes(c) => Served(c)' \/ WatchComes(c)',
           \A f \in Media \cap present : Firm(ParentOf[f]) \/ Prospective(ParentOf[f]) =>
               f \in enqueued' \cup blind' \/ Firm(ParentOf[f])' \/ Prospective(ParentOf[f])'
    PROVE  WatchInv'
<1>1. /\ tracker' \in [Folders -> Trackers] /\ \A e \in Folders : tracker'[e] = IF e = d THEN r ELSE tracker[e]
      /\ \A x : Waiting(x)' <=> Waiting(x)
  BY DEF WatchInv, WatchTyped, Waiting
<1>2. WatchTyped'
  BY <1>1 DEF WatchInv, WatchTyped
<1>3. EventsOnce'
  BY <1>1 DEF WatchInv, EventsOnce
<1>4. TrackersFit'
  <2>1. r.pc # "idle" => d \in present
    BY DEF WatchInv, TrackersFit
  <2> QED BY <1>1, <2>1 DEF WatchInv, TrackersFit
<1>5. \A c : Served(c) => Served(c)'
  BY DEF Served
<1> QED BY <1>1, <1>2, <1>3, <1>4, <1>5 DEF WatchInv

LEMMA RegisterKeeps == ASSUME WatchInv, NEW d \in Folders, Register(d) PROVE WatchInv'
<1> DEFINE r == [tracker[d] EXCEPT !.pc = "watch", !.covered = WalkCovered(d), !.todo = {<<d, "add">>}]
<1>1. /\ tracker[d].pc = "register" /\ tracker' = [tracker EXCEPT ![d] = r]
      /\ UNCHANGED <<present, watched, events, enqueued, rescan, refused, blind>>
  BY DEF Register
<1>2. tracker[d] \in Trackers /\ d \in present /\ d \in TreeDirs /\ d \in UpTo(d) /\ d \in Nodes
  BY <1>1, UpToBasics DEF WatchInv, WatchTyped, TrackersFit, TreeDirs, Nodes
<1>3. /\ r \in Trackers /\ r.pc = "watch" /\ r.covered = WalkCovered(d) /\ r.todo = {<<d, "add">>} /\ r.read = {}
  <2>1. WalkCovered(d) \in BOOLEAN /\ {<<d, "add">>} \in SUBSET WalkSteps
    BY <1>2 DEF WalkCovered, WalkSteps
  <2> QED BY <1>1, <1>2, <2>1 DEF Trackers, WatchInv, TrackersFit
<1> HIDE DEF r
<1>4. \A e \in Folders : tracker'[e] = IF e = d THEN r ELSE tracker[e]
  BY <1>1, <1>3 DEF WatchInv, WatchTyped
<1>5. ASSUME NEW c \in Folders, WatchComes(c) PROVE WatchComes(c)'
  BY <1>1, <1>3, <1>4, <1>5 DEF WatchComes, Waiting, Served
<1>6. \A q : Firm(q) => Firm(q)'
  BY <1>1, <1>3, <1>4 DEF Firm
\* Who would walk on his own still does, or this one does in his place.
<1>7. ASSUME NEW q \in Nodes, Prospective(q) PROVE Firm(q)' \/ Prospective(q)'
  <2>1. PICK e \in Folders \cap UpTo(q) : (Waiting(e) \/ tracker[e].pc = "register") /\ ~WalkCovered(e)
    BY <1>7 DEF Prospective
  <2>2. CASE ~WalkCovered(d) /\ d \in UpTo(q)
    BY <1>3, <1>4, <2>2 DEF Firm
  <2>3. CASE e # d /\ ~WalkCovered(e)'
    BY <1>1, <1>4, <2>1, <2>3 DEF Prospective, Waiting
  <2>4. CASE e # d /\ WalkCovered(e)'
    <3>1. PICK a \in Folders : a \in UpTo(ParentOf[e]) /\ tracker'[a].pc \in {"watch", "index"}
      BY <2>4 DEF WalkCovered, Above
    <3>2. a = d
      BY <1>4, <2>1, <3>1 DEF WalkCovered, Above
    <3>3. e \in Nodes \ {Top} /\ ParentOf[e] \in Nodes /\ ParentOf[e] \in UpTo(e)
      BY FoldersAreATree, UpToBasics DEF Nodes
    <3>4. d \in UpTo(q)
      BY <1>2, <2>1, <3>1, <3>2, <3>3, UpToBasics
    <3>5. ~WalkCovered(d)
      <4>1. SUFFICES ASSUME NEW b \in Folders, b \in UpTo(ParentOf[d]), tracker[b].pc \in {"watch", "index"} PROVE FALSE
        BY DEF WalkCovered, Above
      <4>2. d \in Nodes \ {Top} /\ ParentOf[d] \in Nodes /\ ParentOf[d] \in UpTo(d) /\ b \in Nodes
        BY FoldersAreATree, UpToBasics DEF Nodes
      <4>3. b \in UpTo(ParentOf[e])
        BY <3>1, <3>2, <3>3, <4>1, <4>2, UpToBasics
      <4> QED BY <2>1, <4>1, <4>3 DEF WalkCovered, Above
    <3> QED BY <2>2, <3>4, <3>5
  <2> QED BY <2>1, <2>2, <2>3, <2>4
<1>8. \A f \in Media : ParentOf[f] \in Nodes
  BY FoldersAreATree DEF Nodes
<1> QED BY <1>1, <1>2, <1>3, <1>5, <1>6, <1>7, <1>8, TrackerMoves DEF WatchInv, WatchTyped

\* A watch is added, and the folder read: both in the first walk.
LEMMA WalkMoves ==
    ASSUME WatchInv, NEW d \in Folders, tracker[d].pc = "watch", NEW r \in Trackers, tracker' = [tracker EXCEPT ![d] = r],
           r.pc = "watch", r.covered = tracker[d].covered, r.read = tracker[d].read,
           UNCHANGED <<present, events, rescan, enqueued, blind>>,
           watched' \subseteq TreeDirs \cap present, watched \subseteq watched', refused' \subseteq present, refused \subseteq refused',
           \A x \in TreeDirs, s \in {"add", "read"} : <<x, s>> \in r.todo => x \in present /\ d \in UpTo(x),
           \A c \in Folders \cap present : WatchComes(c) => Served(c)' \/ WatchComes(c)'
    PROVE  WatchInv'
<1>1. tracker[d] \in Trackers /\ tracker[d].read = {}
  BY DEF WatchInv, WatchTyped, TrackersFit
<1>2. r.read = {}
  BY <1>1
<1>3. blind' \subseteq present
  BY DEF WatchInv, WatchTyped
<1>4. \A e \in Folders : tracker'[e] = IF e = d THEN r ELSE tracker[e]
  BY DEF WatchInv, WatchTyped
<1>5. \A q : (Firm(q) => Firm(q)') /\ (Prospective(q) => Prospective(q)')
  <2>1. \A e \in Folders : tracker'[e].pc = tracker[e].pc /\ tracker'[e].covered = tracker[e].covered
                           /\ (tracker[e].pc = "index" => tracker'[e].todo = tracker[e].todo)
    BY <1>4
  <2>2. \A e \in Folders : (WalkCovered(e)' <=> WalkCovered(e)) /\ (Waiting(e)' <=> Waiting(e))
    BY <2>1 DEF WalkCovered, Waiting
  <2>3. \A q : Firm(q) => Firm(q)'
    BY <2>1 DEF Firm
  <2>4. \A q : Prospective(q) => Prospective(q)'
    BY <2>1, <2>2 DEF Prospective
  <2> QED BY <2>3, <2>4
<1> QED BY <1>2, <1>3, <1>5, TrackerMoves DEF WatchInv, WatchTyped

\* A watch is tried: the folder has it, or is left to the daily scan; its entries are next.
LEMMA TriedKeeps ==
    ASSUME WatchInv, NEW d \in Folders, NEW x \in Folders, NEW w \in BOOLEAN, tracker[d].pc = "watch", <<x, "add">> \in tracker[d].todo,
           tracker' = [tracker EXCEPT ![d].todo = (@ \ {<<x, "add">>}) \cup {<<x, "read">>}, ![d].worth = w],
           \/ watched' = watched \cup {x} /\ refused' = refused
           \/ watched' = watched /\ refused' = refused \cup {x},
           UNCHANGED <<present, events, enqueued, rescan, blind>>
    PROVE  WatchInv'
<1> DEFINE todo == (tracker[d].todo \ {<<x, "add">>}) \cup {<<x, "read">>}
           r == [tracker[d] EXCEPT !.todo = todo, !.worth = w]
<1>1. x \in TreeDirs /\ x \in present /\ d \in UpTo(x)
  BY DEF WatchInv, TrackersFit, TreeDirs
<1>2. todo \in SUBSET WalkSteps /\ tracker[d] \in Trackers /\ tracker \in [Folders -> Trackers]
  BY <1>1 DEF WatchInv, WatchTyped, Trackers, WalkSteps
<1>3. \A y \in TreeDirs, s \in {"add", "read"} : <<y, s>> \in todo => y \in present /\ d \in UpTo(y)
  BY <1>1 DEF WatchInv, TrackersFit
<1>4. tracker' = [tracker EXCEPT ![d] = r]
  BY <1>2
<1>5. r \in Trackers /\ r.pc = "watch" /\ r.covered = tracker[d].covered /\ r.read = tracker[d].read /\ r.todo = todo
  BY <1>2 DEF Trackers
<1> HIDE DEF r
<1>6. \A e \in Folders : tracker'[e] = IF e = d THEN r ELSE tracker[e]
  BY <1>2, <1>4
<1>7. Served(x)' /\ \A c : c # x => (Served(c)' <=> Served(c))
  BY DEF Served
<1>8. ASSUME NEW c \in Folders \cap present, WatchComes(c), ~Served(c)' PROVE WatchComes(c)'
  <2>1. c # x
    BY <1>7, <1>8
  <2>2. CASE ParentOf[c] = x
    BY <1>5, <1>6, <2>2 DEF WatchComes
  <2>3. CASE ParentOf[c] # x
    <3>1. ASSUME NEW e \in Folders, tracker[e].pc = "watch",
                 <<c, "add">> \in tracker[e].todo \/ <<ParentOf[c], "read">> \in tracker[e].todo
          PROVE  /\ tracker'[e].pc = "watch"
                 /\ <<c, "add">> \in tracker'[e].todo \/ <<ParentOf[c], "read">> \in tracker'[e].todo
      BY <1>5, <1>6, <2>1, <3>1
    <3>2. tracker[c].pc = "register" => tracker'[c].pc = "register"
      BY <1>6
    <3> QED BY <1>7, <1>8, <2>3, <3>1, <3>2 DEF WatchComes, Waiting
  <2> QED BY <2>2, <2>3
<1> HIDE DEF todo
<1>9. /\ watched' \subseteq TreeDirs \cap present /\ watched \subseteq watched'
      /\ refused' \subseteq present /\ refused \subseteq refused'
  BY <1>1 DEF WatchInv, WatchTyped
<1> QED BY <1>3, <1>4, <1>5, <1>8, <1>9, WalkMoves

LEMMA AddKeeps == ASSUME WatchInv, NEW d \in Folders, NEW x \in Folders, AddWatch(d, x) PROVE WatchInv'
BY TriedKeeps DEF AddWatch

LEMMA RefusedKeeps ==
    ASSUME WatchInv, NEW d \in Folders, NEW x \in Folders, NEW quota \in BOOLEAN, WatchRefused(d, x, quota) PROVE WatchInv'
<1> DEFINE w == tracker[d].worth \/ quota
<1>1. w \in BOOLEAN
  OBVIOUS
<1>2. tracker' = [tracker EXCEPT ![d].todo = (@ \ {<<x, "add">>}) \cup {<<x, "read">>}, ![d].worth = w]
  BY DEF WatchRefused, WatchInv, WatchTyped, Trackers
<1> HIDE DEF w
<1> QED BY <1>1, <1>2, TriedKeeps DEF WatchRefused

LEMMA ReadFolderKeeps == ASSUME WatchInv, NEW d \in Folders, NEW x \in Folders, ReadFolder(d, x) PROVE WatchInv'
<1> DEFINE todo == (tracker[d].todo \ {<<x, "read">>}) \cup {<<c, "add">> : c \in FoldersIn(x)}
           r == [tracker[d] EXCEPT !.todo = todo]
<1>1. /\ tracker[d].pc = "watch" /\ <<x, "read">> \in tracker[d].todo
      /\ tracker' = [tracker EXCEPT ![d].todo = todo] /\ UNCHANGED <<present, watched, events, enqueued, rescan, refused, blind>>
  BY DEF ReadFolder
<1>2. x \in TreeDirs /\ x \in Nodes /\ d \in Nodes /\ d \in UpTo(x)
  BY <1>1 DEF WatchInv, TrackersFit, TreeDirs, Nodes
<1>3. \A c \in FoldersIn(x) : c \in Folders /\ c \in present /\ c \in TreeDirs /\ d \in UpTo(c)
  <2>1. ASSUME NEW c \in FoldersIn(x) PROVE c \in Folders /\ c \in present /\ c \in TreeDirs /\ d \in UpTo(c)
    <3>1. c \in Folders /\ c \in present /\ ParentOf[c] = x /\ c \in Nodes \ {Top}
      BY FoldersAreATree DEF FoldersIn, Nodes
    <3> QED BY <1>2, <3>1, UpToBasics DEF TreeDirs
  <2> QED BY <2>1
<1>4. todo \in SUBSET WalkSteps /\ tracker[d] \in Trackers /\ tracker \in [Folders -> Trackers]
  BY <1>3 DEF WatchInv, WatchTyped, Trackers, WalkSteps
<1>5. \A y \in TreeDirs, s \in {"add", "read"} : <<y, s>> \in todo => y \in present /\ d \in UpTo(y)
  BY <1>1, <1>3 DEF WatchInv, TrackersFit
<1>6. tracker' = [tracker EXCEPT ![d] = r]
  BY <1>1
<1>7. r \in Trackers /\ r.pc = "watch" /\ r.covered = tracker[d].covered /\ r.read = tracker[d].read /\ r.todo = todo
  BY <1>1, <1>4 DEF Trackers
<1> HIDE DEF r
<1>8. \A e \in Folders : tracker'[e] = IF e = d THEN r ELSE tracker[e]
  BY <1>4, <1>6
<1>9. ASSUME NEW c \in Folders \cap present, WatchComes(c) PROVE WatchComes(c)'
  <2>1. CASE ParentOf[c] = x
    <3>1. <<c, "add">> \in tracker'[d].todo
      BY <1>7, <1>8, <2>1 DEF FoldersIn
    <3> QED BY <1>1, <1>7, <1>8, <3>1 DEF WatchComes
  <2>2. CASE ParentOf[c] # x
    <3>1. ASSUME NEW e \in Folders, tracker[e].pc = "watch",
                 <<c, "add">> \in tracker[e].todo \/ <<ParentOf[c], "read">> \in tracker[e].todo
          PROVE  /\ tracker'[e].pc = "watch"
                 /\ <<c, "add">> \in tracker'[e].todo \/ <<ParentOf[c], "read">> \in tracker'[e].todo
      BY <1>7, <1>8, <2>2, <3>1
    <3>2. tracker[c].pc = "register" => tracker'[c].pc = "register"
      BY <1>1, <1>8
    <3> QED BY <1>1, <1>9, <2>2, <3>1, <3>2 DEF WatchComes, Waiting, Served
  <2> QED BY <2>1, <2>2
<1> HIDE DEF todo
<1>10. watched' \subseteq TreeDirs \cap present /\ refused' \subseteq present
  BY <1>1 DEF WatchInv, WatchTyped
<1> QED BY <1>1, <1>5, <1>6, <1>7, <1>9, <1>10, WalkMoves

\* A goroutine that does not scan: an ancestor's walk will, or nobody.
LEMMA LeavesKeeps ==
    ASSUME WatchInv, NEW d \in Folders, Watched(d), tracker' = [tracker EXCEPT ![d] = NoTracker] PROVE WatchInv'
<1> DEFINE r == NoTracker
<1>1. /\ tracker[d].pc = "watch" /\ tracker[d].todo = {} /\ UNCHANGED <<present, watched, events, enqueued, rescan, refused>>
      /\ r \in Trackers /\ r.pc = "idle" /\ ~r.covered /\ r.read = {} /\ tracker' = [tracker EXCEPT ![d] = r]
  BY DEF Watched, NoTracker, Trackers
<1>2. blind' = blind \/ (blind' = blind \cup Below({d}) /\ ~tracker[d].covered)
  BY DEF Watched
<1>3. ~tracker[d].covered => blind' = blind \cup Below({d})
  <2>1. SUFFICES ASSUME ~tracker[d].covered, tracker[d].worth PROVE FALSE
    BY DEF Watched
  <2>2. tracker'[d].pc = "index"
    BY <2>1 DEF Watched, WatchInv, WatchTyped, Trackers
  <2> QED BY <1>1, <2>2 DEF WatchInv, WatchTyped
<1> HIDE DEF r
<1>4. \A e \in Folders : tracker'[e] = IF e = d THEN r ELSE tracker[e]
  BY <1>1 DEF WatchInv, WatchTyped
<1>5. \A y \in present : d \in UpTo(y) => y \in Below({d})
  BY DEF Below
<1>6. blind' \subseteq present /\ blind \subseteq blind'
  BY <1>2 DEF Below, WatchInv, WatchTyped
<1>7. ASSUME NEW c \in Folders \cap present, WatchComes(c) PROVE Served(c)' \/ WatchComes(c)'
  <2>1. CASE Served(ParentOf[c])' /\ ~Served(ParentOf[c])
    <3>1. d \in UpTo(ParentOf[c]) /\ blind' = blind \cup Below({d})
      BY <1>1, <1>2, <2>1 DEF Served, Below
    <3>2. c \in Nodes \ {Top}
      BY FoldersAreATree DEF Nodes
    <3>3. d \in UpTo(c)
      BY <3>1, <3>2, UpToBasics
    <3> QED BY <1>5, <3>1, <3>3 DEF Served
  <2>2. CASE ~Served(ParentOf[c]) => ~Served(ParentOf[c])'
    <3>1. ASSUME NEW e \in Folders, tracker[e].pc = "watch",
                 <<c, "add">> \in tracker[e].todo \/ <<ParentOf[c], "read">> \in tracker[e].todo
          PROVE  tracker'[e] = tracker[e]
      BY <1>1, <1>4, <3>1
    <3>2. tracker[c].pc = "register" => tracker'[c].pc = "register"
      BY <1>1, <1>4
    <3> QED BY <1>1, <1>7, <2>2, <3>1, <3>2 DEF WatchComes, Waiting
  <2> QED BY <2>1, <2>2
<1>8. ASSUME NEW f \in Media \cap present, Firm(ParentOf[f]) PROVE f \in blind' \/ Firm(ParentOf[f])'
  <2>1. CASE d \in UpTo(ParentOf[f]) /\ ~tracker[d].covered
    <3>1. f \in Nodes \ {Top}
      BY FoldersAreATree DEF Nodes
    <3>2. d \in UpTo(f)
      BY <2>1, <3>1, UpToBasics
    <3> QED BY <1>3, <1>5, <2>1, <3>2
  <2>2. CASE ~(d \in UpTo(ParentOf[f]) /\ ~tracker[d].covered)
    <3>1. ASSUME NEW e \in Folders, tracker[e].pc = "index" PROVE tracker'[e] = tracker[e]
      BY <1>1, <1>4, <3>1
    <3>2. ASSUME NEW e \in Folders \cap UpTo(ParentOf[f]), tracker[e].pc = "watch", ~tracker[e].covered PROVE tracker'[e] = tracker[e]
      BY <1>4, <2>2, <3>2
    <3> QED BY <1>1, <1>8, <3>1, <3>2 DEF Firm
  <2> QED BY <2>1, <2>2
<1>9. \A q : Prospective(q) => Prospective(q)'
  BY <1>1, <1>4 DEF Prospective, WalkCovered, Waiting
<1>10. watched' \subseteq TreeDirs \cap present /\ refused' \subseteq present /\ enqueued' \subseteq Media
  BY <1>1 DEF WatchInv, WatchTyped
<1> QED BY <1>1, <1>6, <1>7, <1>8, <1>9, <1>10, TrackerMoves

LEMMA WatchedKeeps == ASSUME WatchInv, NEW d \in Folders, Watched(d) PROVE WatchInv'
<1>1. CASE tracker' = [tracker EXCEPT ![d] = NoTracker]
  BY <1>1, LeavesKeeps
<1>2. CASE ~tracker[d].covered /\ tracker' = [tracker EXCEPT ![d].pc = "index", ![d].todo = {d}] /\ UNCHANGED blind
  <2>1. tracker[d].pc = "watch" /\ tracker[d].todo = {} /\ UNCHANGED <<present, watched, events, enqueued, rescan, refused>>
    BY DEF Watched
  <2>2. tracker[d] \in Trackers /\ tracker[d].read = {} /\ d \in TreeDirs /\ d \in Nodes /\ d \in UpTo(d)
    BY <2>1, UpToBasics DEF WatchInv, WatchTyped, TrackersFit, TreeDirs, Nodes
  <2> DEFINE r == [tracker[d] EXCEPT !.pc = "index", !.todo = {d}]
  <2>3. r \in Trackers /\ r.pc = "index" /\ ~r.covered /\ r.todo = {d}
    BY <1>2, <2>2 DEF Trackers, WalkSteps
  <2>4. tracker' = [tracker EXCEPT ![d] = r]
    BY <1>2 DEF WatchInv, WatchTyped
  <2> HIDE DEF r
  <2>5. \A e \in Folders : tracker'[e] = IF e = d THEN r ELSE tracker[e]
    BY <2>3, <2>4 DEF WatchInv, WatchTyped
  <2>6. \A c \in Folders : WatchComes(c) => WatchComes(c)'
    BY <1>2, <2>1, <2>5 DEF WatchComes, Waiting, Served
  <2>7. ASSUME NEW q, Firm(q) PROVE Firm(q)'
    <3>1. CASE d \in UpTo(q)
      BY <2>3, <2>5, <3>1 DEF Firm
    <3>2. CASE d \notin UpTo(q)
      BY <2>1, <2>5, <2>7, <3>2 DEF Firm
    <3> QED BY <3>1, <3>2
  <2>8. \A q : Prospective(q) => Prospective(q)'
    BY <2>1, <2>3, <2>5 DEF Prospective, WalkCovered, Waiting
  <2>9. watched' \subseteq TreeDirs \cap present /\ refused' \subseteq present /\ blind' \subseteq present /\ enqueued' \subseteq Media
    BY <1>2, <2>1 DEF WatchInv, WatchTyped
  <2> QED BY <1>2, <2>1, <2>2, <2>3, <2>4, <2>6, <2>7, <2>8, <2>9, TrackerMoves
<1> QED BY <1>1, <1>2 DEF Watched

\* A scan that has yet to come by p, and reads a folder, has p behind it or goes on
\* towards p.
LEMMA ScanGoesOn ==
    ASSUME WatchInv, NEW p \in TreeDirs \cap present, NEW x \in TreeDirs, NEW todo, x \in todo, todo \cap UpTo(p) # {}
    PROVE  x = p \/ ((todo \ {x}) \cup FoldersIn(x)) \cap UpTo(p) # {}
<1>1. CASE x \in UpTo(p) /\ x # p
  <2>1. PICK c \in Folders : ParentOf[c] = x /\ c \in UpTo(p)
    BY <1>1, StepDown
  <2>2. c \in present
    BY <2>1, PresentUpward
  <2> QED BY <2>1, <2>2 DEF FoldersIn
<1>2. CASE x \notin UpTo(p)
  BY <1>2
<1> QED BY <1>1, <1>2

LEMMA CatchUpKeeps == ASSUME WatchInv, NEW d \in Folders, NEW x \in Folders, CatchUp(d, x) PROVE WatchInv'
<1> DEFINE todo == (tracker[d].todo \ {x}) \cup FoldersIn(x)
           r == [tracker[d] EXCEPT !.todo = todo, !.read = @ \cup {x}]
<1>1. /\ tracker[d].pc = "index" /\ x \in tracker[d].todo /\ enqueued' = enqueued \cup MediaIn(x)
      /\ UNCHANGED <<present, watched, events, rescan, refused, blind>>
  BY DEF CatchUp
<1>2. tracker[d] \in Trackers /\ x \in TreeDirs /\ ~tracker[d].covered
  BY <1>1 DEF WatchInv, WatchTyped, TrackersFit, TreeDirs
<1>3. todo \in SUBSET WalkSteps
  BY <1>2 DEF Trackers, WalkSteps, FoldersIn
<1>4. r \in Trackers /\ r.pc = "index" /\ r.todo = todo /\ r.read = tracker[d].read \cup {x} /\ ~r.covered
  BY <1>1, <1>2, <1>3 DEF Trackers
<1>5. tracker' = [tracker EXCEPT ![d] = r]
  BY <1>2 DEF CatchUp, WatchInv, WatchTyped, Trackers
<1> HIDE DEF r
<1>6. \A e \in Folders : tracker'[e] = IF e = d THEN r ELSE tracker[e]
  BY <1>4, <1>5 DEF WatchInv, WatchTyped
<1>7. ASSUME NEW p \in TreeDirs \cap present, tracker[d].todo \cap UpTo(p) # {} PROVE x = p \/ r.todo \cap UpTo(p) # {}
  BY <1>1, <1>2, <1>4, <1>7, ScanGoesOn
<1>8. ASSUME NEW p \in Folders \cap present, d \in UpTo(p) PROVE p \in r.read \/ r.todo \cap UpTo(p) # {}
  <2>1. p \in tracker[d].read \/ tracker[d].todo \cap UpTo(p) # {}
    BY <1>1, <1>8 DEF WatchInv, TrackersFit
  <2> QED BY <1>4, <1>7, <2>1 DEF TreeDirs
<1>9. \A c \in Folders : WatchComes(c) => WatchComes(c)'
  BY <1>1, <1>4, <1>6 DEF WatchComes, Waiting, Served
<1>10. \A q : Prospective(q) => Prospective(q)'
  BY <1>1, <1>4, <1>6 DEF Prospective, WalkCovered, Waiting
<1>11. ASSUME NEW f \in Media \cap present, Firm(ParentOf[f]) PROVE f \in enqueued' \/ Firm(ParentOf[f])'
  <2>1. ParentOf[f] \in TreeDirs \cap present
    BY FoldersAreATree DEF WatchInv, TreeDirs
  <2>2. CASE ParentOf[f] = x
    BY <1>1, <2>2 DEF MediaIn
  <2>3. CASE ParentOf[f] # x
    <3>1. tracker[d].todo \cap UpTo(ParentOf[f]) # {} => tracker'[d].todo \cap UpTo(ParentOf[f]) # {}
      BY <1>6, <1>7, <2>1, <2>3
    <3> QED BY <1>1, <1>4, <1>6, <1>11, <3>1 DEF Firm
  <2> QED BY <2>2, <2>3
<1>12. enqueued' \subseteq Media
  BY <1>1 DEF WatchInv, WatchTyped, MediaIn
<1> HIDE DEF todo
<1> QED BY <1>1, <1>4, <1>5, <1>8, <1>9, <1>10, <1>11, <1>12, TrackerMoves DEF WatchInv, WatchTyped

LEMMA CaughtUpKeeps == ASSUME WatchInv, NEW d \in Folders, CaughtUp(d) PROVE WatchInv'
<1> DEFINE r == NoTracker
<1>1. /\ tracker[d].pc = "index" /\ tracker[d].todo = {} /\ tracker' = [tracker EXCEPT ![d] = r]
      /\ UNCHANGED <<present, watched, events, enqueued, rescan, refused, blind>>
  BY DEF CaughtUp
<1>2. r \in Trackers /\ r.pc = "idle" /\ ~r.covered /\ r.read = {}
  BY DEF NoTracker, Trackers
<1> HIDE DEF r
<1>3. \A e \in Folders : tracker'[e] = IF e = d THEN r ELSE tracker[e]
  BY <1>1, <1>2 DEF WatchInv, WatchTyped
<1>4. \A c \in Folders : WatchComes(c) => WatchComes(c)'
  BY <1>1, <1>3 DEF WatchComes, Waiting, Served
<1>5. \A q : Firm(q) => Firm(q)'
  BY <1>1, <1>2, <1>3 DEF Firm
<1>6. \A q : Prospective(q) => Prospective(q)'
  BY <1>1, <1>2, <1>3 DEF Prospective, WalkCovered, Waiting
<1> QED BY <1>1, <1>2, <1>4, <1>5, <1>6, TrackerMoves DEF WatchInv, WatchTyped

-----------------------------------------------------------------------------
(* The overflow's rescan.                                                      *)

LEMMA RescanMoves ==
    ASSUME WatchInv, UNCHANGED <<present, watched, events, tracker, refused, blind>>, rescan' \in RescanStates,
           enqueued' \subseteq Media, enqueued \subseteq enqueued',
           \A f \in Media \cap present : Firm(ParentOf[f]) => f \in enqueued' \/ Firm(ParentOf[f])'
    PROVE  WatchInv'
<1>1. WatchTyped'
  BY DEF WatchInv, WatchTyped
<1>2. \A x : (Waiting(x)' <=> Waiting(x)) /\ (Served(x)' <=> Served(x))
  BY DEF Waiting, Served
<1>3. EventsOnce' /\ TrackersFit'
  BY DEF WatchInv, EventsOnce, TrackersFit, Waiting
<1>4. \A d \in Folders : WatchComes(d) => WatchComes(d)'
  BY <1>2 DEF WatchComes
<1>5. \A q : Prospective(q) => Prospective(q)'
  BY <1>2 DEF Prospective, WalkCovered
<1> QED BY <1>1, <1>2, <1>3, <1>4, <1>5 DEF WatchInv

\* The files whose events are lost are read by the rescan or left to the daily scan; so is
\* what lies in a folder whose event is lost.
LEMMA OverflowKeeps == ASSUME WatchInv, Overflow PROVE WatchInv'
<1> DEFINE lost == {events[i] : i \in 1..Len(events)}
<1>1. events' = <<>> /\ UNCHANGED <<present, watched, tracker, enqueued, refused>>
  BY DEF Overflow
<1>2. \/ (rescan.on \/ rescan.cool) /\ blind' = blind \cup Below(lost) /\ rescan' = rescan
      \/ ~rescan.on /\ ~rescan.cool /\ blind' = blind \cup (Below(lost) \cap Folders)
         /\ rescan' = [rescan EXCEPT !.on = TRUE, !.todo = {Top}]
  BY DEF Overflow
<1>3. \A x : (x \in lost <=> Waiting(x)) /\ ~Waiting(x)'
  BY <1>1 DEF Waiting
<1> HIDE DEF lost
<1>4. rescan' \in RescanStates
  BY <1>2 DEF WatchInv, WatchTyped, RescanStates, TreeDirs
<1>5. blind \subseteq blind' /\ blind' \subseteq present
  BY <1>2 DEF WatchInv, WatchTyped, Below
<1>6. \A y \in present, e \in lost : e \in UpTo(y) => y \in Below(lost)
  BY DEF Below
<1>7. WatchTyped'
  BY <1>1, <1>4, <1>5 DEF WatchInv, WatchTyped
<1>8. EventsOnce' /\ TrackersFit'
  BY <1>1, <1>3 DEF WatchInv, EventsOnce, TrackersFit
<1>9. ASSUME NEW d \in Folders \cap present, Served(d) \/ WatchComes(d) PROVE Served(d)' \/ WatchComes(d)'
  <2>1. d \in Nodes \ {Top} /\ d \in UpTo(d) /\ UpTo(d) = {d} \cup UpTo(ParentOf[d])
    BY FoldersAreATree, UpToBasics DEF Nodes
  <2>2. d \in Below(lost) => Served(d)'
    BY <1>2 DEF Served
  <2>3. CASE Waiting(d)
    BY <1>3, <1>6, <2>1, <2>2, <2>3
  <2>4. CASE Served(ParentOf[d])' /\ ~Served(ParentOf[d])
    <3>1. ParentOf[d] \in Below(lost)
      BY <1>1, <1>2, <2>4 DEF Served
    <3>2. d \in Below(lost)
      BY <2>1, <3>1 DEF Below
    <3> QED BY <2>2, <3>2
  <2>5. CASE Served(d)
    BY <1>1, <1>5, <2>5 DEF Served
  <2>6. CASE WatchComes(d) /\ ~Waiting(d) /\ (~Served(ParentOf[d]) => ~Served(ParentOf[d])')
    BY <1>1, <2>6 DEF WatchComes
  <2> QED BY <1>9, <2>3, <2>4, <2>5, <2>6
<1>10. ASSUME NEW f \in Media \cap present
       PROVE  f \in enqueued' \cup blind' \/ Waiting(f)' \/ Firm(ParentOf[f])' \/ Prospective(ParentOf[f])'
  <2>1. f \in Nodes \ {Top} /\ ParentOf[f] \in Nodes /\ UpTo(f) = {f} \cup UpTo(ParentOf[f])
    BY FoldersAreATree, UpToBasics DEF Nodes
  <2>2. CASE ~rescan.on /\ ~rescan.cool
    <3>1. rescan'.on /\ rescan'.todo = {Top}
      BY <1>2, <2>2 DEF WatchInv, WatchTyped, RescanStates
    <3> QED BY <2>1, <3>1, RootAbove DEF Firm
  <2>3. CASE rescan.on \/ rescan.cool
    <3>1. blind' = blind \cup Below(lost) /\ rescan' = rescan
      BY <1>2, <2>3
    <3>2. f \in enqueued \cup blind \/ Waiting(f) \/ Firm(ParentOf[f]) \/ Prospective(ParentOf[f])
      BY DEF WatchInv
    <3>3. CASE Waiting(f)
      BY <1>3, <1>6, <2>1, <3>1, <3>3
    <3>4. CASE Firm(ParentOf[f])
      <4>1. Firm(ParentOf[f])'
        BY <1>1, <3>1, <3>4 DEF Firm
      <4> QED BY <4>1
    <3>5. CASE Prospective(ParentOf[f])
      <4>1. PICK e \in Folders \cap UpTo(ParentOf[f]) : (Waiting(e) \/ tracker[e].pc = "register") /\ ~WalkCovered(e)
        BY <3>5 DEF Prospective
      <4>2. CASE Waiting(e)
        BY <1>3, <1>6, <2>1, <3>1, <4>1, <4>2
      <4>3. CASE tracker[e].pc = "register"
        <5>1. ~WalkCovered(e)'
          BY <1>1, <4>1 DEF WalkCovered
        <5>2. tracker'[e].pc = "register"
          BY <1>1, <4>3
        <5> QED BY <4>1, <5>1, <5>2 DEF Prospective
      <4> QED BY <4>1, <4>2, <4>3
    <3> QED BY <1>1, <1>5, <3>2, <3>3, <3>4, <3>5
  <2> QED BY <2>2, <2>3
<1>11. \A x \in present' \ {Top} : ParentOf[x] \in present'
  BY <1>1 DEF WatchInv
<1>12. \A d \in Folders \cap present : Served(d) \/ WatchComes(d)
  BY DEF WatchInv
<1> QED BY <1>1, <1>7, <1>8, <1>9, <1>10, <1>11, <1>12 DEF WatchInv

LEMMA RescanReadsKeeps == ASSUME WatchInv, NEW x \in TreeDirs, RescanReads(x) PROVE WatchInv'
<1> DEFINE todo == (rescan.todo \ {x}) \cup FoldersIn(x)
<1>1. /\ rescan.on /\ x \in rescan.todo /\ enqueued' = enqueued \cup MediaIn(x)
      /\ rescan' = [rescan EXCEPT !.todo = todo] /\ UNCHANGED <<present, watched, events, tracker, refused, blind>>
  BY DEF RescanReads
<1>2. rescan' \in RescanStates /\ rescan'.on /\ rescan'.todo = todo
  BY <1>1 DEF WatchInv, WatchTyped, RescanStates, TreeDirs, FoldersIn
<1>3. ASSUME NEW f \in Media \cap present, Firm(ParentOf[f]) PROVE f \in enqueued' \/ Firm(ParentOf[f])'
  <2>1. ParentOf[f] \in TreeDirs \cap present
    BY FoldersAreATree DEF WatchInv, TreeDirs
  <2>2. CASE ParentOf[f] = x
    BY <1>1, <2>2 DEF MediaIn
  <2>3. CASE ParentOf[f] # x
    <3>1. rescan.todo \cap UpTo(ParentOf[f]) # {} => rescan'.todo \cap UpTo(ParentOf[f]) # {}
      BY <1>1, <1>2, <2>1, <2>3, ScanGoesOn
    <3> QED BY <1>1, <1>2, <1>3, <3>1 DEF Firm
  <2> QED BY <2>2, <2>3
<1>4. enqueued' \subseteq Media
  BY <1>1 DEF WatchInv, WatchTyped, MediaIn
<1> HIDE DEF todo
<1> QED BY <1>1, <1>2, <1>3, <1>4, RescanMoves

LEMMA RescanStopsKeeps == ASSUME WatchInv, RescanEnds \/ RescanCooled PROVE WatchInv'
<1>1. UNCHANGED <<present, watched, events, tracker, enqueued, refused, blind>> /\ (rescan.on => rescan.todo = {})
  BY DEF RescanEnds, RescanCooled, WatchInv, WatchTyped, RescanStates
<1>2. rescan' \in RescanStates
  <2>1. NoRescan \in RescanStates /\ [NoRescan EXCEPT !.cool = TRUE] \in RescanStates
    BY DEF NoRescan, RescanStates
  <2> QED BY <2>1 DEF RescanEnds, RescanCooled
<1>3. \A q : Firm(q) => Firm(q)'
  BY <1>1 DEF Firm
<1> QED BY <1>1, <1>2, <1>3, RescanMoves DEF WatchInv, WatchTyped

-----------------------------------------------------------------------------

LEMMA WatchSteps == ASSUME ~LateArrivals, WatchInv, [WaNext]_waVars PROVE WatchInv'
<1>1. CASE WaRuns
  BY <1>1, HandleKeeps, RescanStopsKeeps, RegisterKeeps, WatchedKeeps, CaughtUpKeeps, AddKeeps, RefusedKeeps, ReadFolderKeeps,
     CatchUpKeeps, RescanReadsKeeps DEF WaRuns, TreeDirs
<1>2. CASE Overflow
  BY <1>2, OverflowKeeps
<1>3. ASSUME NEW x \in Folders \cup Media, NEW below \in SUBSET (Folders \cup Media), Appear(x, below) PROVE WatchInv'
  BY <1>3, AppearKeeps
<1>4. CASE UNCHANGED waVars
  BY <1>4 DEF waVars, WatchInv, WatchTyped, EventsOnce, TrackersFit, WatchComes, Firm, Prospective, WalkCovered, Waiting, Served
<1> QED BY <1>1, <1>2, <1>3, <1>4 DEF WaNext

\* Once all is quiet no folder waits for its watch: the topmost one would wait for nothing.
LEMMA WatchInvSuffices == WatchInv => WaTypeOK /\ NothingMissed
<1>1. SUFFICES ASSUME WatchInv PROVE WaTypeOK /\ NothingMissed
  OBVIOUS
<1>2. WaTypeOK
  BY <1>1 DEF WatchInv, WatchTyped, WaTypeOK, Nodes, TreeDirs, Trackers, RescanStates
<1>3. ASSUME Quiet PROVE (\A d \in present \cap Folders : Served(d)) /\ present \cap Media \subseteq enqueued \cup blind
  <2>1. \A x : ~Waiting(x)
    BY <1>3 DEF Quiet, Waiting
  <2>2. \A d \in Folders \cap present : Served(d) \/ ~Served(ParentOf[d])
    BY <1>1, <1>3, <2>1 DEF WatchInv, WatchComes, Quiet
  <2>3. \A d \in present \cap Folders : Served(d)
    <3> DEFINE S == {d \in Folders \cap present : ~Served(d)}
    <3>1. SUFFICES ASSUME S # {} PROVE FALSE
      OBVIOUS
    <3>2. PICK d \in S : ParentOf[d] \notin S
      BY <3>1, FoldersAreATree
    <3>3. d \in Folders /\ d \in present /\ d # Top /\ ParentOf[d] \in TreeDirs /\ ParentOf[d] \in present
      BY <1>1, <3>2, FoldersAreATree DEF WatchInv, TreeDirs
    <3>4. Served(Top)
      BY <1>1 DEF WatchInv, WatchTyped, Served
    <3> QED BY <2>2, <3>2, <3>3, <3>4 DEF TreeDirs
  <2>4. ASSUME NEW f \in Media \cap present PROVE f \in enqueued \cup blind
    <3>1. f \in enqueued \cup blind \/ Firm(ParentOf[f]) \/ Prospective(ParentOf[f])
      BY <1>1, <2>1 DEF WatchInv
    <3> QED BY <1>3, <2>1, <3>1 DEF Firm, Prospective, Quiet
  <2> QED BY <2>3, <2>4
<1> QED BY <1>2, <1>3 DEF NothingMissed, Served

-----------------------------------------------------------------------------
(* The types, whatever happens in between.                                     *)

StoredFiles == [ver : 1..MaxEdits, stamp : 1..MaxEdits]
StoredRows  == [id : Ids, sum : 1..MaxEdits, stamp : 0..MaxEdits, status : {"pending", "indexed"}]
PipeSteps   == {"idle", "query", "hashed", "touch", "lookup", "derive", "finish"}
PipeShapes  == [pc : PipeSteps, path : Paths, stamp : 0..MaxEdits, sum : 0..MaxEdits, id : Ids \cup {0}]
PipeCalls ==
    {r \in PipeShapes :
        /\ r.pc = "idle" => r = Idle
        /\ r.pc \in {"hashed", "touch"} => r.sum # 0
        /\ r.pc \in {"derive", "finish"} => r.id # 0}

\* A call has a checksum once the file was read, and an id once the row was found.
PipelineTyped ==
    /\ edits \in 0..MaxEdits /\ disk \in [Paths -> StoredFiles \cup {NoFile}]
    /\ rows \in [Paths -> StoredRows \cup {NoRow}] /\ thumbs \in [Ids -> 0..MaxEdits]
    /\ jobs \in [Actors -> PipeCalls]
    /\ \A p, q \in Paths : rows[p].id = rows[q].id => p = q \/ rows[p] = NoRow

LEMMA PipeRecords ==
    /\ MaxEdits \in Nat /\ Idle \in PipeCalls /\ Idle.pc = "idle"
    /\ NoFile.ver = 0 /\ NoFile.stamp = 0 /\ NoRow.id = 0 /\ NoRow.status = "none" /\ 0 \notin Ids
    /\ NoFile \notin StoredFiles /\ NoRow \notin StoredRows
<1>1. (CHOOSE p \in Paths : TRUE) \in Paths
  BY IdsAreIds
<1> QED BY <1>1, IdsAreIds DEF Idle, PipeCalls, PipeShapes, PipeSteps, NoFile, NoRow, StoredFiles, StoredRows

LEMMA PipeStarts == ASSUME PlInit PROVE PipelineTyped
BY PipeRecords DEF PlInit, PipelineTyped

\* A call goes on, and only it.
LEMMA CallGoesOn ==
    ASSUME PipelineTyped, NEW a \in Actors, NEW r \in PipeCalls, jobs' = [jobs EXCEPT ![a] = r]
    PROVE  jobs' \in [Actors -> PipeCalls]
BY DEF PipelineTyped

LEMMA JobTyped ==
    ASSUME PipelineTyped, NEW a \in Actors
    PROVE  /\ jobs[a].pc \in PipeSteps /\ jobs[a].path \in Paths /\ jobs[a].stamp \in 0..MaxEdits
           /\ jobs[a].sum \in 0..MaxEdits /\ jobs[a].id \in Ids \cup {0} /\ jobs[a] \in PipeShapes
           /\ jobs[a].pc \in {"hashed", "touch"} => jobs[a].sum # 0
           /\ jobs[a].pc \in {"derive", "finish"} => jobs[a].id # 0
<1>1. jobs[a] \in PipeCalls
  BY DEF PipelineTyped
<1>2. jobs[a] \in PipeShapes
  BY <1>1 DEF PipeCalls
<1> QED BY <1>1, <1>2 DEF PipeCalls, PipeShapes

LEMMA CallIs ==
    ASSUME NEW r \in PipeShapes, r.pc # "idle", r.pc \in {"hashed", "touch"} => r.sum # 0,
           r.pc \in {"derive", "finish"} => r.id # 0
    PROVE  r \in PipeCalls
BY DEF PipeCalls

\* To which step it goes.
LEMMA CallGoes ==
    ASSUME PipelineTyped, NEW a \in Actors, NEW pc \in PipeSteps \ {"idle"}, Goes(a, pc),
           pc = "touch" => jobs[a].pc = "hashed", pc \in {"derive", "finish"} => jobs[a].pc = "derive", pc # "hashed"
    PROVE  jobs' \in [Actors -> PipeCalls]
<1> DEFINE r == [jobs[a] EXCEPT !.pc = pc]
<1>1. jobs[a] \in PipeShapes
  BY JobTyped
<1>2. r \in PipeShapes /\ r.pc = pc /\ r.sum = jobs[a].sum /\ r.id = jobs[a].id
  BY <1>1 DEF PipeShapes
<1>3. r \in PipeCalls
  BY <1>2, JobTyped, CallIs
<1>4. jobs' = [jobs EXCEPT ![a] = r]
  BY DEF Goes
<1> HIDE DEF r
<1> QED BY <1>3, <1>4, CallGoesOn

LEMMA CallEnds == ASSUME PipelineTyped, NEW a \in Actors, Ends(a) PROVE jobs' \in [Actors -> PipeCalls]
BY PipeRecords, CallGoesOn DEF Ends

LEMMA TakeTyped == ASSUME PipelineTyped, NEW a \in Actors, NEW p \in Paths, Take(a, p) PROVE jobs' \in [Actors -> PipeCalls]
<1> DEFINE r == [Idle EXCEPT !.pc = "query", !.path = p, !.stamp = disk[p].stamp]
<1>1. disk[p] \in StoredFiles \cup {NoFile}
  BY DEF PipelineTyped
<1>2. disk[p].stamp \in 0..MaxEdits
  BY <1>1, PipeRecords DEF StoredFiles
<1>3. r \in PipeShapes /\ r.pc = "query"
  BY <1>2, PipeRecords DEF PipeShapes, PipeSteps, PipeCalls
<1>4. r \in PipeCalls
  BY <1>3, CallIs
<1>5. jobs' = [jobs EXCEPT ![a] = r]
  BY DEF Take
<1> HIDE DEF r
<1> QED BY <1>4, <1>5, CallGoesOn

LEMMA ReadTyped == ASSUME PipelineTyped, NEW a \in Actors, Hash(a) \/ Lookup(a) PROVE jobs' \in [Actors -> PipeCalls]
<1> DEFINE p == jobs[a].path
           f == disk[p]
           h == [jobs[a] EXCEPT !.pc = "hashed", !.sum = f.ver]
           d == [jobs[a] EXCEPT !.pc = "derive", !.id = rows[p].id]
<1>1. p \in Paths /\ f \in StoredFiles \cup {NoFile} /\ rows[p] \in StoredRows \cup {NoRow}
  BY JobTyped DEF PipelineTyped
<1>2. jobs[a] \in PipeShapes
  BY JobTyped
<1>3. CASE jobs' = [jobs EXCEPT ![a] = Idle]
  BY <1>3, PipeRecords, CallGoesOn
<1>4. CASE Hash(a) /\ f # NoFile
  <2>1. f.ver \in 0..MaxEdits /\ f.ver # 0
    BY <1>1, <1>4, PipeRecords DEF StoredFiles
  <2>2. h \in PipeShapes /\ h.pc = "hashed" /\ h.sum = f.ver
    BY <1>2, <2>1 DEF PipeShapes, PipeSteps
  <2> HIDE DEF h
  <2>3. h \in PipeCalls
    BY <2>1, <2>2, CallIs
  <2>4. jobs' = [jobs EXCEPT ![a] = h]
    BY <1>4 DEF Hash, h
  <2> QED BY <2>3, <2>4, CallGoesOn
<1>5. CASE Lookup(a) /\ rows[p] # NoRow
  <2>1. rows[p].id \in Ids /\ jobs[a].pc # "idle"
    BY <1>1, <1>5 DEF StoredRows, Lookup
  <2>2. d \in PipeShapes /\ d.pc = "derive" /\ d.id = rows[p].id
    BY <1>2, <2>1, PipeRecords DEF PipeShapes, PipeSteps
  <2>3. d \in PipeCalls
    BY <2>1, <2>2, PipeRecords, CallIs
  <2>4. jobs' = [jobs EXCEPT ![a] = d]
    BY <1>5 DEF Lookup
  <2> HIDE DEF d
  <2> QED BY <2>3, <2>4, CallGoesOn
<1> QED BY <1>3, <1>4, <1>5 DEF Hash, Lookup

\* A row is written under a new id or its own, and keeps it.
LEMMA RowTyped ==
    ASSUME PipelineTyped, NEW a \in Actors, TouchRow(a) \/ Upsert(a) \/ Finish(a) PROVE PipelineTyped'
<1> DEFINE p == jobs[a].path
<1>1. p \in Paths /\ rows[p] \in StoredRows \cup {NoRow} /\ jobs[a].stamp \in 0..MaxEdits
  BY JobTyped DEF PipelineTyped
<1>2. CASE TouchRow(a)
  <2> DEFINE r == [rows[p] EXCEPT !.stamp = jobs[a].stamp]
  <2>1. CASE Indexed(p)
    <3>1. rows[p] \in StoredRows
      BY <1>1, <2>1, PipeRecords DEF Indexed
    <3>2. r \in StoredRows /\ r.id = rows[p].id
      BY <1>1, <3>1 DEF StoredRows
    <3>3. rows' = [rows EXCEPT ![p] = r]
      BY <1>2, <2>1 DEF TouchRow
    <3> HIDE DEF r
    <3>4. rows' \in [Paths -> StoredRows \cup {NoRow}] /\ \A q \in Paths : rows'[q] = IF q = p THEN r ELSE rows[q]
      BY <3>2, <3>3 DEF PipelineTyped
    <3>5. \A q, s \in Paths : rows'[q].id = rows'[s].id => q = s \/ rows'[q] = NoRow
      BY <3>1, <3>2, <3>4, PipeRecords DEF PipelineTyped
    <3>6. jobs' \in [Actors -> PipeCalls]
      BY <1>2, CallEnds DEF TouchRow
    <3> QED BY <1>2, <3>4, <3>5, <3>6 DEF TouchRow, PipelineTyped, fileVars
  <2>2. CASE ~Indexed(p)
    BY <1>2, <2>2, CallEnds DEF TouchRow, PipelineTyped, fileVars
  <2> QED BY <2>1, <2>2
<1>3. CASE Upsert(a)
  <2>1. PICK i \in IF rows[p] = NoRow THEN NewIds ELSE {rows[p].id} :
            rows' = [rows EXCEPT ![p] = [id |-> i, sum |-> jobs[a].sum, stamp |-> jobs[a].stamp, status |-> "pending"]]
    BY <1>3 DEF Upsert
  <2> DEFINE r == [id |-> i, sum |-> jobs[a].sum, stamp |-> jobs[a].stamp, status |-> "pending"]
  <2>2. i \in Ids /\ (rows[p] = NoRow => \A q \in Paths : rows[q].id # i) /\ (rows[p] # NoRow => i = rows[p].id)
    BY <1>1, <2>1 DEF NewIds, Unused, StoredRows
  <2>3. jobs[a].sum \in 1..MaxEdits
    <3>1. jobs[a].sum \in 0..MaxEdits /\ jobs[a].sum # 0
      BY <1>3, JobTyped DEF Upsert
    <3> QED BY ONLY <3>1, PipeRecords
  <2>4. r \in StoredRows /\ r.id = i
    BY <1>1, <2>2, <2>3 DEF StoredRows
  <2> HIDE DEF r
  <2>5. rows' \in [Paths -> StoredRows \cup {NoRow}] /\ \A q \in Paths : rows'[q] = IF q = p THEN r ELSE rows[q]
    BY <2>1, <2>4 DEF PipelineTyped, r
  <2>6. \A q, s \in Paths : rows'[q].id = rows'[s].id => q = s \/ rows'[q] = NoRow
    BY <1>1, <2>2, <2>4, <2>5, PipeRecords DEF PipelineTyped
  <2>7. jobs' \in [Actors -> PipeCalls]
    BY <1>3, CallGoes DEF Upsert, PipeSteps
  <2> QED BY <1>3, <2>5, <2>6, <2>7 DEF Upsert, PipelineTyped, fileVars
<1>4. CASE Finish(a)
  <2>1. jobs[a].id \in Ids
    BY <1>4, JobTyped DEF Finish
  <2>2. \A q \in Paths : /\ rows'[q] = IF rows[q].id = jobs[a].id THEN [rows[q] EXCEPT !.status = "indexed"] ELSE rows[q]
                         /\ rows[q] \in StoredRows \cup {NoRow}
    BY <1>4 DEF Finish, PipelineTyped
  <2>3. \A q \in Paths : /\ rows'[q] \in StoredRows \cup {NoRow} /\ rows'[q].id = rows[q].id
                         /\ rows[q] = NoRow => rows'[q] = NoRow
    BY <2>1, <2>2, PipeRecords DEF StoredRows
  <2>4. rows' \in [Paths -> StoredRows \cup {NoRow}]
    BY <1>4, <2>3 DEF Finish
  <2>5. jobs' \in [Actors -> PipeCalls]
    BY <1>4, CallEnds DEF Finish
  <2> QED BY <1>4, <2>3, <2>4, <2>5 DEF Finish, PipelineTyped, fileVars
<1> QED BY <1>2, <1>3, <1>4

LEMMA DeriveTyped == ASSUME PipelineTyped, NEW a \in Actors, Derive(a) PROVE PipelineTyped'
<1> DEFINE f == disk[jobs[a].path]
<1>1. f \in StoredFiles \cup {NoFile} /\ jobs[a].id \in Ids
  BY JobTyped DEF PipelineTyped, Derive
<1>2. f # NoFile => f.ver \in 0..MaxEdits
  BY <1>1 DEF StoredFiles
<1> HIDE DEF f
<1>3. thumbs' \in [Ids -> 0..MaxEdits]
  BY <1>1, <1>2 DEF Derive, PipelineTyped, f
<1>4. jobs' \in [Actors -> PipeCalls]
  BY CallGoes DEF Derive, PipeSteps
<1> QED BY <1>3, <1>4 DEF Derive, PipelineTyped, fileVars

LEMMA DropTyped == ASSUME PipelineTyped, NEW p \in Paths, DropRow(p), UNCHANGED <<fileVars, jobs>> PROVE PipelineTyped'
<1>1. rows[p] \in StoredRows \cup {NoRow}
  BY DEF PipelineTyped
<1>2. rows' \in [Paths -> StoredRows \cup {NoRow}] /\ \A q \in Paths : rows'[q] = IF q = p THEN NoRow ELSE rows[q]
  BY DEF DropRow, PipelineTyped
<1>3. \A q, s \in Paths : rows'[q].id = rows'[s].id => q = s \/ rows'[q] = NoRow
  <2> SUFFICES ASSUME NEW q \in Paths, NEW s \in Paths, rows'[q].id = rows'[s].id, rows'[q] # NoRow PROVE q = s
    OBVIOUS
  <2>1. rows'[q] = rows[q] /\ rows[q] \in StoredRows
    BY <1>2 DEF PipelineTyped
  <2>2. rows[q].id \in Ids
    BY <2>1 DEF StoredRows
  <2> QED BY <1>2, <2>1, <2>2, PipeRecords DEF PipelineTyped
<1>4. thumbs' \in [Ids -> 0..MaxEdits]
  BY <1>1, PipeRecords DEF DropRow, PipelineTyped, StoredRows
<1> QED BY <1>2, <1>3, <1>4 DEF PipelineTyped, fileVars

LEMMA EditTyped ==
    ASSUME PipelineTyped, NEW p \in Paths, NEW q \in Paths, Edit(p) \/ TouchFile(p) \/ Delete(p) \/ CopyOver(p, q)
    PROVE  PipelineTyped'
<1>1. edits' \in 1..MaxEdits /\ edits' = edits + 1
  BY PipeRecords DEF PipelineTyped, Edit, TouchFile, Delete, CopyOver, Editable
<1>2. PICK f \in StoredFiles \cup {NoFile} : disk' = [disk EXCEPT ![p] = f]
  <2>1. CASE Edit(p)
    BY <1>1, <2>1 DEF Edit, StoredFiles
  <2>2. CASE TouchFile(p)
    <3>1. disk[p] \in StoredFiles
      BY <2>2 DEF PipelineTyped, TouchFile, On
    <3>2. [disk[p] EXCEPT !.stamp = edits + 1] \in StoredFiles
      BY <1>1, <3>1 DEF StoredFiles
    <3> QED BY <2>2, <3>2 DEF TouchFile
  <2>3. CASE Delete(p)
    BY <2>3 DEF Delete
  <2>4. CASE CopyOver(p, q)
    <3>1. disk[q] \in StoredFiles
      BY <2>4 DEF PipelineTyped, CopyOver, On
    <3>2. [ver |-> disk[q].ver, stamp |-> edits + 1] \in StoredFiles
      BY <1>1, <3>1 DEF StoredFiles
    <3> QED BY <2>4, <3>2 DEF CopyOver
  <2> QED BY <2>1, <2>2, <2>3, <2>4
<1>3. disk' \in [Paths -> StoredFiles \cup {NoFile}]
  BY <1>2 DEF PipelineTyped
<1>4. edits' \in 0..MaxEdits /\ UNCHANGED <<rows, thumbs, jobs>>
  BY <1>1 DEF Edit, TouchFile, Delete, CopyOver
<1> QED BY <1>3, <1>4 DEF PipelineTyped

LEMMA PipeTypesStep == ASSUME PipelineTyped, [PlNext]_plVars PROVE PipelineTyped'
<1>1. ASSUME NEW a \in Actors, CallStep(a) PROVE PipelineTyped'
  <2>1. CASE FastSkip(a)
    BY <2>1, CallEnds DEF FastSkip, PipelineTyped, fileVars
  <2>2. CASE Hash(a) \/ Lookup(a)
    BY <2>2, ReadTyped DEF Hash, Lookup, PipelineTyped, fileVars
  <2>3. CASE Dedup(a)
    <3>1. jobs' \in [Actors -> PipeCalls]
      BY <2>3, CallGoes DEF Dedup, PipeSteps
    <3> QED BY <2>3, <3>1 DEF Dedup, PipelineTyped, fileVars
  <2> QED BY <1>1, <2>1, <2>2, <2>3, RowTyped, DeriveTyped DEF CallStep
<1>2. ASSUME NEW p \in Paths, PoolTakes(p) \/ ScanTakes(p) \/ ForceTakes(p) PROVE PipelineTyped'
  <2>1. jobs' \in [Actors -> PipeCalls]
    <3>1. UNCHANGED jobs \/ \E a \in Actors : Take(a, p)
      BY <1>2 DEF PoolTakes, ScanTakes, ForceTakes, Actors
    <3> QED BY <3>1, TakeTyped DEF PipelineTyped
  <2> QED BY <1>2, <2>1 DEF PoolTakes, ScanTakes, ForceTakes, PipelineTyped, fileVars
<1>3. ASSUME NEW p \in Paths, RemoveByPath(p) \/ PruneMissing(p) PROVE PipelineTyped'
  BY <1>3, DropTyped DEF RemoveByPath, PruneMissing
<1>4. CASE PruneReads \/ PruneRemoves \/ PruneFails
  <2>1. thumbs' \in [Ids -> 0..MaxEdits]
    BY <1>4, PipeRecords DEF PruneReads, PruneRemoves, PruneFails, PipelineTyped
  <2> QED BY <1>4, <2>1 DEF PruneReads, PruneRemoves, PruneFails, PipelineTyped, fileVars
<1>5. CASE Restart
  BY <1>5, PipeRecords DEF Restart, PipelineTyped, fileVars
<1>6. CASE UNCHANGED plVars
  BY <1>6 DEF plVars, PipelineTyped
<1> QED BY <1>1, <1>2, <1>3, <1>4, <1>5, <1>6, EditTyped DEF PlNext

LEMMA PipeTypes == ASSUME PipelineTyped PROVE PlTypeOK
BY PipeRecords DEF PipelineTyped, PlTypeOK, PipeCalls, PipeShapes, StoredRows

\* The watcher.
WaTyped ==
    /\ present \subseteq Nodes /\ watched \subseteq TreeDirs /\ enqueued \subseteq Media
    /\ events \in Seq(Folders \cup Media) /\ tracker \in [Folders -> Trackers] /\ rescan \in RescanStates
    /\ refused \subseteq Nodes /\ blind \subseteq Nodes

LEMMA WaStarts == ASSUME WaInit PROVE WaTyped
BY DEF WaInit, WaTyped, Nodes, TreeDirs, NoTracker, NoRescan, Trackers, RescanStates

LEMMA TrackerSet ==
    ASSUME WaTyped, NEW d \in Folders, NEW r \in Trackers, tracker' = [tracker EXCEPT ![d] = r]
    PROVE  tracker' \in [Folders -> Trackers]
BY DEF WaTyped

LEMMA TrackerTyped ==
    ASSUME WaTyped, NEW d \in Folders, NEW x \in Folders,
           \/ Register(d) \/ Watched(d) \/ CaughtUp(d) \/ AddWatch(d, x) \/ ReadFolder(d, x) \/ CatchUp(d, x)
           \/ \E quota \in BOOLEAN : WatchRefused(d, x, quota)
    PROVE  tracker' \in [Folders -> Trackers]
<1>1. tracker[d] \in Trackers /\ NoTracker \in Trackers
  BY DEF WaTyped, NoTracker, Trackers
<1>2. CASE tracker' = [tracker EXCEPT ![d] = NoTracker]
  BY <1>1, <1>2, TrackerSet
<1>3. CASE Register(d)
  <2> DEFINE r == [tracker[d] EXCEPT !.pc = "watch", !.covered = WalkCovered(d), !.todo = {<<d, "add">>}]
  <2>1. WalkCovered(d) \in BOOLEAN /\ {<<d, "add">>} \in SUBSET WalkSteps
    BY DEF WalkCovered, WalkSteps, TreeDirs
  <2>2. r \in Trackers
    BY <1>1, <2>1 DEF Trackers
  <2>3. tracker' = [tracker EXCEPT ![d] = r]
    BY <1>3 DEF Register
  <2> HIDE DEF r
  <2> QED BY <2>2, <2>3, TrackerSet
<1>4. CASE tracker' = [tracker EXCEPT ![d].pc = "index", ![d].todo = {d}]
  <2> DEFINE r == [tracker[d] EXCEPT !.pc = "index", !.todo = {d}]
  <2>1. r \in Trackers
    BY <1>1 DEF Trackers, WalkSteps
  <2>2. tracker' = [tracker EXCEPT ![d] = r]
    BY <1>1, <1>4 DEF WaTyped
  <2> HIDE DEF r
  <2> QED BY <2>1, <2>2, TrackerSet
<1>5. ASSUME NEW todo \in SUBSET WalkSteps, NEW w \in BOOLEAN, tracker' = [tracker EXCEPT ![d].todo = todo, ![d].worth = w]
      PROVE  tracker' \in [Folders -> Trackers]
  <2> DEFINE r == [tracker[d] EXCEPT !.todo = todo, !.worth = w]
  <2>1. r \in Trackers
    BY <1>1 DEF Trackers
  <2>2. tracker' = [tracker EXCEPT ![d] = r]
    BY <1>1, <1>5 DEF WaTyped
  <2> HIDE DEF r
  <2> QED BY <2>1, <2>2, TrackerSet
<1>7. CASE AddWatch(d, x) \/ \E quota \in BOOLEAN : WatchRefused(d, x, quota)
  <2> DEFINE todo == (tracker[d].todo \ {<<x, "add">>}) \cup {<<x, "read">>}
  <2>1. todo \in SUBSET WalkSteps
    BY <1>1 DEF Trackers, WalkSteps, TreeDirs
  <2>2. PICK w \in BOOLEAN : tracker' = [tracker EXCEPT ![d].todo = todo, ![d].worth = w]
    <3>1. CASE AddWatch(d, x)
      BY <3>1 DEF AddWatch
    <3>2. ASSUME NEW quota \in BOOLEAN, WatchRefused(d, x, quota)
          PROVE  \E w \in BOOLEAN : tracker' = [tracker EXCEPT ![d].todo = todo, ![d].worth = w]
      <4>1. (tracker[d].worth \/ quota) \in BOOLEAN
        OBVIOUS
      <4>2. tracker' = [tracker EXCEPT ![d].todo = todo, ![d].worth = tracker[d].worth \/ quota]
        BY <1>1, <3>2 DEF WatchRefused, WaTyped
      <4> HIDE DEF todo
      <4> QED BY <4>1, <4>2
    <3> QED BY <1>7, <3>1, <3>2
  <2> HIDE DEF todo
  <2> QED BY <1>5, <2>1, <2>2
<1>8. CASE ReadFolder(d, x)
  <2> DEFINE todo == (tracker[d].todo \ {<<x, "read">>}) \cup {<<c, "add">> : c \in FoldersIn(x)}
  <2>1. todo \in SUBSET WalkSteps /\ tracker[d].worth \in BOOLEAN
    BY <1>1 DEF Trackers, WalkSteps, TreeDirs, FoldersIn
  <2>2. tracker' = [tracker EXCEPT ![d].todo = todo]
    BY <1>8 DEF ReadFolder
  <2> HIDE DEF todo
  <2>3. tracker' = [tracker EXCEPT ![d].todo = todo, ![d].worth = tracker[d].worth]
    BY <1>1, <2>2 DEF WaTyped, Trackers
  <2> QED BY <1>5, <2>1, <2>3
<1>6. CASE CatchUp(d, x)
  <2> DEFINE todo == (tracker[d].todo \ {x}) \cup FoldersIn(x)
             r == [tracker[d] EXCEPT !.todo = todo, !.read = @ \cup {x}]
  <2>1. todo \in SUBSET WalkSteps
    BY <1>1 DEF Trackers, WalkSteps, FoldersIn
  <2>2. r \in Trackers
    BY <1>1, <2>1 DEF Trackers
  <2>3. tracker' = [tracker EXCEPT ![d] = r]
    BY <1>1, <1>6 DEF CatchUp, WaTyped, Trackers
  <2> HIDE DEF r
  <2> QED BY <2>2, <2>3, TrackerSet
<1> QED BY <1>2, <1>3, <1>4, <1>6, <1>7, <1>8 DEF Watched, CaughtUp

LEMMA WaTypesStep == ASSUME WaTyped, [WaNext]_waVars PROVE WaTyped'
<1>1. ASSUME NEW d \in Folders, NEW x \in Folders,
             \/ Register(d) \/ Watched(d) \/ CaughtUp(d) \/ AddWatch(d, x) \/ ReadFolder(d, x) \/ CatchUp(d, x)
             \/ \E quota \in BOOLEAN : WatchRefused(d, x, quota)
      PROVE  WaTyped'
  <2>1. watched' \subseteq TreeDirs /\ enqueued' \subseteq Media
    BY <1>1 DEF Register, Watched, CaughtUp, AddWatch, WatchRefused, ReadFolder, CatchUp, WaTyped, TreeDirs, MediaIn
  <2>2. UNCHANGED <<present, events, rescan>>
    BY <1>1 DEF Register, Watched, CaughtUp, AddWatch, WatchRefused, ReadFolder, CatchUp
  <2>4. refused' \subseteq Nodes /\ blind' \subseteq Nodes
    BY <1>1 DEF Register, Watched, CaughtUp, AddWatch, WatchRefused, ReadFolder, CatchUp, WaTyped, Below, Nodes
  <2>3. tracker' \in [Folders -> Trackers]
    BY <1>1, TrackerTyped
  <2> QED BY <2>1, <2>2, <2>3, <2>4 DEF WaTyped
<1>2. CASE HandleEvent
  <2>1. /\ Head(events) \in Folders \cup Media /\ events' \in Seq(Folders \cup Media)
        /\ UNCHANGED <<present, watched, rescan, refused, blind>>
    BY <1>2 DEF HandleEvent, WaTyped
  <2>2. [NoTracker EXCEPT !.pc = "register"] \in Trackers
    BY DEF NoTracker, Trackers
  <2>3. tracker' \in [Folders -> Trackers] /\ enqueued' \subseteq Media
    BY <1>2, <2>1, <2>2 DEF HandleEvent, WaTyped
  <2> QED BY <2>1, <2>3 DEF WaTyped
<1>3. ASSUME NEW x \in TreeDirs, RescanReads(x) PROVE WaTyped'
  <2>1. rescan' \in RescanStates
    BY <1>3 DEF RescanReads, WaTyped, RescanStates, FoldersIn, TreeDirs
  <2> QED BY <1>3, <2>1 DEF RescanReads, WaTyped, MediaIn
<1>4. CASE RescanEnds \/ RescanCooled
  <2>1. NoRescan \in RescanStates /\ [NoRescan EXCEPT !.cool = TRUE] \in RescanStates
    BY DEF NoRescan, RescanStates
  <2>2. rescan' \in RescanStates
    BY <1>4, <2>1 DEF RescanEnds, RescanCooled
  <2> QED BY <1>4, <2>2 DEF RescanEnds, RescanCooled, WaTyped
<1>5. CASE Overflow
  <2>1. rescan' \in RescanStates
    BY <1>5 DEF Overflow, WaTyped, RescanStates, TreeDirs
  <2>2. blind' \subseteq Nodes
    BY <1>5 DEF Overflow, WaTyped, Below
  <2> QED BY <1>5, <2>1, <2>2 DEF Overflow, WaTyped
<1>6. ASSUME NEW x \in Folders \cup Media, NEW below \in SUBSET (Folders \cup Media), Appear(x, below) PROVE WaTyped'
  BY <1>6 DEF Appear, WaTyped, Nodes
<1>7. CASE UNCHANGED waVars
  BY <1>7 DEF waVars, WaTyped
<1> QED BY <1>1, <1>2, <1>3, <1>4, <1>5, <1>6, <1>7 DEF WaNext, WaRuns, TreeDirs

LEMMA WaTypes == ASSUME WaTyped PROVE WaTypeOK
BY DEF WaTyped, WaTypeOK, Nodes, TreeDirs, Trackers, RescanStates

\* The subscriber.
BuTyped == BuTypeOK /\ sub = [pc |-> sub.pc, backoff |-> sub.backoff, paths |-> sub.paths]

LEMMA BuTypesStep == ASSUME BuTyped, [BuNext]_buVars PROVE BuTyped'
<1> USE DEF BuTyped, BuTypeOK
<1>1. \A paths : Named(paths) \subseteq BusFiles
  BY DEF Named, Under
<1>2. nextBackoff(sub.backoff) \in InitialBackoff..MaxBackoff /\ InitialBackoff \in InitialBackoff..MaxBackoff
  BY Backoffs DEF nextBackoff
<1>3. CASE DialSucceeds
  BY <1>2, <1>3 DEF DialSucceeds
<1>4. CASE DialFails
  BY <1>4 DEF DialFails
<1>5. CASE ConnectionLost
  BY <1>1, <1>5 DEF ConnectionLost
<1>6. CASE Slept
  BY <1>2, <1>6 DEF Slept
<1>7. CASE ReadsMessage
  BY <1>7 DEF ReadsMessage
<1>8. CASE SkipsPath \/ RemovesRow \/ PrunesUnder
  BY <1>8 DEF SkipsPath, RemovesRow, PrunesUnder, NextPath
<1>9. ASSUME NEW paths \in Requests, Deleted(paths) PROVE BuTyped'
  BY <1>9 DEF Deleted
<1>10. ASSUME NEW f \in BusFiles, PutBack(f) PROVE BuTyped'
  BY <1>10 DEF PutBack
<1>11. CASE OtherEvent \/ Rescans \/ UNCHANGED buVars
  BY <1>11 DEF OtherEvent, Rescans, buVars
<1> QED BY <1>3, <1>4, <1>5, <1>6, <1>7, <1>8, <1>9, <1>10, <1>11 DEF BuNext

\* The tasks.
TaskStates == {Nothing, "running", "final"}

TkTyped ==
    /\ task \in [TaskIds -> TaskStates] /\ lastSt \in [TaskIds -> TaskStates] /\ shown \in [TaskIds -> TaskStates]
    /\ sending \in [Producers \cup TaskIds -> TaskStates]
    /\ producer \in [Producers -> [pc : {"run", "hung", "cleanup", "over"}, updates : Nat]]

LEMMA UpsertTyped ==
    ASSUME TkTyped, NEW p \in Producers, NEW st \in {"running", "final"}, TaskUpsert(p, st)
    PROVE  /\ task' \in [TaskIds -> TaskStates] /\ lastSt' \in [TaskIds -> TaskStates]
           /\ sending' \in [Producers \cup TaskIds -> TaskStates]
BY DEF TkTyped, TaskUpsert, TaskIds, TaskStates

LEMMA TkTypesStep == ASSUME TkTyped, [TkNext]_tkVars PROVE TkTyped'
<1>1. ASSUME NEW p \in Producers, Progress(p) \/ Final(p) PROVE TkTyped'
  <2>1. PICK st \in {"running", "final"} : TaskUpsert(p, st)
    BY <1>1 DEF Progress, Final
  <2>2. producer' \in [Producers -> [pc : {"run", "hung", "cleanup", "over"}, updates : Nat]] /\ UNCHANGED shown
    BY <1>1 DEF Progress, Final, TkTyped
  <2> QED BY <2>1, <2>2, UpsertTyped DEF TkTyped
<1>2. ASSUME NEW p \in Producers, Remove(p) \/ Hang(p) \/ Wake(p) PROVE TkTyped'
  <2>1. producer' \in [Producers -> [pc : {"run", "hung", "cleanup", "over"}, updates : Nat]] /\ UNCHANGED <<shown, sending>>
    BY <1>2 DEF Remove, Hang, Wake, TkTyped
  <2>2. task' \in [TaskIds -> TaskStates] /\ lastSt' \in [TaskIds -> TaskStates]
    BY <1>2 DEF Remove, Hang, Wake, Drop, TkTyped, TaskStates
  <2> QED BY <2>1, <2>2 DEF TkTyped
<1>3. ASSUME NEW x \in Producers \cup TaskIds, Send(x) PROVE TkTyped'
  <2>1. sending[x] \in TaskStates /\ Nothing \in TaskStates
    BY DEF TkTyped, TaskStates
  <2>2. shown' \in [TaskIds -> TaskStates] /\ sending' \in [Producers \cup TaskIds -> TaskStates]
    BY <1>3, <2>1 DEF Send, TkTyped
  <2> QED BY <1>3, <2>2 DEF Send, TkTyped
<1>4. ASSUME NEW t \in TaskIds, GrowsStale(t) \/ sweepStale(t) PROVE TkTyped'
  BY <1>4 DEF GrowsStale, sweepStale, Drop, TkTyped, TaskStates
<1>5. CASE UNCHANGED tkVars
  BY <1>5 DEF tkVars, TkTyped
<1> QED BY <1>1, <1>2, <1>3, <1>4, <1>5 DEF TkNext, TkRuns

\* The sprites.
SpTyped ==
    /\ LeadersOK
    /\ output \subseteq Videos /\ source \subseteq Videos /\ ffmpeg \in BOOLEAN /\ slots \subseteq Everyone /\ cooling \subseteq Videos

LEMMA SpTypesStep == ASSUME SpTyped, [SpNext]_spVars PROVE SpTyped'
<1> USE DEF SpTyped
<1>1. LeadersOK'
  BY StepLeads
<1>2. ASSUME NEW c \in Everyone, Steps(c) PROVE SpTyped'
  <2>1. call[c].video \in Videos
    BY DEF LeadersOK, CallsOK, Calls
  <2> QED BY <1>1, <1>2, <2>1 DEF Steps, JoinOrLead, TakesSlot, Builds, Releases, Joined, CallerReturns, spEnv
<1>3. ASSUME NEW c \in Callers, NEW v \in Videos, CallerArrives(c, v) PROVE SpTyped'
  BY <1>1, <1>3 DEF CallerArrives, spEnv
<1>4. CASE PassStarts \/ PassNext \/ PassEnds
  BY <1>1, <1>4 DEF PassStarts, PassNext, PassEnds, spEnv
<1>5. CASE Records
  <2>1. call[Backfill].video \in Videos
    BY DEF LeadersOK, CallsOK, Calls, Everyone
  <2>2. cooling' \subseteq Videos
    BY <1>5, <2>1 DEF Records
  <2> QED BY <1>1, <1>5, <2>2 DEF Records, spEnv
<1>6. ASSUME NEW v \in Videos, RetryDue(v) \/ OutputPurged(v) PROVE SpTyped'
  BY <1>1, <1>6 DEF RetryDue, OutputPurged, spEnv
<1>7. CASE GoesAway \/ ComesBack
  BY <1>1, <1>7 DEF GoesAway, ComesBack
<1>8. CASE UNCHANGED spVars
  BY <1>1, <1>8 DEF spVars
<1> QED BY <1>2, <1>3, <1>4, <1>5, <1>6, <1>7, <1>8 DEF SpNext, SpRuns

LEMMA SpTypes == ASSUME SpTyped PROVE SpTypeOK
BY DEF SpTyped, SpTypeOK, LeadersOK, CallsOK

\* The statistics: what can be pruned was counted.
StTyped == Kept /\ walk.out.prunable \subseteq walk.out.counted /\ cache.prunable \subseteq cache.counted

LEMMA StTypesStep == ASSUME StTyped, [StNext]_stVars PROVE StTyped'
<1>1. Kept' /\ cache \in Counts /\ walk \in Walks /\ walk.out \in Counts
  BY StepKept DEF StTyped, Kept, StorageTyped, Walks
<1>2. CASE walk' = walk /\ cache' = cache
  BY <1>1, <1>2 DEF StTyped
<1>3. CASE walk' = NoWalk /\ cache' = cache
  BY <1>1, <1>3 DEF StTyped, NoWalk, NoCache
<1>4. CASE WalkStarts /\ cache' = cache
  BY <1>1, <1>4 DEF StTyped, WalkStarts, NoWalk, NoCache
<1>5. CASE CacheExpires
  BY <1>1, <1>5 DEF StTyped, CacheExpires, Counts
<1>6. CASE WalkReadsIds \/ WalkLists
  BY <1>1, <1>3, <1>6 DEF StTyped, WalkReadsIds, WalkLists, Walks
<1>7. ASSUME NEW d \in Dirs, WalkCounts(d) PROVE StTyped'
  <2>1. /\ walk'.out.counted = IF dir[d] # "none" THEN walk.out.counted \cup {d} ELSE walk.out.counted
        /\ walk'.out.prunable = IF dir[d] # "none" /\ d \notin walk.ids THEN walk.out.prunable \cup {d} ELSE walk.out.prunable
        /\ cache' = cache
    BY <1>1, <1>7 DEF WalkCounts, Walks, Counts
  <2> QED BY <1>1, <2>1 DEF StTyped
<1>8. CASE WalkPublishes
  BY <1>1, <1>8 DEF StTyped, WalkPublishes, NoWalk, NoCache, Counts
<1>9. CASE PruneEnds
  BY <1>1, <1>9 DEF StTyped, PruneEnds, NoCache
<1>10. CASE UNCHANGED stVars
  BY <1>2, <1>10 DEF stVars
<1>11. ASSUME NEW d \in Dirs, NEW to \in {"owned", "orphan", "none"}, PruneOne(d) \/ DirEvent(d, to) PROVE StTyped'
  BY <1>2, <1>11 DEF PruneOne, DirEvent
<1>12. CASE PruneBreaks \/ PruneStarts
  BY <1>2, <1>12 DEF PruneBreaks, PruneStarts
<1>13. CASE Stats \/ WarmFS
  BY <1>4, <1>13 DEF Stats, WarmFS
<1> QED BY <1>5, <1>6, <1>7, <1>8, <1>9, <1>10, <1>11, <1>12, <1>13 DEF StNext, StRuns

LEMMA StTypes == ASSUME StTyped PROVE StTypeOK
BY DEF StTyped, StTypeOK, Kept, StorageTyped, Walks, Prunes, Counts

\* The places, also of photos that move.
GeTyped ==
    /\ gps \in [Places -> Positions] /\ geo \in [Places -> Spots \cup {"none"}] /\ caller \in [GeoCallers -> GeoCalls]
    /\ \A c \in GeoCallers : caller[c].pc = "write" => caller[c].at # <<>>

LEMMA GeoCallTyped ==
    ASSUME GeTyped, NEW c \in GeoCallers, NEW r \in GeoCalls, caller' = [caller EXCEPT ![c] = r],
           r.pc = "write" => r.at # <<>>, gps' \in [Places -> Positions], geo' \in [Places -> Spots \cup {"none"}]
    PROVE  GeTyped'
<1>1. caller' \in [GeoCallers -> GeoCalls] /\ \A d \in GeoCallers : caller'[d] = IF d = c THEN r ELSE caller[d]
  BY DEF GeTyped
<1> QED BY <1>1 DEF GeTyped

LEMMA GeTypesStep == ASSUME GeTyped, [GeNext]_geVars PROVE GeTyped'
<1>1. ASSUME NEW c \in GeoCallers, NEW pc \in {"idle", "query", "ended", "dead"}, caller' = [caller EXCEPT ![c] = NoGeoCall(pc)],
             UNCHANGED <<gps, geo>>
      PROVE  GeTyped'
  BY <1>1, CallsAreRecords, GeoCallTyped DEF GeTyped
<1>2. ASSUME NEW c \in GeoCallers, GeoCalled(c) \/ GeoLoops(c) \/ GeoError(c) PROVE GeTyped'
  BY <1>1, <1>2 DEF GeoCalled, GeoLoops, GeoError, Fails
<1>3. ASSUME NEW c \in GeoCallers, GeoQuery(c) PROVE GeTyped'
  <2>1. CASE GeoPending = {}
    BY <1>1, <1>3, <2>1 DEF GeoQuery
  <2>2. CASE GeoPending # {}
    <3>1. PICK ids \in SUBSET GeoPending : caller' = [caller EXCEPT ![c] = [NoGeoCall("read") EXCEPT !.ids = ids]]
      BY <1>3, <2>2 DEF GeoQuery
    <3> DEFINE r == [NoGeoCall("read") EXCEPT !.ids = ids]
    <3>2. r \in GeoCalls /\ r.pc = "read"
      BY DEF NoGeoCall, GeoCalls, GeoPending
    <3> HIDE DEF r
    <3> QED BY <1>3, <3>1, <3>2, GeoCallTyped DEF r, GeoQuery, GeTyped
  <2> QED BY <2>1, <2>2
<1>4. ASSUME NEW c \in GeoCallers, NEW x \in Places, GeocodeReads(c, x) PROVE GeTyped'
  <2> DEFINE w == [caller[c] EXCEPT !.pc = "write", !.at = <<x, gps[x]>>]
             n == [caller[c] EXCEPT !.ids = caller[c].ids \ {x}]
  <2>1. caller[c] \in GeoCalls /\ caller[c].pc = "read" /\ UNCHANGED <<gps, geo>>
    BY <1>4 DEF GeocodeReads, GeTyped
  <2>2. n \in GeoCalls /\ n.pc = "read"
    BY <2>1 DEF GeoCalls
  <2>3. gps[x] \in Spots => w \in GeoCalls /\ w.at # <<>>
    BY <2>1 DEF GeoCalls
  <2>4. caller' = [caller EXCEPT ![c] = IF gps[x] \in Spots THEN w ELSE n]
    BY <1>4 DEF GeocodeReads
  <2> HIDE DEF w, n
  <2> QED BY <2>1, <2>2, <2>3, <2>4, GeoCallTyped DEF GeTyped
<1>5. ASSUME NEW c \in GeoCallers, NEW x \in Places, GeocodeWrites(c, x) PROVE GeTyped'
  <2>1. CASE gps[x] = "gone"
    BY <1>1, <1>5, <2>1 DEF GeocodeWrites, Fails
  <2>2. CASE gps[x] # "gone"
    <3> DEFINE r == [NoGeoCall("read") EXCEPT !.ids = caller[c].ids \ {x}]
    <3>1. caller[c] \in GeoCalls /\ caller[c].at # <<>>
      BY <1>5 DEF GeocodeWrites, GeTyped
    <3>2. caller[c].at[2] \in Spots /\ r \in GeoCalls /\ r.pc = "read"
      BY <3>1 DEF GeoCalls, NoGeoCall
    <3>3. /\ caller' = [caller EXCEPT ![c] = r] /\ geo' \in [Places -> Spots \cup {"none"}]
          /\ gps' \in [Places -> Positions]
      BY <1>5, <2>2, <3>2 DEF GeocodeWrites, GeTyped
    <3> HIDE DEF r
    <3> QED BY <3>2, <3>3, GeoCallTyped
  <2> QED BY <2>1, <2>2
<1>6. ASSUME NEW x \in Places, NEW to \in Spots \cup {"none", "gone"}, PlaceEvent(x, to) PROVE GeTyped'
  BY <1>6 DEF PlaceEvent, GeTyped, Positions
<1>7. ASSUME NEW upgraded \in BOOLEAN, GeoRestart(upgraded) PROVE GeTyped'
  <2>1. caller' \in [GeoCallers -> GeoCalls] /\ \A c \in GeoCallers : caller'[c].pc # "write"
    BY <1>7, CallsAreRecords DEF GeoRestart, AfterLoop
  <2> QED BY <1>7, <2>1 DEF GeoRestart, regeocodeIfStale, GeTyped
<1>8. ASSUME NEW x \in Places, PlaceTrashed(x) PROVE GeTyped'
  BY <1>8 DEF PlaceTrashed, GeTyped
<1>9. CASE UNCHANGED geVars
  BY <1>9 DEF geVars, GeTyped
<1> QED BY <1>2, <1>3, <1>4, <1>5, <1>6, <1>7, <1>8, <1>9 DEF GeNext, GeRuns

-----------------------------------------------------------------------------
(* Side by side: a step of one component is a step of its own specification,   *)
(* and no step of any other.                                                   *)

mcVars == <<plVars, upVars, waVars, tkVars, spVars, stVars, geVars, buVars, part>>

LEMMA StartSideBySide == MCInit => WaInit /\ BuInit /\ SpInit /\ GeInit
BY DEF MCInit

LEMMA StepSideBySide ==
    [MCNext]_mcVars => /\ [PlNext]_plVars /\ [UpNext]_upVars /\ [WaNext]_waVars /\ [BuNext]_buVars
                       /\ [TkNext]_tkVars /\ [SpNext]_spVars /\ [StNext]_stVars /\ [GeNext]_geVars
<1>1. SUFFICES ASSUME [MCNext]_mcVars
      PROVE  /\ [PlNext]_plVars /\ [UpNext]_upVars /\ [WaNext]_waVars /\ [BuNext]_buVars
             /\ [TkNext]_tkVars /\ [SpNext]_spVars /\ [StNext]_stVars /\ [GeNext]_geVars
  OBVIOUS
<1>2. CASE MCNext
  BY <1>2 DEF MCNext
<1>3. CASE UNCHANGED mcVars
  BY <1>3 DEF mcVars
<1> QED BY <1>1, <1>2, <1>3

\* For any number of callers, videos, photos and places, whatever the order of the steps:
\* one ffmpeg process at a time writes a sprite (sprites.go), and no photo is listed under
\* a place it was not taken at (georesolver.go), as long as an indexed photo keeps the
\* position it got.
THEOREM SideDataCorrect == ASSUME PositionsStay PROVE MCSpec => []SideDataSound
<1>1. LeadersOK /\ GeoInv => SideDataSound
  <2>1. LeadersOK => OneBuilder
    BY DEF LeadersOK, LeadersKnown, OneBuilder, Leading
  <2> QED BY <2>1 DEF GeoInv, SideDataSound
<1>2. MCInit => LeadersOK /\ GeoInv
  BY StartSideBySide, InitLeads, GeoStarts
<1>3. LeadersOK /\ GeoInv /\ [MCNext]_mcVars => (LeadersOK /\ GeoInv)'
  BY StepSideBySide, StepLeads, GeoSteps
<1> QED BY <1>1, <1>2, <1>3, PTL DEF MCSpec, mcVars

\* Whatever the tree of folders, the order in which they appear and the order in which the
\* goroutines and the rescan walk them: once the watcher is at rest every folder is watched
\* and every file was given to the indexer (watcher.go), and a deletion that the bus told
\* of, or that fell into a break of its connection, removes the row (busdelete.go); as long
\* as nothing appears behind a walk and no path is filled again too early.
THEOREM NoticedCorrect == ASSUME ~LateArrivals, EventsAreTimely PROVE MCSpec => []ChangesAreNoticed
<1>1. WatchInv /\ BusInv => ChangesAreNoticed
  BY WatchInvSuffices, BusInvSuffices DEF ChangesAreNoticed
<1>2. MCInit => WatchInv /\ BusInv
  BY StartSideBySide, WatchStarts, BusStarts
<1>3. WatchInv /\ BusInv /\ [MCNext]_mcVars => (WatchInv /\ BusInv)'
  BY StepSideBySide, WatchSteps, BusSteps
<1> QED BY <1>1, <1>2, <1>3, PTL DEF MCSpec, mcVars

\* For any files, uploads, folders, tasks, videos, directories and photos, and any order of
\* the steps: the eight components keep their types, among them that no two rows have one
\* id, that a call with a checksum has read the file, and that what the statistics offer to
\* prune they have counted (indexer.go, tus.go, watcher.go, busdelete.go, tasks.go,
\* sprite.go, storage.go, geo.go).
THEOREM FileTypesCorrect == MCSpec => []FileTypesOK
<1> DEFINE Inv == PipelineTyped /\ UploadsOK /\ WaTyped /\ BuTyped /\ TkTyped /\ SpTyped /\ StTyped /\ GeTyped
<1>1. MCInit => Inv
  <2> SUFFICES ASSUME MCInit PROVE Inv
    OBVIOUS
  <2>1. UploadsOK /\ PipelineTyped /\ WaTyped
    BY InitOK, PipeStarts, WaStarts DEF MCInit
  <2>2. BuTyped
    BY Backoffs DEF MCInit, BuInit, BuTyped, BuTypeOK
  <2>3. TkTyped
    BY DEF MCInit, TkInit, TkTyped, TaskStates, TaskIds
  <2>4. SpTyped
    BY InitLeads DEF MCInit, SpInit, SpTyped
  <2>5. StTyped
    BY StartKept DEF MCInit, StInit, StTyped, NoWalk, NoCache
  <2>6. GeTyped
    BY GeoStarts DEF MCInit, GeoInv, GeTyped
  <2> QED BY <2>1, <2>2, <2>3, <2>4, <2>5, <2>6
<1>2. Inv /\ [MCNext]_mcVars => Inv'
  <2> SUFFICES ASSUME Inv, [MCNext]_mcVars PROVE Inv'
    OBVIOUS
  <2>1. UploadsOK'
    BY StepSideBySide, RowsKept, FilesKept DEF UploadsOK
  <2> QED BY <2>1, StepSideBySide, PipeTypesStep, WaTypesStep, BuTypesStep, TkTypesStep, SpTypesStep, StTypesStep, GeTypesStep
<1>3. Inv => FileTypesOK
  <2> SUFFICES ASSUME Inv PROVE FileTypesOK
    OBVIOUS
  <2>1. TkTypeOK
    BY DEF TkTyped, TkTypeOK, TaskStates
  <2>2. GeTypeOK
    BY DEF GeTyped, GeTypeOK, Positions, GeoCalls
  <2> QED BY <2>1, <2>2, PipeTypes, Typed, WaTypes, SpTypes, StTypes DEF BuTyped, FileTypesOK
<1> HIDE DEF Inv
<1> QED BY <1>1, <1>2, <1>3, PTL DEF MCSpec, mcVars
=============================================================================
