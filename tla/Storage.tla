-------------------------------- MODULE Storage --------------------------------
(* Storage statistics (service/storage.go): the sizes of the thumbnail tree      *)
(* come from a walk in the background and are served from a cache; a prune       *)
(* removes the directories of deleted assets and invalidates the cache, also     *)
(* under a walk that has already passed them (fsGen).                            *)
EXTENDS Naturals, FiniteSets

CONSTANTS Dirs, MaxDirEvents, MaxPrunes, MaxWalkFailures

VARIABLES
    dir,        \* per thumbnail directory: "none", "owned" by an asset, or "orphan"
    cache,      \* fsCache: what a walk counted, when it was published
    fsGen,
    walk,       \* fsRefreshing, and the walk: its generation, assets read, dirs counted
    prune,      \* the prune: step, assets read, directories seen, and those it removed
    freed,      \* ghost: what finished prunes removed and nobody made again
    dirEvents, pruneRuns, walkFailures

stVars == <<dir, cache, fsGen, walk, prune, freed, dirEvents, pruneRuns, walkFailures>>

NoCache == [here |-> FALSE, fresh |-> FALSE, counted |-> {}, prunable |-> {}]
NoWalk  == [pc |-> "idle", gen |-> 0, ids |-> {}, left |-> {}, out |-> NoCache]
NoPrune == [pc |-> "idle", ids |-> {}, left |-> {}, removed |-> {}]
Owned   == {d \in Dirs : dir[d] = "owned"}
OnDisk  == {d \in Dirs : dir[d] # "none"}

StInit ==
    /\ dir = [d \in Dirs |-> "none"] /\ cache = NoCache /\ fsGen = 0 /\ walk = NoWalk /\ prune = NoPrune
    /\ freed = {} /\ dirEvents = 0 /\ pruneRuns = 0 /\ walkFailures = 0

--------------------------------------------------------------------------------
(* Stats and its walk.                                                          *)

WalkStarts == walk' = [NoWalk EXCEPT !.pc = "ids", !.gen = fsGen]

\* Mutant: what is cached is never looked at again.
StatsOnce ==
    /\ walk.pc = "idle" /\ ~cache.here
    /\ WalkStarts
    /\ UNCHANGED <<dir, cache, fsGen, prune, freed, dirEvents, pruneRuns, walkFailures>>

\* A request while there is no cache, or it has expired.
Stats ==
    /\ walk.pc = "idle" /\ ~(cache.here /\ cache.fresh)
    /\ WalkStarts
    /\ UNCHANGED <<dir, cache, fsGen, prune, freed, dirEvents, pruneRuns, walkFailures>>

\* After the start of the service, or at any other time.
WarmFS ==
    /\ walk.pc = "idle" /\ cache.here /\ cache.fresh /\ dirEvents < MaxDirEvents
    /\ WalkStarts
    /\ UNCHANGED <<dir, cache, fsGen, prune, freed, dirEvents, pruneRuns, walkFailures>>

\* storageCacheTTL.
CacheExpires ==
    /\ cache.here /\ cache.fresh
    /\ cache' = [cache EXCEPT !.fresh = FALSE]
    /\ UNCHANGED <<dir, fsGen, walk, prune, freed, dirEvents, pruneRuns, walkFailures>>

WalkReadsIds ==
    /\ walk.pc = "ids"
    /\ \/ walk' = [walk EXCEPT !.pc = "list", !.ids = Owned] /\ UNCHANGED walkFailures
       \/ walkFailures < MaxWalkFailures /\ walkFailures' = walkFailures + 1 /\ walk' = NoWalk
    /\ UNCHANGED <<dir, cache, fsGen, prune, freed, dirEvents, pruneRuns>>

WalkLists ==
    /\ walk.pc = "list"
    /\ walk' = [walk EXCEPT !.pc = "sum", !.left = OnDisk]
    /\ UNCHANGED <<dir, cache, fsGen, prune, freed, dirEvents, pruneRuns, walkFailures>>

\* One directory, which may be gone by now.
WalkCounts(d) ==
    /\ walk.pc = "sum" /\ d \in walk.left
    /\ walk' = [walk EXCEPT !.left = @ \ {d},
                            !.out.counted  = IF dir[d] # "none" THEN @ \cup {d} ELSE @,
                            !.out.prunable = IF dir[d] # "none" /\ d \notin walk.ids THEN @ \cup {d} ELSE @]
    /\ UNCHANGED <<dir, cache, fsGen, prune, freed, dirEvents, pruneRuns, walkFailures>>

\* Mutant: the walk does not look whether it was invalidated.
PublishesAnyhow ==
    /\ walk.pc = "sum" /\ walk.left = {} /\ walk' = NoWalk
    /\ cache' = [walk.out EXCEPT !.here = TRUE, !.fresh = TRUE]
    /\ UNCHANGED <<dir, fsGen, prune, freed, dirEvents, pruneRuns, walkFailures>>

\* refreshFS publishes, unless an Invalidate came between.
WalkPublishes ==
    /\ walk.pc = "sum" /\ walk.left = {} /\ walk' = NoWalk
    /\ cache' = IF walk.gen = fsGen THEN [walk.out EXCEPT !.here = TRUE, !.fresh = TRUE] ELSE cache
    /\ UNCHANGED <<dir, fsGen, prune, freed, dirEvents, pruneRuns, walkFailures>>

--------------------------------------------------------------------------------
(* Prune.                                                                       *)

PruneStarts ==
    /\ prune.pc = "idle" /\ pruneRuns < MaxPrunes /\ pruneRuns' = pruneRuns + 1
    /\ prune' = [NoPrune EXCEPT !.pc = "remove", !.ids = Owned, !.left = OnDisk]
    /\ UNCHANGED <<dir, cache, fsGen, walk, freed, dirEvents, walkFailures>>

PruneOne(d) ==
    /\ prune.pc = "remove" /\ d \in prune.left
    /\ prune' = [prune EXCEPT !.left = @ \ {d}, !.removed = IF d \in prune.ids THEN @ ELSE @ \cup {d}]
    /\ dir' = IF d \in prune.ids THEN dir ELSE [dir EXCEPT ![d] = "none"]
    /\ UNCHANGED <<cache, fsGen, walk, freed, dirEvents, pruneRuns, walkFailures>>

\* The face crops cannot be read: what was removed stays removed, the cache as it was.
PruneBreaks ==
    /\ prune.pc = "remove" /\ prune.left = {} /\ walkFailures < MaxWalkFailures
    /\ walkFailures' = walkFailures + 1 /\ prune' = NoPrune
    /\ UNCHANGED <<dir, cache, fsGen, walk, freed, dirEvents, pruneRuns>>

\* Invalidate.
PruneEnds ==
    /\ prune.pc = "remove" /\ prune.left = {}
    /\ prune' = NoPrune /\ freed' = freed \cup {d \in prune.removed : dir[d] = "none"}
    /\ cache' = NoCache /\ fsGen' = fsGen + 1
    /\ UNCHANGED <<dir, walk, dirEvents, pruneRuns, walkFailures>>

--------------------------------------------------------------------------------
\* Indexing makes a directory; a row goes and leaves it behind (a drive that stays
\* away, a crash before the thumbnails are removed).
DirEvent(d, to) ==
    /\ dirEvents < MaxDirEvents /\ dirEvents' = dirEvents + 1
    /\ <<dir[d], to>> \in {<<"none", "owned">>, <<"owned", "orphan">>, <<"owned", "none">>}
    /\ dir' = [dir EXCEPT ![d] = to] /\ freed' = IF to = "owned" THEN freed \ {d} ELSE freed
    /\ UNCHANGED <<cache, fsGen, walk, prune, pruneRuns, walkFailures>>

StRuns(g) ==
    \/ g = "clients" /\ Stats
    \/ g = "clock"   /\ CacheExpires
    \/ g = "walk"    /\ (WalkReadsIds \/ WalkLists \/ WalkPublishes \/ \E d \in Dirs : WalkCounts(d))
    \/ g = "prune"   /\ (PruneBreaks \/ PruneEnds \/ \E d \in Dirs : PruneOne(d))

StGoroutines == {"clients", "clock", "walk", "prune"}

StNext == \/ \E g \in StGoroutines : StRuns(g)
          \/ WarmFS \/ PruneStarts
          \/ \E d \in Dirs, to \in {"owned", "orphan", "none"} : DirEvent(d, to)

StSpec == StInit /\ [][StNext]_stVars /\ \A g \in StGoroutines : WF_stVars(StRuns(g))

--------------------------------------------------------------------------------
StTypeOK ==
    /\ dir \in [Dirs -> {"none", "owned", "orphan"}]
    /\ cache.counted \subseteq Dirs /\ cache.prunable \subseteq cache.counted
    /\ walk.pc \in {"idle", "ids", "list", "sum"} /\ prune.pc \in {"idle", "remove"}

\* Whatever a finished prune has freed is not offered as prunable any more, although a
\* walk that had counted it may end after the prune.
FreedStaysFreed == cache.prunable \cap freed = {}

\* While clients keep asking, the statistics end up true, and a walk that fails or is
\* overtaken does not block the next (fsRefreshing).
StatsTrue == cache.here /\ cache.counted = OnDisk /\ cache.prunable = OnDisk \ Owned
StatsSettle == []<>StatsTrue
================================================================================
