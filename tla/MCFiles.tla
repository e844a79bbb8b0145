------------------------------ MODULE MCFiles -------------------------------
(* The ways of a file into and out of the library and what is kept beside it:  *)
(* uploads, the watcher, the bus, the indexing pipeline, places, sprites, the  *)
(* thumbnail storage and the tasks that report progress.  The components share *)
(* no state, so each is explored on its own: part names the one that runs in a *)
(* behaviour.                                                                  *)
EXTENDS Pipeline, Uploads, Watching, Bus, Tasks, Sprites, Storage, Geo

VARIABLE part

\* A folder with a file and a folder with a file.
McParentOf == [x \in {"A", "B", "f", "g"} |->
    CASE x = "A" -> "top" [] x = "B" -> "A" [] x = "f" -> "A" [] x = "g" -> "B"]

McFolderOf == [f \in BusFiles |-> IF f = "f" THEN "d" ELSE "e.x"]

McTaskOf == [p \in Producers |-> IF p = "p1" THEN "t1" ELSE "t2"]

Parts == {"pipeline", "uploads", "watching", "bus", "tasks", "sprites", "storage", "geo"}

MCInit == part \in Parts /\ PlInit /\ UpInit /\ WaInit /\ BuInit /\ TkInit /\ SpInit /\ StInit /\ GeInit

MCNext ==
    /\ UNCHANGED part
    /\ \/ part = "pipeline" /\ PlNext /\ UNCHANGED <<upVars, waVars, tkVars, spVars, stVars, geVars, buVars>>
       \/ part = "uploads"  /\ UpNext /\ UNCHANGED <<plVars, waVars, tkVars, spVars, stVars, geVars, buVars>>
       \/ part = "watching" /\ WaNext /\ UNCHANGED <<plVars, upVars, tkVars, spVars, stVars, geVars, buVars>>
       \/ part = "bus"      /\ BuNext /\ UNCHANGED <<plVars, upVars, waVars, tkVars, spVars, stVars, geVars>>
       \/ part = "tasks"    /\ TkNext /\ UNCHANGED <<plVars, upVars, waVars, spVars, stVars, geVars, buVars>>
       \/ part = "sprites"  /\ SpNext /\ UNCHANGED <<plVars, upVars, waVars, tkVars, stVars, geVars, buVars>>
       \/ part = "storage"  /\ StNext /\ UNCHANGED <<plVars, upVars, waVars, tkVars, spVars, geVars, buVars>>
       \/ part = "geo"      /\ GeNext /\ UNCHANGED <<plVars, upVars, waVars, tkVars, spVars, stVars, buVars>>

\* The fairness of each component's own specification.  Since part never changes, a
\* condition on one action of the pipeline and one of the sprites is a condition on each.
MCFairness ==
    /\ \A a \in Actors : WF_plVars(part = "pipeline" /\ CallStep(a))
    /\ \A p \in Paths :
         /\ WF_plVars(part = "pipeline" /\ PoolTakes(p)) /\ WF_plVars(part = "pipeline" /\ RemoveByPath(p))
         /\ SF_<<plVars, spVars>>(\/ part = "pipeline" /\ ScanTakes(p) /\ UNCHANGED spVars
                                  \/ part = "sprites" /\ TakesSlot("route") /\ UNCHANGED plVars)
         /\ SF_<<plVars, spVars>>(\/ part = "pipeline" /\ PruneMissing(p) /\ UNCHANGED spVars
                                  \/ part = "sprites" /\ TakesSlot(Backfill) /\ UNCHANGED plVars)
    /\ WF_plVars(part = "pipeline" /\ PruneReads) /\ SF_plVars(part = "pipeline" /\ PruneRemoves)
    /\ WF_plVars(part = "pipeline" /\ PruneFails)
    /\ \A ch \in UpHandlers : WF_upVars(part = "uploads" /\ UpHandler(ch))
    /\ WF_waVars(part = "watching" /\ WaRuns)
    /\ WF_buVars(part = "bus" /\ BuRuns) /\ WF_buVars(part = "bus" /\ Rescans)
    /\ \A x \in Producers \cup TaskIds : WF_tkVars(part = "tasks" /\ TkRuns(x))
    /\ \A c \in SpGoroutines : WF_spVars(part = "sprites" /\ SpRuns(c))
    /\ \A g \in StGoroutines : WF_stVars(part = "storage" /\ StRuns(g))
    /\ \A c \in GeoCallers : WF_geVars(part = "geo" /\ GeRuns(c))

MCSpec ==
    /\ MCInit /\ [][MCNext]_<<plVars, upVars, waVars, tkVars, spVars, stVars, geVars, buVars, part>>
    /\ MCFairness

\* The type invariants of the components.
FileTypesOK == PlTypeOK /\ UpTypeOK /\ WaTypeOK /\ BuTypeOK /\ TkTypeOK /\ SpTypeOK /\ StTypeOK /\ GeTypeOK

\* What happens in a folder that is watched, and what the bus tells of, is noticed.
ChangesAreNoticed == NothingMissed /\ DeletionsAreHeard

\* What is derived from a file is sound: one ffmpeg process at a time writes a sprite, and
\* no photo is listed under a place it was not taken at.
SideDataSound == OneBuilder /\ PlacesMatch

\* The library comes to show exactly the files and no deleted one, uploads and tasks come to an end, every
\* video has its sprite, every photo its place, and the storage statistics are true: lost
\* events, failures, restarts and races of the background work are made up for.
FilesSettle ==
    /\ <>[](/\ part = "pipeline" => Reflected
            /\ part = "uploads"  => TasksSettled
            /\ part = "bus"      => listed \subseteq there
            /\ part = "tasks"    => TaskSettled
            /\ part = "sprites"  => Videos \subseteq output
            /\ part = "geo"      => GeoSettled)
    /\ []<>(part = "storage" => StatsTrue)
=============================================================================
