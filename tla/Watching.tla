------------------------------ MODULE Watching ------------------------------
(* The watcher's directory tracking (service/watcher.go): a new directory gets *)
(* a goroutine that adds watches to it and what is below, then enqueues the    *)
(* files already there, unless an ancestor's walk is under way; an overflow of *)
(* the event queue starts a rescan.  A WalkDir visits a directory before it    *)
(* reads its entries, and reads them once.  A watch may be refused, and an     *)
(* overflow may lose any event.  The daily scan of everything is left out: it  *)
(* is the fallback that a missed file has to wait for.                         *)
EXTENDS Naturals, Sequences, FiniteSets

CONSTANTS
    Top,            \* the root, watched since Start
    Folders, Media, \* directories and files that may appear under it
    ParentOf,
    MaxOverflows,
    LateArrivals    \* may anything appear in a folder that a running walk has read, or beside a covered walk

\* Every folder and file is somewhere under the root.
ASSUME FoldersAreATree ==
    /\ ParentOf \in [Folders \cup Media -> Folders \cup {Top}]
    /\ Folders \cap Media = {} /\ Top \notin Folders \cup Media
    /\ \A S \in SUBSET Folders : S # {} => \E d \in S : ParentOf[d] \notin S

VARIABLES
    present,    \* folders and files on disk
    watched,    \* folders with an inotify watch
    events,     \* Create events not yet handled
    tracker,    \* per folder its trackNewDir: step, is it covered, is it worth a scan, folders to visit
    enqueued,   \* the files given to the indexer
    rescan,     \* the overflow rescan: runs, folders to read, has it read them, cooldown
    overflows,
    refused,    \* folders whose watch was refused
    blind       \* history: what the code gives up, until the daily scan

waVars == <<present, watched, events, tracker, enqueued, rescan, overflows, refused, blind>>

NoTracker == [pc |-> "idle", covered |-> FALSE, worth |-> FALSE, todo |-> {}, read |-> {}]
NoRescan  == [on |-> FALSE, todo |-> {}, cool |-> FALSE]

WaInit ==
    /\ present = {Top} /\ watched = {Top} /\ events = <<>>
    /\ tracker = [d \in Folders |-> NoTracker] /\ enqueued = {}
    /\ rescan = NoRescan /\ overflows = 0 /\ refused = {} /\ blind = {}

\* A node and what it lies under: what every set with it and with its members' parents has.
Nodes    == Folders \cup Media \cup {Top}
Upward   == {S \in SUBSET Nodes : \A y \in S \ {Top} : ParentOf[y] \in S}
UpTo(x)  == {a \in Nodes : \A S \in Upward : x \in S => a \in S}
Above(x) == UpTo(ParentOf[x])

FoldersIn(d) == {c \in Folders \cap present : ParentOf[c] = d}
MediaIn(d)   == {f \in Media \cap present : ParentOf[f] = d}

\* What is there at or below one of the folders.
Below(S) == {y \in present : UpTo(y) \cap S # {}}

\* A folder that will have no watch: what appears in it then is not seen.
GivenUp(d) == d \notin watched /\ d \in refused \cup blind

-----------------------------------------------------------------------------

\* A file, a folder, or a folder with things in it moved here at once: one event, from
\* the watch of the folder it appears in.
Appear(x, below) ==
    /\ x \notin present /\ ParentOf[x] \in present
    /\ x \in Media => below = {}
    /\ below \subseteq {y \in (Folders \cup Media) \ present : x \in Above(y)}
    /\ \A y \in below : ParentOf[y] \in below \cup {x}
    /\ LateArrivals \/ \A d \in Folders : ParentOf[x] \notin tracker[d].read /\ ~tracker[d].covered
    /\ present' = present \cup {x} \cup below
    /\ events' = IF ParentOf[x] \in watched THEN Append(events, x) ELSE events
    /\ blind' = IF GivenUp(ParentOf[x]) THEN blind \cup {x} \cup below ELSE blind
    /\ UNCHANGED <<watched, tracker, enqueued, rescan, overflows, refused>>

\* The event loop: a goroutine for a folder, the queue for a file.
HandleEvent ==
    LET x == Head(events) IN
    /\ events # <<>> /\ events' = Tail(events)
    /\ IF x \in Folders
       THEN tracker' = [tracker EXCEPT ![x] = [NoTracker EXCEPT !.pc = "register"]] /\ UNCHANGED enqueued
       ELSE enqueued' = enqueued \cup {x} /\ UNCHANGED tracker
    /\ UNCHANGED <<present, watched, rescan, overflows, refused, blind>>

\* walkCovered looks for a walk above, then the folder registers its own.
WalkCovered(d) == \E a \in Above(d) \cap Folders : tracker[a].pc \in {"watch", "index"}

\* Mutant: a covered folder gets no watches either, as in a former version of trackNewDir.
RegisterCovered(d) ==
    /\ tracker[d].pc = "register"
    /\ tracker' = [tracker EXCEPT ![d] = IF WalkCovered(d) THEN NoTracker
                                         ELSE [@ EXCEPT !.pc = "watch", !.todo = {<<d, "add">>}]]
    /\ UNCHANGED <<present, watched, events, enqueued, rescan, overflows, refused, blind>>

Register(d) ==
    /\ tracker[d].pc = "register"
    /\ tracker' = [tracker EXCEPT ![d] = [@ EXCEPT !.pc = "watch", !.covered = WalkCovered(d), !.todo = {<<d, "add">>}]]
    /\ UNCHANGED <<present, watched, events, enqueued, rescan, overflows, refused, blind>>

\* addRecursiveWatch: watch the folder, then read it.
AddWatch(d, x) ==
    /\ tracker[d].pc = "watch" /\ <<x, "add">> \in tracker[d].todo
    /\ watched' = watched \cup {x}
    /\ tracker' = [tracker EXCEPT ![d].todo = (@ \ {<<x, "add">>}) \cup {<<x, "read">>}, ![d].worth = TRUE]
    /\ UNCHANGED <<present, events, enqueued, rescan, overflows, refused, blind>>

\* fw.Add fails for a folder not watched so far, at the quota or for another reason: the
\* walk goes on below it, and only at the quota does the folder stay worth a scan.
WatchRefused(d, x, quota) ==
    /\ tracker[d].pc = "watch" /\ <<x, "add">> \in tracker[d].todo
    /\ x \notin watched /\ refused' = refused \cup {x}
    /\ tracker' = [tracker EXCEPT ![d].todo = (@ \ {<<x, "add">>}) \cup {<<x, "read">>}, ![d].worth = @ \/ quota]
    /\ UNCHANGED <<present, watched, events, enqueued, rescan, overflows, blind>>

ReadFolder(d, x) ==
    /\ tracker[d].pc = "watch" /\ <<x, "read">> \in tracker[d].todo
    /\ tracker' = [tracker EXCEPT ![d].todo = (@ \ {<<x, "read">>}) \cup {<<c, "add">> : c \in FoldersIn(x)}]
    /\ UNCHANGED <<present, watched, events, enqueued, rescan, overflows, refused, blind>>

\* skipCatchupScan: a folder without any watch, the quota aside, is left alone; so is one
\* below a walk that was seen at the start.
Watched(d) ==
    /\ tracker[d].pc = "watch" /\ tracker[d].todo = {}
    /\ \/ /\ tracker[d].covered \/ ~tracker[d].worth
          /\ tracker' = [tracker EXCEPT ![d] = NoTracker]
          /\ blind' = IF tracker[d].covered THEN blind ELSE blind \cup Below({d})
       \/ /\ tracker[d].worth /\ ~tracker[d].covered
          /\ tracker' = [tracker EXCEPT ![d].pc = "index", ![d].todo = {d}] /\ UNCHANGED blind
    /\ UNCHANGED <<present, watched, events, enqueued, rescan, overflows, refused>>

\* walkSupported enqueues the media and goes on to the folders it found.
CatchUp(d, x) ==
    /\ tracker[d].pc = "index" /\ x \in tracker[d].todo
    /\ enqueued' = enqueued \cup MediaIn(x)
    /\ tracker' = [tracker EXCEPT ![d].todo = (@ \ {x}) \cup FoldersIn(x), ![d].read = @ \cup {x}]
    /\ UNCHANGED <<present, watched, events, rescan, overflows, refused, blind>>

CaughtUp(d) ==
    /\ tracker[d].pc = "index" /\ tracker[d].todo = {}
    /\ tracker' = [tracker EXCEPT ![d] = NoTracker]
    /\ UNCHANGED <<present, watched, events, enqueued, rescan, overflows, refused, blind>>

-----------------------------------------------------------------------------
(* The queue of events overflows.                                              *)

\* handleWatchError: one rescan at a time, and none within the cooldown.  The rescan makes
\* up for the files, not for the watches of the folders.
Overflow ==
    LET lost == {events[i] : i \in 1..Len(events)} IN
    /\ events # <<>> /\ events' = <<>>
    /\ overflows < MaxOverflows /\ overflows' = overflows + 1
    /\ \/ /\ rescan.on \/ rescan.cool
          /\ blind' = blind \cup Below(lost) /\ UNCHANGED rescan
       \/ /\ ~rescan.on /\ ~rescan.cool
          /\ blind' = blind \cup (Below(lost) \cap Folders)
          /\ rescan' = [rescan EXCEPT !.on = TRUE, !.todo = {Top}]
    /\ UNCHANGED <<present, watched, tracker, enqueued, refused>>

RescanReads(x) ==
    /\ rescan.on /\ x \in rescan.todo
    /\ enqueued' = enqueued \cup MediaIn(x)
    /\ rescan' = [rescan EXCEPT !.todo = (@ \ {x}) \cup FoldersIn(x)]
    /\ UNCHANGED <<present, watched, events, tracker, overflows, refused, blind>>

\* lastOverflowRescan is set, then overflowRescanning is cleared.
RescanEnds ==
    /\ rescan.on /\ rescan.todo = {}
    /\ rescan' = [NoRescan EXCEPT !.cool = TRUE]
    /\ UNCHANGED <<present, watched, events, tracker, enqueued, overflows, refused, blind>>

RescanCooled ==
    /\ rescan.cool /\ rescan' = NoRescan
    /\ UNCHANGED <<present, watched, events, tracker, enqueued, overflows, refused, blind>>

WaRuns ==
    \/ HandleEvent \/ RescanEnds \/ RescanCooled
    \/ \E d \in Folders : Register(d) \/ Watched(d) \/ CaughtUp(d)
    \/ \E d, x \in Folders :
         AddWatch(d, x) \/ ReadFolder(d, x) \/ CatchUp(d, x) \/ \E quota \in BOOLEAN : WatchRefused(d, x, quota)
    \/ \E x \in Folders \cup {Top} : RescanReads(x)

WaNext ==
    \/ WaRuns \/ Overflow
    \/ \E x \in Folders \cup Media, below \in SUBSET (Folders \cup Media) : Appear(x, below)

WaSpec == WaInit /\ [][WaNext]_waVars /\ WF_waVars(WaRuns)

-----------------------------------------------------------------------------

WaTypeOK ==
    /\ present \subseteq Folders \cup Media \cup {Top} /\ watched \subseteq Folders \cup {Top} /\ enqueued \subseteq Media
    /\ \A d \in Folders : tracker[d].pc \in {"idle", "register", "watch", "index"}
    /\ rescan.todo \subseteq Folders \cup {Top} /\ refused \cup blind \subseteq Nodes

\* Whatever the order in which folders and files appear, are seen and are walked: once
\* the watcher has nothing left to do, every folder is watched and every file was given
\* to the indexer, without the daily scan.  What the code leaves to that scan is no more
\* than this: a folder whose watch was refused (a file already in it is given all the
\* same, if the quota was the reason or another folder of the walk got its watch) and
\* what appears in it later; a folder whose event was lost; a file lost by an overflow
\* during a rescan or its cooldown.
Quiet == events = <<>> /\ ~rescan.on /\ \A d \in Folders : tracker[d].pc = "idle"

NothingMissed ==
    Quiet => /\ (present \cap Folders) \ (refused \cup blind) \subseteq watched
             /\ (present \cap Media) \ blind \subseteq enqueued
=============================================================================
