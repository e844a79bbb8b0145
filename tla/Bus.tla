----------------------------------- MODULE Bus -----------------------------------
(* The subscriber to the message bus (service/busdelete.go): it connects, retries  *)
(* with a growing delay, and cleans up after each "nimoos:media:deleted" event.    *)
(* An event sent while it is not connected is lost; the periodic scan is the       *)
(* safety net.                                                                     *)
EXTENDS Naturals, Sequences, FiniteSets

CONSTANTS
    BusFiles,           \* the files that may be in the library
    FolderOf,           \* file -> its folder
    Dotted,             \* the folders whose name looks like a file with an extension
    InitialBackoff, MaxBackoff,
    MaxDeletes, MaxDrops,
    Recreates           \* may a path be filled again before its event is handled

ASSUME FoldersAreDotted == Dotted \cap BusFiles = {}
ASSUME Backoffs == InitialBackoff \in Nat \ {0} /\ MaxBackoff \in Nat /\ InitialBackoff <= MaxBackoff

VARIABLES
    there,    \* the files on the disk
    listed,     \* the files with a row
    sub,        \* the subscriber: step, backoff, paths of the event it handles
    wire,       \* the events sent to it and not read yet: name, paths
    unheard,    \* history: the files whose deletion was announced to nobody
    wrongly,    \* history: the files whose row went while they were there
    deletes, drops

buVars == <<there, listed, sub, wire, unheard, wrongly, deletes, drops>>

BusFolders == {FolderOf[f] : f \in BusFiles}
Under(p) == {f \in BusFiles : f = p \/ FolderOf[f] = p}
Named(paths) == UNION {Under(paths[k]) : k \in DOMAIN paths}

BuInit ==
    /\ there = BusFiles /\ listed = BusFiles
    /\ sub = [pc |-> "dial", backoff |-> InitialBackoff, paths |-> <<>>] /\ wire = <<>>
    /\ unheard = {} /\ wrongly = {} /\ deletes = 0 /\ drops = 0

---------------------------------------------------------------------------------
(* The subscriber.                                                               *)

\* Mutant: the doubled delay is not capped.
Doubles(b) == 2 * b

nextBackoff(b) == IF 2 * b > MaxBackoff THEN MaxBackoff ELSE 2 * b

DialSucceeds ==
    /\ sub.pc = "dial" /\ sub' = [sub EXCEPT !.pc = "read", !.backoff = InitialBackoff]
    /\ UNCHANGED <<there, listed, wire, unheard, wrongly, deletes, drops>>

\* The address cannot be resolved or nobody answers.
DialFails ==
    /\ sub.pc = "dial" /\ drops < MaxDrops
    /\ sub' = [sub EXCEPT !.pc = "sleep"] /\ drops' = drops + 1
    /\ UNCHANGED <<there, listed, wire, unheard, wrongly, deletes>>

\* ReadMessage fails: what was on the wire is lost.
ConnectionLost ==
    /\ sub.pc = "read" /\ drops < MaxDrops
    /\ sub' = [sub EXCEPT !.pc = "sleep"] /\ drops' = drops + 1
    /\ wire' = <<>> /\ unheard' = unheard \cup UNION {Named(wire[i].paths) : i \in DOMAIN wire}
    /\ UNCHANGED <<there, listed, wrongly, deletes>>

\* sleepOrCancel, then nextBackoff.
Slept ==
    /\ sub.pc = "sleep" /\ sub' = [sub EXCEPT !.pc = "dial", !.backoff = nextBackoff(@)]
    /\ UNCHANGED <<there, listed, wire, unheard, wrongly, deletes, drops>>

\* Mutant: a path without an extension is no photo.
HandlesMediaOnly(p) == p \in BusFiles

\* What has an extension that is no media's is skipped, and a dotted folder with it.
shouldHandleDeletedPath(p) == p \notin Dotted

\* extractEventPaths: an event of another name, or without paths, is nothing.
ReadsMessage ==
    /\ sub.pc = "read" /\ wire # <<>> /\ wire' = Tail(wire)
    /\ LET paths == IF Head(wire).name = "deleted" THEN Head(wire).paths ELSE <<>> IN
       sub' = [sub EXCEPT !.pc = IF paths = <<>> THEN "read" ELSE "remove", !.paths = paths]
    /\ UNCHANGED <<there, listed, unheard, wrongly, deletes, drops>>

\* handleDeletedPaths: one path after the other.
NextPath == [sub EXCEPT !.paths = Tail(sub.paths), !.pc = IF Len(sub.paths) = 1 THEN "read" ELSE "remove"]

SkipsPath ==
    /\ sub.pc = "remove" /\ ~shouldHandleDeletedPath(Head(sub.paths)) /\ sub' = NextPath
    /\ UNCHANGED <<there, listed, wire, unheard, wrongly, deletes, drops>>

\* RemoveByPath: the row of exactly that path, whatever is there now.
RemovesRow ==
    /\ sub.pc = "remove" /\ shouldHandleDeletedPath(Head(sub.paths)) /\ sub' = [sub EXCEPT !.pc = "prune"]
    /\ listed' = listed \ {Head(sub.paths)}
    /\ wrongly' = wrongly \cup ({Head(sub.paths)} \cap listed \cap there)
    /\ UNCHANGED <<there, wire, unheard, deletes, drops>>

\* pruneMissingUnder: the rows at or below that path whose file is gone.
PrunesUnder ==
    /\ sub.pc = "prune" /\ sub' = NextPath
    /\ listed' = listed \ (Under(Head(sub.paths)) \ there)
    /\ UNCHANGED <<there, wire, unheard, wrongly, deletes, drops>>

---------------------------------------------------------------------------------
(* The file manager, the bus and the scan.                                       *)

\* Paths are deleted together, and the bus tells whoever is connected.
Deleted(paths) ==
    /\ deletes < MaxDeletes /\ deletes' = deletes + 1
    /\ LET gone == Named(paths) \cap there IN
       /\ gone # {} /\ there' = there \ gone
       /\ IF sub.pc \in {"read", "remove", "prune"}
          THEN wire' = Append(wire, [name |-> "deleted", paths |-> paths]) /\ UNCHANGED unheard
          ELSE UNCHANGED wire /\ unheard' = unheard \cup gone
    /\ UNCHANGED <<listed, sub, wrongly, drops>>

OtherEvent ==
    /\ deletes < MaxDeletes /\ deletes' = deletes + 1 /\ sub.pc = "read"
    /\ \E f \in BusFiles : wire' = Append(wire, [name |-> "other", paths |-> <<f>>])
    /\ UNCHANGED <<there, listed, sub, unheard, wrongly, drops>>

\* A file is put there again and indexed at once.
PutBack(f) ==
    /\ f \notin there
    /\ Recreates \/ \A i \in DOMAIN wire : f \notin Named(wire[i].paths)
    /\ Recreates \/ f \notin Named(sub.paths)
    /\ there' = there \cup {f} /\ listed' = listed \cup {f} /\ unheard' = unheard \ {f}
    /\ UNCHANGED <<sub, wire, wrongly, deletes, drops>>

\* The periodic scan prunes what is missing and indexes what is there.
Rescans ==
    /\ listed # there /\ listed' = there /\ unheard' = unheard \cap there
    /\ UNCHANGED <<there, sub, wire, wrongly, deletes, drops>>

Requests == {<<p>> : p \in BusFiles \cup BusFolders} \cup {<<p, q>> : p, q \in BusFiles \cup BusFolders}

BuRuns == DialSucceeds \/ Slept \/ ReadsMessage \/ SkipsPath \/ RemovesRow \/ PrunesUnder

BuNext ==
    \/ DialFails \/ ConnectionLost \/ OtherEvent \/ Rescans
    \/ DialSucceeds \/ Slept \/ ReadsMessage \/ SkipsPath \/ RemovesRow \/ PrunesUnder
    \/ \E paths \in Requests : Deleted(paths)
    \/ \E f \in BusFiles : PutBack(f)

BuSpec == BuInit /\ [][BuNext]_buVars /\ WF_buVars(BuRuns) /\ WF_buVars(Rescans)

---------------------------------------------------------------------------------
BuTypeOK ==
    /\ there \subseteq BusFiles /\ listed \subseteq BusFiles /\ unheard \subseteq BusFiles
    /\ sub.pc \in {"dial", "read", "sleep", "remove", "prune"}
    /\ sub.backoff \in InitialBackoff..MaxBackoff

\* While the subscriber is connected and has handled what was sent, a row without its
\* file can only be of a deletion nobody heard of, or in a folder whose name has a dot;
\* and no row goes while its file is there.
DeletionsAreHeard ==
    /\ sub.pc = "read" /\ wire = <<>> =>
         \A f \in listed \ there : f \in unheard \/ FolderOf[f] \in Dotted
    /\ wrongly = {}

\* The scan makes up for the events that were lost (busdelete.go:111).
GhostsGo == <>[](listed \subseteq there)
=================================================================================
