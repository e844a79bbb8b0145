------------------------------- MODULE Trash -------------------------------
(* Soft delete, restore and purge of assets (service/trash.go) over the asset  *)
(* rows and the file system, with the parts of the service that act on the     *)
(* same rows meanwhile: the watcher's event loop (service/watcher.go), the     *)
(* prune of missing files and the indexer (service/indexer.go).                *)
(*                                                                             *)
(* Every statement on the database and every call on the file system is one    *)
(* step; the handler keeps in local variables what it read in earlier steps.   *)
(* A file is its content; a path is a directory and a base name; an asset's    *)
(* trash directory is named by its id.                                         *)
EXTENDS Integers, Sequences, FiniteSets, SequencesExt

CONSTANTS
    Ids, NoId,
    Gallery,        \* the directory of the visible photos
    Contents,       \* what files hold; a gallery file is named after its first content
    Nothing,        \* no file
    NoPath,         \* original_path IS NULL
    Still,          \* id of a photo
    Companion,      \* id of its Live Photo video, or NoId
    Bystander,      \* id of another photo in the same directory
    ContentOf,      \* [the initial ids -> Contents]
    Newcomer,       \* content that the user may later put where the photo was
    Handlers,       \* HTTP handlers and the daily purge
    Requests,       \* subset of {"trash", "restore", "purge"}
    MaxRequests, MaxPrunes, MaxCrashes,  \* bounds
    Watching,       \* whether the watcher delivers events
    MoveMayFail,    \* whether a move between existing places may fail
    DBMayFail,      \* whether an UPDATE may fail (SQLITE_BUSY)
    CrossDevice,    \* whether a move may have to copy and remove
    Careful         \* whether clients are as careful as CarefulRequest says

Dups   == 0..2      \* bound: "", " (restored)", " (restored 2)"
Dirs   == {Gallery} \cup Ids
Paths  == [dir: Dirs, name: Contents, dup: Dups]
GalleryPath(c) == [dir |-> Gallery, name |-> c, dup |-> 0]
TrashPath(id, p) == [p EXCEPT !.dir = id]

Row == [path: Paths, orig: Paths \cup {NoPath}, deleted: BOOLEAN,
        live: Ids \cup {NoId}, content: Contents]

\* Two photos of one directory have two names: file_path is UNIQUE.
ASSUME TrashAssumption ==
    /\ IsFiniteSet(Ids) /\ IsFiniteSet(Contents) /\ Newcomer \in Contents \cup {Nothing}
    /\ NoId \notin Ids /\ Gallery \notin Ids /\ Nothing \notin Contents /\ NoPath \notin Paths
    /\ ContentOf \in [DOMAIN ContentOf -> Contents] /\ DOMAIN ContentOf \subseteq Ids
    /\ \A i, j \in DOMAIN ContentOf : ContentOf[i] = ContentOf[j] => i = j
    /\ {Still, Bystander} \subseteq DOMAIN ContentOf
    /\ Companion \in DOMAIN ContentOf \cup {NoId}
    /\ Requests \subseteq {"trash", "restore", "purge"}

VARIABLES
    rows,           \* the assets table: a function on the ids that have a row
    fresh,          \* ids not used yet (uuid.NewString); their number is a bound
    fs,             \* [Paths -> Contents \cup {Nothing}]
    handler,        \* per handler: its place and its local variables
    requests,       \* requests begun
    purged,         \* contents a user or the retention has asked to destroy
    events,         \* file events on their way to the watcher
    removing,       \* the id RemoveByPath has looked up, or NoId
    toIndex,        \* paths on their way to an indexing worker
    prune,          \* pruneMissingUnder: pc, the rows it read, the ids it will delete
    prunes, crashes

watchVars == <<events, removing, toIndex>>
pruneVars == <<prune, prunes>>
vars == <<rows, fresh, fs, handler, requests, purged, watchVars, pruneVars, crashes>>

Idle == [pc |-> "idle", op |-> "trash", main |-> NoId, id |-> NoId, live |-> NoId,
         src |-> NoPath, dst |-> NoPath]

IdlePrune == [pc |-> "idle", seen |-> {}, gone |-> {}]

Init ==
    /\ rows = [id \in DOMAIN ContentOf |->
                 [path |-> GalleryPath(ContentOf[id]), orig |-> NoPath, deleted |-> FALSE,
                  live |-> IF id = Still THEN Companion ELSE NoId, content |-> ContentOf[id]]]
    /\ fs = [p \in Paths |-> IF \E id \in DOMAIN ContentOf : p = GalleryPath(ContentOf[id])
                             THEN p.name ELSE Nothing]
    /\ handler = [h \in Handlers |-> Idle]
    /\ fresh = Ids \ DOMAIN ContentOf
    /\ requests = 0 /\ prunes = 0 /\ crashes = 0
    /\ purged = {}
    /\ events = <<>> /\ removing = NoId /\ toIndex = {}
    /\ prune = IdlePrune

-----------------------------------------------------------------------------
(* The file system and the table.                                              *)

OnDisk(c) == \E p \in Paths : fs[p] = c

\* Events reach the watcher in order, and only for directories it watches:
\* hidden ones, .trash among them, are skipped.
Created(p) == [kind |-> "create", path |-> p]
Removed(p) == [kind |-> "remove", path |-> p]

Heard(queue, e) == IF Watching /\ e.path.dir = Gallery THEN Append(queue, e) ELSE queue

Moved(src, dst) == [fs EXCEPT ![dst] = fs[src], ![src] = Nothing]

\* os.RemoveAll: in the order in which the directory is read.
FilesIn(dir) == {p \in Paths : p.dir = dir /\ fs[p] # Nothing}
Wiped(dir)   == [p \in Paths |-> IF p.dir = dir THEN Nothing ELSE fs[p]]

Wipe(dir) ==
    /\ fs' = Wiped(dir)
    /\ IF Watching /\ dir = Gallery
       THEN \E order \in SetToSeqs(FilesIn(dir)) :
              events' = events \o [i \in DOMAIN order |-> Removed(order[i])]
       ELSE events' = events

Without(id) == [i \in DOMAIN rows \ {id} |-> rows[i]]

\* live_photo_video_id REFERENCES assets(id) without an ON DELETE clause: while
\* a still names it, the row of its video cannot be deleted.
Referenced(id) == \E i \in DOMAIN rows : rows[i].live = id

Deleted(id) == IF Referenced(id) THEN rows ELSE Without(id)

\* Mutant: original_path is not reset.
UpdatedKeepsOrig(id, path, orig, gone) ==
    IF id \notin DOMAIN rows THEN rows
    ELSE [rows EXCEPT ![id].path = path, ![id].orig = IF gone THEN orig ELSE @, ![id].deleted = gone]

\* file_path is UNIQUE.
PathTaken(id, p) == \E i \in DOMAIN rows \ {id} : rows[i].path = p

Updated(id, path, orig, gone) ==
    IF id \notin DOMAIN rows THEN rows
    ELSE [rows EXCEPT ![id].path = path, ![id].orig = orig, ![id].deleted = gone]

AllIdle == \A h \in Handlers : handler[h].pc = "idle"

Goto(h, pc) == handler' = [handler EXCEPT ![h].pc = pc]
Ends(h)     == handler' = [handler EXCEPT ![h] = Idle]
At(h, op, pc) == handler[h].op = op /\ handler[h].pc = pc

\* The requests that the code copes with: they come when the watcher has handled
\* the events of the moves before, and purge a photo whose video is trashed too.
Calm == events = <<>> /\ removing = NoId

CarefulRequest(op, id) ==
    /\ Calm
    /\ op = "purge" /\ rows[id].live \in DOMAIN rows => rows[rows[id].live].deleted

\* Requests name the assets a listing shows, which are not companions.
Begin(h, op, id) ==
    /\ handler[h].pc = "idle" /\ requests < MaxRequests /\ op \in Requests
    /\ id \in DOMAIN rows /\ id # Companion
    /\ Careful => CarefulRequest(op, id)
    /\ rows[id].deleted <=> op # "trash"
    /\ handler' = [handler EXCEPT ![h] =
                     [pc |-> IF op = "restore" THEN "stat" ELSE op, op |-> op, main |-> id, id |-> id,
                      live |-> rows[id].live, src |-> rows[id].path,
                      dst |-> IF op = "trash" THEN TrashPath(id, rows[id].path) ELSE rows[id].orig]]
    /\ requests' = requests + 1
    /\ purged' = IF op # "purge" THEN purged
                 ELSE purged \cup {rows[i].content : i \in {id, rows[id].live} \cap DOMAIN rows}
    /\ UNCHANGED <<fresh, rows, fs, watchVars, pruneVars, crashes>>

\* After the main file: the companion, if its row is in the state the request
\* is about.  What becomes of it is not reported.
HasCompanion(h, gone) ==
    LET i == handler[h].live IN i \in DOMAIN rows /\ rows[i].deleted = gone

TurnToCompanion(h, pc) ==
    LET i == handler[h].live IN
    handler' = [handler EXCEPT ![h] =
                  [handler[h] EXCEPT !.pc = pc, !.id = i, !.live = NoId, !.src = rows[i].path,
                     !.dst = IF pc = "trash" THEN TrashPath(i, rows[i].path) ELSE rows[i].orig]]

-----------------------------------------------------------------------------
(* TrashAsset and moveToTrash: the row first, then the file.                   *)

MarkTrashed(h) ==
    /\ At(h, "trash", "trash")
    /\ rows' = Updated(handler[h].id, handler[h].dst, handler[h].src, TRUE)
    /\ Goto(h, "move")
    /\ UNCHANGED <<fresh, fs, requests, purged, watchVars, pruneVars, crashes>>

\* Mutant: the row is updated after the move.
MarkFailsLate(h) ==
    /\ DBMayFail /\ At(h, "trash", "moved")
    /\ fs' = Wiped(handler[h].id)
    /\ Ends(h)
    /\ UNCHANGED <<fresh, rows, requests, purged, watchVars, pruneVars, crashes>>

\* The UPDATE fails: the trash directory is removed with what it holds.
MarkFails(h) ==
    /\ DBMayFail /\ At(h, "trash", "trash")
    /\ fs' = Wiped(handler[h].id)
    /\ Ends(h)
    /\ UNCHANGED <<fresh, rows, requests, purged, watchVars, pruneVars, crashes>>

\* renameOrCopy: a missing source counts as success.
Move(h) ==
    LET src == handler[h].src  dst == handler[h].dst IN
    /\ handler[h].pc = "move"
    /\ IF fs[src] = Nothing \/ src = dst THEN UNCHANGED <<fs, events>>
       ELSE fs' = Moved(src, dst) /\ events' = Heard(Heard(events, Removed(src)), Created(dst))
    /\ Goto(h, "moved")
    /\ UNCHANGED <<fresh, rows, requests, purged, removing, toIndex, pruneVars, crashes>>

\* Across devices: copy, then remove the source.
Copy(h) ==
    /\ CrossDevice /\ handler[h].pc = "move" /\ fs[handler[h].src] # Nothing
    /\ fs' = [fs EXCEPT ![handler[h].dst] = fs[handler[h].src]]
    /\ events' = Heard(events, Created(handler[h].dst))
    /\ Goto(h, "copied")
    /\ UNCHANGED <<fresh, rows, requests, purged, removing, toIndex, pruneVars, crashes>>

RemoveSource(h) ==
    /\ handler[h].pc = "copied"
    /\ fs' = [fs EXCEPT ![handler[h].src] = Nothing]
    /\ events' = Heard(events, Removed(handler[h].src))
    /\ Goto(h, "moved")
    /\ UNCHANGED <<fresh, rows, requests, purged, removing, toIndex, pruneVars, crashes>>

\* A failed move: trash restores the row and removes the trash directory it made;
\* restore returns.  A failed copy removes what it wrote; a copy whose source
\* could not be removed stays behind.
MoveUndone(h) ==
    /\ IF handler[h].op = "trash"
       THEN /\ \/ /\ ~PathTaken(handler[h].id, handler[h].src)
                  /\ rows' = Updated(handler[h].id, handler[h].src, NoPath, FALSE)
               \/ (DBMayFail \/ PathTaken(handler[h].id, handler[h].src)) /\ rows' = rows
            /\ fs' = Wiped(handler[h].id)
       ELSE /\ rows' = rows
            /\ \/ fs' = fs
               \/ CrossDevice /\ handler[h].pc = "move" /\ fs' = [fs EXCEPT ![handler[h].dst] = Nothing]
    /\ Ends(h)
    /\ UNCHANGED <<fresh, requests, purged, watchVars, pruneVars, crashes>>

\* Mutant: the row is left pointing into the trash.
MoveFailsQuietly(h) ==
    /\ MoveMayFail /\ handler[h].pc \in {"move", "copied"} /\ fs[handler[h].src] # Nothing
    /\ Ends(h)
    /\ UNCHANGED <<fresh, rows, fs, requests, purged, watchVars, pruneVars, crashes>>

\* A source that is missing is never a failure.
MoveFails(h) ==
    /\ MoveMayFail /\ handler[h].pc \in {"move", "copied"} /\ fs[handler[h].src] # Nothing
    /\ MoveUndone(h)

TrashMoved(h) ==
    /\ At(h, "trash", "moved")
    /\ IF HasCompanion(h, FALSE) THEN TurnToCompanion(h, "trash") ELSE Ends(h)
    /\ UNCHANGED <<fresh, rows, fs, requests, purged, watchVars, pruneVars, crashes>>

-----------------------------------------------------------------------------
(* RestoreAsset and restoreFile: the file first, then the row.                 *)

Free(p) == {d \in Dups \ {0} : fs[[p EXCEPT !.dup = d]] = Nothing}

\* dedupePath tries " (restored)", " (restored 2)", ... in order.
Dedupe(p) == [p EXCEPT !.dup = CHOOSE d \in Free(p) : \A e \in Free(p) : d <= e]

RestoreTarget(p) == IF fs[p] # Nothing THEN Dedupe(p) ELSE p

\* Bound: some name of Dups is free.
RestoreStat(h) ==
    LET orig == handler[h].dst IN
    /\ At(h, "restore", "stat")
    /\ orig # NoPath /\ fs[orig] # Nothing => Free(orig) # {}
    /\ handler' = [handler EXCEPT ![h] =
                     [handler[h] EXCEPT !.pc = "move",
                        !.dst = IF orig = NoPath THEN handler[h].src ELSE RestoreTarget(orig)]]
    /\ UNCHANGED <<fresh, rows, fs, requests, purged, watchVars, pruneVars, crashes>>

\* The UPDATE fails when another row has the path.  The file has been moved by then
\* and stays where it is.
RestoreUpdate(h) ==
    /\ At(h, "restore", "moved") /\ ~PathTaken(handler[h].id, handler[h].dst)
    /\ rows' = Updated(handler[h].id, handler[h].dst, NoPath, FALSE)
    /\ IF HasCompanion(h, TRUE) THEN TurnToCompanion(h, "stat") ELSE Ends(h)
    /\ UNCHANGED <<fresh, fs, requests, purged, watchVars, pruneVars, crashes>>

RestoreUpdateFails(h) ==
    /\ At(h, "restore", "moved") /\ (DBMayFail \/ PathTaken(handler[h].id, handler[h].dst))
    /\ Ends(h)
    /\ UNCHANGED <<fresh, rows, fs, requests, purged, watchVars, pruneVars, crashes>>

-----------------------------------------------------------------------------
(* PurgeAsset: purgeFiles removes the file and the directory it is in.         *)

PurgeFiles(h) ==
    /\ At(h, "purge", "purge")
    /\ Wipe(handler[h].src.dir)
    /\ Goto(h, IF handler[h].live \in DOMAIN rows THEN "live" ELSE "row")
    /\ UNCHANGED <<fresh, rows, requests, purged, removing, toIndex, pruneVars, crashes>>

\* The companion is looked up by id, in the trash or not.
PurgeLiveFiles(h) ==
    /\ At(h, "purge", "live")
    /\ IF handler[h].live \in DOMAIN rows THEN Wipe(rows[handler[h].live].path.dir)
       ELSE UNCHANGED <<fs, events>>
    /\ Goto(h, "liverow")
    /\ UNCHANGED <<fresh, rows, requests, purged, removing, toIndex, pruneVars, crashes>>

PurgeLiveRow(h) ==
    /\ At(h, "purge", "liverow")
    /\ rows' = Deleted(handler[h].live)
    /\ Goto(h, "row")
    /\ UNCHANGED <<fresh, fs, requests, purged, watchVars, pruneVars, crashes>>

PurgeRow(h) ==
    /\ At(h, "purge", "row")
    /\ rows' = Deleted(handler[h].main)
    /\ Ends(h)
    /\ UNCHANGED <<fresh, fs, requests, purged, watchVars, pruneVars, crashes>>

-----------------------------------------------------------------------------
(* The watcher, the indexer and the prune.                                     *)

WatchCreate ==
    /\ removing = NoId /\ events # <<>> /\ Head(events).kind = "create"
    /\ toIndex' = toIndex \cup {Head(events).path}
    /\ events' = Tail(events)
    /\ UNCHANGED <<fresh, rows, fs, handler, requests, purged, removing, pruneVars, crashes>>

\* Mutant: the lookup also goes by where a trashed photo came from.
LiveOrTrashed(p) == {i \in DOMAIN rows : p \in {rows[i].path, rows[i].orig}}

Live(p) == {i \in DOMAIN rows : rows[i].path = p /\ ~rows[i].deleted}

\* RemoveByPath looks the row up by its path ...
WatchRemove ==
    /\ removing = NoId /\ events # <<>> /\ Head(events).kind = "remove"
    /\ removing' = IF Live(Head(events).path) = {} THEN NoId
                   ELSE CHOOSE i \in Live(Head(events).path) : TRUE
    /\ events' = Tail(events)
    /\ UNCHANGED <<fresh, rows, fs, handler, requests, purged, toIndex, pruneVars, crashes>>

\* ... and, after the vector and the caption, deletes it by its id.
WatchRemoveRow ==
    /\ removing # NoId
    /\ rows' = Deleted(removing)
    /\ removing' = NoId
    /\ UNCHANGED <<fresh, fs, handler, requests, purged, events, toIndex, pruneVars, crashes>>

\* processFileInternal: a file whose content has a row, in the trash or not, gets
\* none; a changed file updates the row of its path; a new one gets a new row.
Known(p) == \E i \in DOMAIN rows : rows[i].content = fs[p]

NewRow(p) == [path |-> p, orig |-> NoPath, deleted |-> FALSE, live |-> NoId, content |-> fs[p]]

Changed(p) == {i \in DOMAIN rows : rows[i].path = p}

Index(p) ==
    /\ p \in toIndex
    /\ toIndex' = toIndex \ {p}
    /\ IF fs[p] = Nothing \/ Known(p) THEN UNCHANGED <<rows, fresh>>
       ELSE IF Changed(p) # {}
       THEN /\ rows' = [i \in DOMAIN rows |->
                          IF i \in Changed(p) THEN [rows[i] EXCEPT !.content = fs[p]] ELSE rows[i]]
            /\ UNCHANGED fresh
       ELSE \E new \in fresh :
              /\ rows' = [i \in DOMAIN rows \cup {new} |-> IF i = new THEN NewRow(p) ELSE rows[i]]
              /\ fresh' = fresh \ {new}
    /\ UNCHANGED <<fs, handler, requests, purged, events, removing, pruneVars, crashes>>

\* The user puts another photo where the first one was; a careful one does so
\* between requests.
NewFile ==
    /\ Newcomer # Nothing /\ ~OnDisk(Newcomer) /\ Newcomer \notin purged
    /\ fs[GalleryPath(ContentOf[Still])] = Nothing
    /\ Careful => Calm /\ AllIdle
    /\ fs' = [fs EXCEPT ![GalleryPath(ContentOf[Still])] = Newcomer]
    /\ events' = Heard(events, Created(GalleryPath(ContentOf[Still])))
    /\ UNCHANGED <<fresh, rows, handler, requests, purged, removing, toIndex, pruneVars, crashes>>

\* The query's snapshot: trashed rows are not left out.
PruneQuery ==
    /\ prune.pc = "idle" /\ prunes < MaxPrunes /\ DOMAIN rows # {}
    /\ prune' = [IdlePrune EXCEPT !.pc = "stat", !.seen = {<<i, rows[i].path>> : i \in DOMAIN rows}]
    /\ prunes' = prunes + 1
    /\ UNCHANGED <<fresh, rows, fs, handler, requests, purged, watchVars, crashes>>

PruneStat(s) ==
    /\ prune.pc = "stat" /\ s \in prune.seen
    /\ prune' = [prune EXCEPT !.seen = @ \ {s},
                              !.pc = IF prune.seen = {s} THEN "delete" ELSE "stat",
                              !.gone = IF fs[s[2]] = Nothing THEN @ \cup {s[1]} ELSE @]
    /\ UNCHANGED <<fresh, rows, fs, handler, requests, purged, watchVars, prunes, crashes>>

PruneDelete(id) ==
    /\ prune.pc = "delete" /\ id \in prune.gone
    /\ rows' = Deleted(id)
    /\ prune' = [prune EXCEPT !.gone = @ \ {id}]
    /\ UNCHANGED <<fresh, fs, handler, requests, purged, watchVars, prunes, crashes>>

PruneEnd ==
    /\ prune.pc = "delete" /\ prune.gone = {}
    /\ prune' = IdlePrune
    /\ UNCHANGED <<fresh, rows, fs, handler, requests, purged, watchVars, prunes, crashes>>

\* A crash forgets everything but the table and the files; the scan at startup
\* offers every gallery file to the indexer.
Crash ==
    /\ crashes < MaxCrashes
    /\ crashes' = crashes + 1
    /\ handler' = [h \in Handlers |-> Idle]
    /\ events' = <<>> /\ removing' = NoId /\ prune' = IdlePrune
    /\ toIndex' = {p \in Paths : p.dir = Gallery /\ fs[p] # Nothing}
    /\ UNCHANGED <<fresh, rows, fs, requests, purged, prunes>>

-----------------------------------------------------------------------------
HandlerStep(h) ==
    \/ MarkTrashed(h) \/ MarkFails(h) \/ TrashMoved(h)
    \/ Move(h) \/ Copy(h) \/ RemoveSource(h) \/ MoveFails(h)
    \/ RestoreStat(h) \/ RestoreUpdate(h) \/ RestoreUpdateFails(h)
    \/ PurgeFiles(h) \/ PurgeLiveFiles(h) \/ PurgeLiveRow(h) \/ PurgeRow(h)

Next ==
    \/ \E h \in Handlers, op \in Requests, id \in Ids : Begin(h, op, id)
    \/ \E h \in Handlers : HandlerStep(h)
    \/ WatchCreate \/ WatchRemove \/ WatchRemoveRow
    \/ \E p \in toIndex : Index(p)
    \/ NewFile
    \/ PruneQuery \/ PruneEnd
    \/ \E s \in prune.seen : PruneStat(s)
    \/ \E id \in prune.gone : PruneDelete(id)
    \/ Crash

Spec == Init /\ [][Next]_vars

-----------------------------------------------------------------------------
(* Properties.                                                                 *)

TypeOK ==
    /\ DOMAIN rows \subseteq Ids \ fresh
    /\ \A i \in DOMAIN rows : rows[i] \in Row /\ (rows[i].deleted <=> rows[i].orig # NoPath)
    /\ fs \in [Paths -> Contents \cup {Nothing}]
    /\ \A h \in Handlers : handler[h].pc \in {"idle", "trash", "stat", "move", "copied", "moved",
                                              "purge", "live", "liverow", "row"}
    /\ purged \subseteq Contents
    /\ \A i \in 1..Len(events) : events[i].path \in Paths
    /\ removing \in Ids \cup {NoId}
    /\ toIndex \subseteq Paths

\* purgeFiles: "The per-volume trash directory IS curPath's parent directory".
\* No photo leaves the disk unless a purge named it: not by a failed or repeated
\* move, not by a crash in the middle of one, not by the purge of another asset.
ContentKept == \A c \in {ContentOf[i] : i \in DOMAIN ContentOf} : c \in purged \/ OnDisk(c)

\* moveToTrash: the row is flipped first so that the late event "cannot
\* hard-delete this row (race fix)".  A row, with the albums, faces and
\* favourites that hang on it, is only deleted for a photo that was purged or
\* is no longer on the disk.
IdentityKept ==
    [][\A i \in DOMAIN rows \ DOMAIN rows' :
          rows[i].content \in purged \/ ~OnDisk(rows[i].content)]_vars

\* Between requests every row, trashed or not, names a file with its content,
\* although row and file are changed in separate steps that can fail.
RowFindsFile == AllIdle => \A i \in DOMAIN rows :
                              rows[i].content \in purged \/ fs[rows[i].path] = rows[i].content

\* PurgeAsset: "removes the file + thumbnail directory + DB record (including its
\* Live Photo companion, if any)".
PurgeComplete == AllIdle => \A i \in DOMAIN rows : rows[i].content \notin purged
=============================================================================
