---------------------------- MODULE TrashProofs ----------------------------
(* What deleting, restoring and purging promise for any photos, requests,      *)
(* failures and crashes.                                                       *)
EXTENDS Trash, TLAPS, FiniteSetTheorems

-----------------------------------------------------------------------------
(* Types.                                                                      *)

EventSet == [kind : {"create", "remove"}, path : Paths]
Ops      == {"trash", "restore", "purge"}
Moving   == {"move", "copied", "moved"}
PlacesOf == [trash   |-> {"idle", "trash"} \cup Moving,
             restore |-> {"stat"} \cup Moving,
             purge   |-> {"purge", "live", "liverow", "row"}]
Places   == {"idle", "trash", "stat", "move", "copied", "moved", "purge", "live", "liverow", "row"}

\* What a handler may hold: while it is busy it knows an asset and two paths.
Locals == {l \in [pc : Places, op : Ops, main : Ids \cup {NoId}, id : Ids \cup {NoId}, live : Ids \cup {NoId},
                  src : Paths \cup {NoPath}, dst : Paths \cup {NoPath}] :
             /\ l.pc \in PlacesOf[l.op]
             /\ l.pc # "idle" => l.main \in Ids /\ l.id \in Ids /\ l.src \in Paths /\ l.dst \in Paths}

Busy(h) == handler[h].pc # "idle"

RowsTyped ==
    /\ fresh \subseteq Ids /\ DOMAIN rows \subseteq Ids \ fresh
    /\ \A i \in DOMAIN rows : rows[i] \in Row /\ (rows[i].deleted <=> rows[i].orig # NoPath)
HandlersTyped == handler \in [Handlers -> Locals]
DiskTyped  == fs \in [Paths -> Contents \cup {Nothing}] /\ purged \subseteq Contents
WatchTyped == events \in Seq(EventSet) /\ removing \in Ids \cup {NoId} /\ toIndex \subseteq Paths
PruneTyped == prune \in [pc : {"idle", "stat", "delete"}, seen : SUBSET (Ids \X Paths), gone : SUBSET Ids]

Typed == RowsTyped /\ HandlersTyped /\ DiskTyped /\ WatchTyped /\ PruneTyped

\* What a path is and where a trashed file goes.
LEMMA PathFacts ==
    /\ \A c \in Contents : GalleryPath(c) \in Paths /\ GalleryPath(c).dir = Gallery /\ GalleryPath(c).name = c
    /\ \A i \in Ids, p \in Paths : /\ TrashPath(i, p) \in Paths /\ TrashPath(i, p).dir = i
                                   /\ TrashPath(i, p).name = p.name
    /\ \A p \in Paths : p.dir \in {Gallery} \cup Ids /\ p.name \in Contents /\ p # NoPath
    /\ NoId \notin Ids /\ Gallery \notin Ids /\ Nothing \notin Contents
    /\ \A i \in DOMAIN ContentOf : i \in Ids /\ ContentOf[i] \in Contents
    /\ Still \in DOMAIN ContentOf /\ Companion \in DOMAIN ContentOf \cup {NoId}
BY TrashAssumption DEF Paths, Dirs, Dups, GalleryPath, TrashPath

\* There are finitely many paths, so the files of a directory can be counted.
LEMMA FilesAreFinite == ASSUME NEW d PROVE IsFiniteSet(FilesIn(d))
<1>1. IsFiniteSet(Dirs)
  BY TrashAssumption, FS_AddElement, FS_Union, FS_Singleton DEF Dirs
<1>2. IsFiniteSet(Dups)
  <2>1. 0 \in Int /\ 2 \in Int /\ 0 - 1 <= 2
    OBVIOUS
  <2>2. IsFiniteSet(0..2)
    BY <2>1, FS_Interval
  <2> QED BY <2>2 DEF Dups
<1>3. IsFiniteSet((Dirs \X Contents) \X Dups)
  BY <1>1, <1>2, FS_Product, TrashAssumption
<1> DEFINE f == [p \in FilesIn(d) |-> <<<<p.dir, p.name>>, p.dup>>]
<1>4. f \in Injection(FilesIn(d), (Dirs \X Contents) \X Dups)
  <2>1. f \in [FilesIn(d) -> (Dirs \X Contents) \X Dups]
    BY DEF FilesIn, Paths
  <2>2. ASSUME NEW p \in FilesIn(d), NEW q \in FilesIn(d), f[p] = f[q] PROVE p = q
    <3>1. p.dir = q.dir /\ p.name = q.name /\ p.dup = q.dup
      BY <2>2
    <3> QED BY <3>1 DEF FilesIn, Paths
  <2> QED BY <2>1, <2>2 DEF Injection, IsInjective
<1> QED BY <1>3, <1>4, FS_Injection

LEMMA HeardTyped ==
    ASSUME NEW q \in Seq(EventSet), NEW p \in Paths
    PROVE  Heard(q, Created(p)) \in Seq(EventSet) /\ Heard(q, Removed(p)) \in Seq(EventSet)
<1>1. Created(p) \in EventSet /\ Removed(p) \in EventSet
  BY DEF Created, Removed, EventSet
<1> QED BY <1>1 DEF Heard

LEMMA WipeTyped == ASSUME DiskTyped, WatchTyped, NEW d, Wipe(d) PROVE fs' \in [Paths -> Contents \cup {Nothing}] /\ events' \in Seq(EventSet)
<1>1. fs' \in [Paths -> Contents \cup {Nothing}]
  BY DEF Wipe, Wiped, DiskTyped
<1>2. CASE Watching /\ d = Gallery
  <2>1. PICK order \in SetToSeqs(FilesIn(d)) : events' = events \o [i \in DOMAIN order |-> Removed(order[i])]
    BY <1>2 DEF Wipe
  <2> DEFINE n == Cardinality(FilesIn(d))
             s == [i \in DOMAIN order |-> Removed(order[i])]
  <2>2. n \in Nat
    BY FilesAreFinite, FS_CardinalityType
  <2>3. order \in [1..n -> FilesIn(d)]
    BY DEF SetToSeqs
  <2>4. \A i \in 1..n : Removed(order[i]) \in EventSet
    BY <2>3 DEF Removed, EventSet, FilesIn
  <2>5. s \in [1..n -> EventSet]
    BY <2>3, <2>4
  <2>6. s \in Seq(EventSet)
    BY <2>2, <2>5
  <2> HIDE DEF s
  <2> QED BY <1>1, <2>1, <2>6 DEF WatchTyped, s
<1>3. CASE ~(Watching /\ d = Gallery)
  BY <1>1, <1>3 DEF Wipe, WatchTyped
<1> QED BY <1>2, <1>3

\* What each kind of assignment keeps typed.
LEMMA UpdatedTyped ==
    ASSUME RowsTyped, NEW i, NEW p \in Paths, NEW o \in Paths \cup {NoPath}, NEW g \in BOOLEAN,
           g <=> o # NoPath, rows' = Updated(i, p, o, g), fresh' = fresh
    PROVE  RowsTyped'
<1>1. CASE i \notin DOMAIN rows
  BY <1>1 DEF Updated, RowsTyped
<1>2. CASE i \in DOMAIN rows
  <2>1. DOMAIN rows' = DOMAIN rows
    BY <1>2 DEF Updated
  <2>2. rows'[i].path = p /\ rows'[i].orig = o /\ rows'[i].deleted = g /\ rows'[i] \in Row
    BY <1>2 DEF Updated, RowsTyped, Row
  <2>3. \A j \in DOMAIN rows : j # i => rows'[j] = rows[j]
    BY <1>2 DEF Updated
  <2> QED BY <2>1, <2>2, <2>3 DEF RowsTyped
<1> QED BY <1>1, <1>2

LEMMA DeletedTyped == ASSUME RowsTyped, NEW i, rows' = Deleted(i), fresh' = fresh PROVE RowsTyped'
BY DEF RowsTyped, Deleted, Without

LEMMA GotoTyped ==
    ASSUME HandlersTyped, NEW h \in Handlers, Busy(h), NEW x \in Places, x \in PlacesOf[handler[h].op], Goto(h, x)
    PROVE  HandlersTyped'
<1>1. [handler[h] EXCEPT !.pc = x] \in Locals
  BY DEF HandlersTyped, Locals, Busy
<1>2. handler' = [handler EXCEPT ![h] = [handler[h] EXCEPT !.pc = x]]
  BY DEF Goto
<1> QED BY <1>1, <1>2 DEF HandlersTyped

LEMMA EndsTyped == ASSUME HandlersTyped, NEW h \in Handlers, Ends(h) PROVE HandlersTyped'
<1>1. Idle \in Locals
  BY DEF Idle, Locals, Places, Ops, PlacesOf
<1> QED BY <1>1 DEF HandlersTyped, Ends

LEMMA TurnTyped ==
    ASSUME Typed, NEW h \in Handlers, NEW g \in BOOLEAN, HasCompanion(h, g), Busy(h),
           NEW x \in Places, x \in PlacesOf[handler[h].op], x = "trash" \/ g, TurnToCompanion(h, x)
    PROVE  HandlersTyped'
<1> DEFINE i == handler[h].live
           q == IF x = "trash" THEN TrashPath(i, rows[i].path) ELSE rows[i].orig
           l == [handler[h] EXCEPT !.pc = x, !.id = i, !.live = NoId, !.src = rows[i].path, !.dst = q]
<1>1. i \in DOMAIN rows /\ i \in Ids /\ rows[i] \in Row /\ (rows[i].deleted = g)
  BY DEF HasCompanion, Typed, RowsTyped
<1>2. rows[i].path \in Paths /\ q \in Paths
  <2>1. rows[i].path \in Paths
    BY <1>1 DEF Row
  <2>2. CASE x = "trash"
    BY <1>1, <2>1, <2>2, PathFacts
  <2>3. CASE x # "trash"
    BY <1>1, <2>3 DEF Typed, RowsTyped, Row
  <2> QED BY <2>1, <2>2, <2>3
<1> HIDE DEF q
<1>3. l \in Locals
  BY <1>1, <1>2 DEF Typed, HandlersTyped, Locals, Busy
<1>4. handler' = [handler EXCEPT ![h] = l]
  BY DEF TurnToCompanion, q
<1> QED BY <1>3, <1>4 DEF Typed, HandlersTyped

-----------------------------------------------------------------------------
LEMMA InitTyped == ASSUME Init PROVE Typed
<1>1. RowsTyped
  BY PathFacts, TrashAssumption DEF Init, RowsTyped, Row
<1>2. HandlersTyped
  BY DEF Init, HandlersTyped, Idle, Locals, Places, Ops, PlacesOf
<1>3. DiskTyped
  BY DEF Init, DiskTyped, Paths
<1>4. WatchTyped /\ PruneTyped
  BY DEF Init, WatchTyped, PruneTyped, IdlePrune
<1> QED BY <1>1, <1>2, <1>3, <1>4 DEF Typed

LEMMA BeginTyped ==
    ASSUME Typed, NEW h \in Handlers, NEW op \in Requests, NEW id \in Ids, Begin(h, op, id)
    PROVE  Typed'
<1> DEFINE d == IF op = "trash" THEN TrashPath(id, rows[id].path) ELSE rows[id].orig
           l == [pc |-> IF op = "restore" THEN "stat" ELSE op, op |-> op, main |-> id, id |-> id,
                 live |-> rows[id].live, src |-> rows[id].path, dst |-> d]
<1>1. id \in DOMAIN rows /\ rows[id] \in Row /\ (rows[id].deleted <=> op # "trash") /\ op \in Ops
      /\ (rows[id].deleted <=> rows[id].orig # NoPath)
  BY TrashAssumption DEF Begin, Typed, RowsTyped, Ops
<1>2. rows[id].path \in Paths /\ rows[id].live \in Ids \cup {NoId}
  BY <1>1 DEF Row
<1>3. d \in Paths
  BY <1>1, <1>2, PathFacts DEF Row
<1> HIDE DEF d
<1>4. l \in Locals
  BY <1>1, <1>2, <1>3 DEF Locals, Ops, Places, PlacesOf
<1>5. handler' = [handler EXCEPT ![h] = l]
  BY DEF Begin, d
<1>6. HandlersTyped'
  BY <1>4, <1>5 DEF Typed, HandlersTyped
<1>7. purged' \subseteq Contents
  BY DEF Begin, Typed, RowsTyped, DiskTyped, Row
<1> QED BY <1>6, <1>7 DEF Begin, Typed, RowsTyped, DiskTyped, WatchTyped, PruneTyped, watchVars, pruneVars

\* The paths a busy handler holds.
LEMMA BusyFacts ==
    ASSUME Typed, NEW h \in Handlers, Busy(h)
    PROVE  /\ handler[h].src \in Paths /\ handler[h].dst \in Paths /\ handler[h].id \in Ids /\ handler[h].main \in Ids
           /\ handler[h].pc \in PlacesOf[handler[h].op] /\ handler[h].op \in Ops /\ handler[h].live \in Ids \cup {NoId}
           /\ fs[handler[h].src] \in Contents \cup {Nothing}
BY DEF Typed, HandlersTyped, Locals, Busy, DiskTyped

\* The actions of a handler, one by one.
LEMMA MovesTyped ==
    ASSUME Typed, NEW h \in Handlers, Move(h) \/ Copy(h) \/ RemoveSource(h) \/ MoveFails(h)
    PROVE  Typed'
<1> DEFINE src == handler[h].src
           dst == handler[h].dst
<1>1. Busy(h) /\ handler[h].op \in {"trash", "restore"} /\ handler[h].pc \in Moving
  <2>1. handler[h].pc \in {"move", "copied"}
    BY DEF Move, Copy, RemoveSource, MoveFails
  <2>2. handler[h].pc \in PlacesOf[handler[h].op] /\ handler[h].op \in Ops
    BY DEF Typed, HandlersTyped, Locals
  <2>3. "move" \notin PlacesOf["purge"] /\ "copied" \notin PlacesOf["purge"]
    BY DEF PlacesOf
  <2> QED BY <2>1, <2>2, <2>3 DEF Busy, Moving, Ops
<1>2. /\ src \in Paths /\ dst \in Paths /\ src # NoPath /\ dst # NoPath
      /\ handler[h].id \in Ids /\ fs[src] \in Contents \cup {Nothing}
      /\ fs \in [Paths -> Contents \cup {Nothing}] /\ purged \subseteq Contents
  BY <1>1, BusyFacts, PathFacts DEF Typed, DiskTyped
<1>3. "copied" \in PlacesOf[handler[h].op] /\ "moved" \in PlacesOf[handler[h].op]
  BY <1>1 DEF PlacesOf, Moving
<1>4. \A q \in Seq(EventSet), p \in Paths : Heard(q, Created(p)) \in Seq(EventSet) /\ Heard(q, Removed(p)) \in Seq(EventSet)
  BY HeardTyped
<1> HIDE DEF src, dst
<1>5. CASE Move(h)
  <2>1. fs' \in [Paths -> Contents \cup {Nothing}] /\ purged' = purged
    BY <1>5, <1>2 DEF Move, Moved, src, dst
  <2>2. events' \in Seq(EventSet)
    BY <1>5, <1>2, <1>4 DEF Move, src, dst, Typed, WatchTyped
  <2>3. HandlersTyped'
    BY <1>1, <1>3, <1>5, GotoTyped DEF Move, Places, Typed
  <2> QED BY <1>2, <1>5, <2>1, <2>2, <2>3 DEF Move, Typed, RowsTyped, DiskTyped, WatchTyped, PruneTyped, pruneVars
<1>6. CASE Copy(h)
  <2>1. fs' \in [Paths -> Contents \cup {Nothing}] /\ purged' = purged
    BY <1>6, <1>2 DEF Copy, src, dst
  <2>2. events' \in Seq(EventSet)
    BY <1>6, <1>2, <1>4 DEF Copy, src, dst, Typed, WatchTyped
  <2>3. HandlersTyped'
    BY <1>1, <1>3, <1>6, GotoTyped DEF Copy, Places, Typed
  <2> QED BY <1>2, <1>6, <2>1, <2>2, <2>3 DEF Copy, Typed, RowsTyped, DiskTyped, WatchTyped, PruneTyped, pruneVars
<1>7. CASE RemoveSource(h)
  <2>1. fs' \in [Paths -> Contents \cup {Nothing}] /\ purged' = purged
    BY <1>7, <1>2 DEF RemoveSource, src, dst
  <2>2. events' \in Seq(EventSet)
    BY <1>7, <1>2, <1>4 DEF RemoveSource, src, dst, Typed, WatchTyped
  <2>3. HandlersTyped'
    BY <1>1, <1>3, <1>7, GotoTyped DEF RemoveSource, Places, Typed
  <2> QED BY <1>2, <1>7, <2>1, <2>2, <2>3 DEF RemoveSource, Typed, RowsTyped, DiskTyped, WatchTyped, PruneTyped, pruneVars
<1>8. CASE MoveFails(h)
  <2>1. fs' \in [Paths -> Contents \cup {Nothing}] /\ purged' = purged
    BY <1>8, <1>2 DEF MoveFails, MoveUndone, Wiped, dst
  <2>2. HandlersTyped'
    BY <1>8, EndsTyped DEF MoveFails, MoveUndone, Typed
  <2>3. fresh' = fresh /\ (rows' = rows \/ rows' = Updated(handler[h].id, src, NoPath, FALSE))
    BY <1>8 DEF MoveFails, MoveUndone, src
  <2>4. RowsTyped'
    <3>1. CASE rows' = rows
      BY <2>3, <3>1 DEF Typed, RowsTyped
    <3>2. CASE rows' = Updated(handler[h].id, src, NoPath, FALSE)
      BY <1>2, <2>3, <3>2, UpdatedTyped DEF Typed
    <3> QED BY <2>3, <3>1, <3>2
  <2> QED BY <1>2, <1>8, <2>1, <2>2, <2>4 DEF MoveFails, MoveUndone, Typed, DiskTyped, WatchTyped, PruneTyped, watchVars, pruneVars
<1> QED BY <1>5, <1>6, <1>7, <1>8

LEMMA TrashTyped ==
    ASSUME Typed, NEW h \in Handlers, MarkTrashed(h) \/ MarkFails(h) \/ TrashMoved(h)
    PROVE  Typed'
<1>1. Busy(h) /\ handler[h].op = "trash"
  BY DEF MarkTrashed, MarkFails, TrashMoved, At, Busy
<1>2. /\ handler[h].src \in Paths /\ handler[h].dst \in Paths /\ handler[h].src # NoPath
      /\ fs \in [Paths -> Contents \cup {Nothing}] /\ purged \subseteq Contents
  BY <1>1, BusyFacts, PathFacts DEF Typed, DiskTyped
<1>3. "trash" \in PlacesOf["trash"] /\ "move" \in PlacesOf["trash"] /\ "trash" \in Places /\ "move" \in Places
  BY DEF PlacesOf, Moving, Places
<1>4. CASE MarkTrashed(h)
  <2>1. RowsTyped'
    BY <1>2, <1>4, UpdatedTyped DEF MarkTrashed, Typed
  <2>2. HandlersTyped'
    BY <1>1, <1>3, <1>4, GotoTyped DEF MarkTrashed, Typed
  <2> QED BY <1>2, <1>4, <2>1, <2>2 DEF MarkTrashed, Typed, DiskTyped, WatchTyped, PruneTyped, watchVars, pruneVars
<1>5. CASE MarkFails(h)
  <2>1. fs' \in [Paths -> Contents \cup {Nothing}]
    BY <1>2, <1>5 DEF MarkFails, Wiped
  <2>2. HandlersTyped'
    BY <1>5, EndsTyped DEF MarkFails, Typed
  <2> QED BY <1>2, <1>5, <2>1, <2>2 DEF MarkFails, Typed, RowsTyped, DiskTyped, WatchTyped, PruneTyped, watchVars, pruneVars
<1>6. CASE TrashMoved(h)
  <2>1. HandlersTyped'
    BY <1>1, <1>3, <1>6, TurnTyped, EndsTyped DEF TrashMoved, Typed
  <2> QED BY <1>2, <1>6, <2>1 DEF TrashMoved, Typed, RowsTyped, DiskTyped, WatchTyped, PruneTyped, watchVars, pruneVars
<1> QED BY <1>4, <1>5, <1>6

\* The first free name is one of the names.
LEMMA TargetIsPath ==
    ASSUME NEW p \in Paths, fs[p] # Nothing => Free(p) # {}
    PROVE  /\ RestoreTarget(p) \in Paths /\ RestoreTarget(p).dir = p.dir /\ RestoreTarget(p).name = p.name
           /\ fs[RestoreTarget(p)] = Nothing
<1>1. CASE fs[p] = Nothing
  BY <1>1 DEF RestoreTarget
<1>2. CASE fs[p] # Nothing
  <2>1. Free(p) # {} /\ Free(p) \subseteq 1..2
    <3>1. \A d \in Dups \ {0} : d \in 1..2
      BY DEF Dups
    <3> QED BY <1>2, <3>1 DEF Free
  <2>2. \E d \in Free(p) : \A e \in Free(p) : d <= e
    <3>1. CASE 1 \in Free(p)
      BY <2>1, <3>1
    <3>2. CASE 1 \notin Free(p)
      BY <2>1, <3>2
    <3> QED BY <3>1, <3>2
  <2> DEFINE d == CHOOSE x \in Free(p) : \A e \in Free(p) : x <= e
  <2>3. d \in Free(p)
    BY <2>2
  <2>4. RestoreTarget(p) = [p EXCEPT !.dup = d]
    BY <1>2 DEF RestoreTarget, Dedupe
  <2> HIDE DEF d
  <2> QED BY <2>3, <2>4 DEF Free, Paths
<1> QED BY <1>1, <1>2

LEMMA RestoreTyped ==
    ASSUME Typed, NEW h \in Handlers, RestoreStat(h) \/ RestoreUpdate(h) \/ RestoreUpdateFails(h)
    PROVE  Typed'
<1>1. Busy(h) /\ handler[h].op = "restore"
  BY DEF RestoreStat, RestoreUpdate, RestoreUpdateFails, At, Busy
<1>2. /\ handler[h].src \in Paths /\ handler[h].dst \in Paths /\ handler[h].dst # NoPath
  BY <1>1, BusyFacts, PathFacts
<1>3. CASE RestoreStat(h)
  <2> DEFINE l == [handler[h] EXCEPT !.pc = "move", !.dst = RestoreTarget(handler[h].dst)]
  <2>1. RestoreTarget(handler[h].dst) \in Paths
    BY <1>2, <1>3, TargetIsPath DEF RestoreStat
  <2>2. l \in Locals
    <3>1. "move" \in Places /\ "move" \in PlacesOf["restore"]
      BY DEF Places, PlacesOf, Moving
    <3> QED BY <1>1, <2>1, <3>1 DEF Typed, HandlersTyped, Locals, Busy
  <2>3. handler' = [handler EXCEPT ![h] = l]
    BY <1>2, <1>3 DEF RestoreStat
  <2>4. HandlersTyped'
    BY <2>2, <2>3 DEF Typed, HandlersTyped
  <2> QED BY <1>3, <2>4 DEF RestoreStat, Typed, RowsTyped, DiskTyped, WatchTyped, PruneTyped, watchVars, pruneVars
<1>4. CASE RestoreUpdate(h)
  <2>1. RowsTyped'
    BY <1>2, <1>4, UpdatedTyped DEF RestoreUpdate, Typed
  <2>2. "stat" \in PlacesOf["restore"] /\ "stat" \in Places
    BY DEF PlacesOf, Places
  <2>3. HandlersTyped'
    <3>1. CASE HasCompanion(h, TRUE) /\ TurnToCompanion(h, "stat")
      BY <1>1, <2>2, <3>1, TurnTyped
    <3>2. CASE Ends(h)
      BY <3>2, EndsTyped DEF Typed
    <3> QED BY <1>4, <3>1, <3>2 DEF RestoreUpdate
  <2> QED BY <1>4, <2>1, <2>3 DEF RestoreUpdate, Typed, DiskTyped, WatchTyped, PruneTyped, watchVars, pruneVars
<1>5. CASE RestoreUpdateFails(h)
  <2>1. HandlersTyped'
    BY <1>5, EndsTyped DEF RestoreUpdateFails, Typed
  <2> QED BY <1>5, <2>1 DEF RestoreUpdateFails, Typed, RowsTyped, DiskTyped, WatchTyped, PruneTyped, watchVars, pruneVars
<1> QED BY <1>3, <1>4, <1>5

LEMMA PurgeTyped ==
    ASSUME Typed, NEW h \in Handlers, PurgeFiles(h) \/ PurgeLiveFiles(h) \/ PurgeLiveRow(h) \/ PurgeRow(h)
    PROVE  Typed'
<1>1. Busy(h) /\ handler[h].op = "purge" /\ PlacesOf["purge"] \subseteq Places /\ {"live", "row", "liverow"} \subseteq PlacesOf["purge"]
  BY DEF PurgeFiles, PurgeLiveFiles, PurgeLiveRow, PurgeRow, At, Busy, Places, PlacesOf
<1>2. CASE PurgeFiles(h)
  <2>1. fs' \in [Paths -> Contents \cup {Nothing}] /\ events' \in Seq(EventSet)
    BY <1>2, WipeTyped DEF PurgeFiles, Typed
  <2>2. HandlersTyped'
    BY <1>1, <1>2, GotoTyped DEF PurgeFiles, Typed
  <2> QED BY <1>2, <2>1, <2>2 DEF PurgeFiles, Typed, RowsTyped, DiskTyped, WatchTyped, PruneTyped, pruneVars
<1>3. CASE PurgeLiveFiles(h)
  <2>1. fs' \in [Paths -> Contents \cup {Nothing}] /\ events' \in Seq(EventSet)
    BY <1>3, WipeTyped DEF PurgeLiveFiles, Typed, DiskTyped, WatchTyped
  <2>2. HandlersTyped'
    BY <1>1, <1>3, GotoTyped DEF PurgeLiveFiles, Typed
  <2> QED BY <1>3, <2>1, <2>2 DEF PurgeLiveFiles, Typed, RowsTyped, DiskTyped, WatchTyped, PruneTyped, pruneVars
<1>4. CASE PurgeLiveRow(h)
  <2>1. HandlersTyped' /\ RowsTyped'
    BY <1>1, <1>4, GotoTyped, DeletedTyped DEF PurgeLiveRow, Typed
  <2> QED BY <1>4, <2>1 DEF PurgeLiveRow, Typed, DiskTyped, WatchTyped, PruneTyped, watchVars, pruneVars
<1>5. CASE PurgeRow(h)
  <2>1. HandlersTyped' /\ RowsTyped'
    BY <1>5, EndsTyped, DeletedTyped DEF PurgeRow, Typed
  <2> QED BY <1>5, <2>1 DEF PurgeRow, Typed, DiskTyped, WatchTyped, PruneTyped, watchVars, pruneVars
<1> QED BY <1>2, <1>3, <1>4, <1>5

\* The watcher, the indexer, the user and the prune.
LEMMA WatchersTyped ==
    ASSUME Typed, WatchCreate \/ WatchRemove \/ WatchRemoveRow \/ NewFile \/ Crash
    PROVE  Typed'
<1>1. CASE WatchCreate
  <2>1. Head(events) \in EventSet /\ Tail(events) \in Seq(EventSet)
    BY <1>1 DEF WatchCreate, Typed, WatchTyped
  <2> QED BY <1>1, <2>1 DEF WatchCreate, EventSet, Typed, RowsTyped, HandlersTyped, DiskTyped, WatchTyped, PruneTyped, pruneVars
<1>2. CASE WatchRemove
  <2>1. Tail(events) \in Seq(EventSet)
    BY <1>2 DEF WatchRemove, Typed, WatchTyped
  <2>2. removing' \in Ids \cup {NoId}
    BY <1>2 DEF WatchRemove, Live, Typed, RowsTyped
  <2> QED BY <1>2, <2>1, <2>2 DEF WatchRemove, Typed, RowsTyped, HandlersTyped, DiskTyped, WatchTyped, PruneTyped, pruneVars
<1>3. CASE WatchRemoveRow
  <2>1. RowsTyped'
    BY <1>3, DeletedTyped DEF WatchRemoveRow, Typed
  <2> QED BY <1>3, <2>1 DEF WatchRemoveRow, Typed, HandlersTyped, DiskTyped, WatchTyped, PruneTyped, pruneVars
<1>4. CASE NewFile
  <2>1. GalleryPath(ContentOf[Still]) \in Paths
    BY PathFacts
  <2>2. events' \in Seq(EventSet)
    BY <1>4, <2>1, HeardTyped DEF NewFile, Typed, WatchTyped
  <2>3. fs' \in [Paths -> Contents \cup {Nothing}]
    BY <1>4, TrashAssumption DEF NewFile, Typed, DiskTyped
  <2> QED BY <1>4, <2>2, <2>3 DEF NewFile, Typed, RowsTyped, HandlersTyped, DiskTyped, WatchTyped, PruneTyped, pruneVars
<1>5. CASE Crash
  <2>1. Idle \in Locals
    BY DEF Idle, Locals, Places, Ops, PlacesOf
  <2> QED BY <1>5, <2>1 DEF Crash, IdlePrune, Typed, RowsTyped, HandlersTyped, DiskTyped, WatchTyped, PruneTyped
<1> QED BY <1>1, <1>2, <1>3, <1>4, <1>5

\* What the indexer does: nothing, an update of the rows of the path, a new row.
LEMMA IndexTyped == ASSUME Typed, NEW p \in toIndex, Index(p) PROVE Typed'
<1>1. p \in Paths /\ fs[p] \in Contents \cup {Nothing}
  BY DEF Typed, WatchTyped, DiskTyped
<1>2. RowsTyped'
  <2>1. CASE fs[p] = Nothing \/ Known(p)
    BY <2>1 DEF Index, Typed, RowsTyped
  <2>2. CASE fs[p] # Nothing /\ ~Known(p) /\ Changed(p) # {}
    BY <1>1, <2>2 DEF Index, Typed, RowsTyped, Row
  <2>3. CASE fs[p] # Nothing /\ ~Known(p) /\ Changed(p) = {}
    <3>1. PICK new \in fresh : /\ rows' = [i \in DOMAIN rows \cup {new} |-> IF i = new THEN NewRow(p) ELSE rows[i]]
                               /\ fresh' = fresh \ {new}
      BY <2>3 DEF Index
    <3>2. NewRow(p) \in Row /\ NewRow(p).deleted = FALSE /\ NewRow(p).orig = NoPath
      BY <1>1, <2>3, PathFacts DEF NewRow, Row
    <3>3. DOMAIN rows' = DOMAIN rows \cup {new} /\ rows'[new] = NewRow(p) /\ \A i \in DOMAIN rows : rows'[i] = rows[i]
      BY <3>1 DEF Typed, RowsTyped
    <3> QED BY <3>1, <3>2, <3>3 DEF Typed, RowsTyped
  <2> QED BY <2>1, <2>2, <2>3
<1> QED BY <1>2 DEF Index, Typed, HandlersTyped, DiskTyped, WatchTyped, PruneTyped, pruneVars

LEMMA PruneStepTyped ==
    ASSUME Typed, \/ PruneQuery \/ PruneEnd
                  \/ \E x \in prune.seen : PruneStat(x)
                  \/ \E id \in prune.gone : PruneDelete(id)
    PROVE  Typed'
<1> USE DEF Typed, HandlersTyped, DiskTyped, WatchTyped, PruneTyped, watchVars
<1>1. CASE PruneQuery
  <2>1. {<<i, rows[i].path>> : i \in DOMAIN rows} \subseteq Ids \X Paths
    BY DEF RowsTyped, Row
  <2> QED BY <1>1, <2>1 DEF PruneQuery, IdlePrune, RowsTyped
<1>2. CASE PruneEnd
  BY <1>2 DEF PruneEnd, IdlePrune, RowsTyped
<1>3. ASSUME NEW x \in prune.seen, PruneStat(x) PROVE Typed'
  <2>1. x[1] \in Ids
    OBVIOUS
  <2>2. PruneTyped'
    BY <1>3, <2>1 DEF PruneStat
  <2> QED BY <1>3, <2>2 DEF PruneStat, RowsTyped
<1>4. ASSUME NEW id \in prune.gone, PruneDelete(id) PROVE Typed'
  <2>1. RowsTyped'
    BY <1>4, DeletedTyped DEF PruneDelete
  <2>2. PruneTyped'
    BY <1>4 DEF PruneDelete
  <2> QED BY <1>4, <2>1, <2>2 DEF PruneDelete
<1> QED BY <1>1, <1>2, <1>3, <1>4

LEMMA StepTyped == ASSUME Typed, [Next]_vars PROVE Typed'
<1>1. CASE UNCHANGED vars
  BY <1>1 DEF vars, watchVars, pruneVars, Typed, RowsTyped, HandlersTyped, DiskTyped, WatchTyped, PruneTyped
<1>2. ASSUME NEW h \in Handlers, HandlerStep(h) PROVE Typed'
  BY <1>2, MovesTyped, TrashTyped, RestoreTyped, PurgeTyped DEF HandlerStep
<1> QED BY <1>1, <1>2, BeginTyped, WatchersTyped, IndexTyped, PruneStepTyped DEF Next

\* Every reachable state is well typed, for any photos, handlers and faults: in
\* particular a row has an original path exactly while it is in the trash.
THEOREM TrashTypeCorrect == Spec => []TypeOK
<1>1. Init => Typed BY InitTyped
<1>2. Typed /\ [Next]_vars => Typed' BY StepTyped
<1>3. Typed => TypeOK
  <2> SUFFICES ASSUME Typed PROVE TypeOK
    OBVIOUS
  <2>1. \A k \in 1..Len(events) : events[k].path \in Paths
    <3>1. \A k \in 1..Len(events) : events[k] \in EventSet
      BY DEF Typed, WatchTyped
    <3> QED BY <3>1 DEF EventSet
  <2>2. \A h \in Handlers : handler[h].pc \in Places
    BY DEF Typed, HandlersTyped, Locals
  <2> QED BY <2>1, <2>2 DEF Typed, RowsTyped, DiskTyped, WatchTyped, TypeOK, Places
<1> QED BY <1>1, <1>2, <1>3, PTL DEF Spec

-----------------------------------------------------------------------------
(* Whose directory is whose: a file in the trash directory of a row is the one  *)
(* the row names, so what a purge or a failed move wipes is never another's.    *)

\* No request runs beside another; a user who may put a file where a photo was, or
\* who has Live Photos, is as careful as CarefulRequest says.
OneAtATime == \A g, h \in Handlers : g = h
Cautious   == OneAtATime /\ (Newcomer = Nothing \/ Careful) /\ (Companion = NoId \/ Careful)

Empty(d)  == \A p \in Paths : p.dir = d => fs[p] = Nothing
HoldsOnly(d, q) == \A p \in Paths : p.dir = d => p = q \/ fs[p] = Nothing
Spoilt(d) == \A p \in Paths : p.dir = d => fs[p] \in purged \cup {Nothing}

RowPlaces == \A i \in DOMAIN rows :
    /\ rows[i].live = IF i = Still THEN Companion ELSE NoId
    /\ rows[i].deleted => rows[i].path.dir = i /\ rows[i].orig.dir = Gallery
    /\ ~rows[i].deleted => rows[i].path.dir = Gallery

DirsOwned ==
    /\ fresh \cap DOMAIN ContentOf = {}
    /\ \A i \in fresh : Empty(i)
    /\ \A i \in DOMAIN rows, p \in Paths : p.dir = i /\ fs[p] # Nothing => rows[i].deleted /\ p = rows[i].path

OnlyGallery ==
    /\ \A p \in toIndex : p.dir = Gallery
    /\ events \in Seq({e \in EventSet : e.path.dir = Gallery})

RowIs(h, path) == LET i == handler[h].id IN i \in DOMAIN rows => rows[i].deleted /\ rows[i].path = path

TrashOK(h) == LET l == handler[h] IN
    /\ l.src.dir = Gallery /\ l.dst = TrashPath(l.id, l.src)
    /\ l.pc \in {"trash", "move"} => Empty(l.id)
    /\ l.pc = "copied" => HoldsOnly(l.id, l.dst)
    /\ l.pc \in Moving => RowIs(h, l.dst)

RestoreOK(h) == LET l == handler[h] IN
    /\ l.src.dir = l.id /\ l.dst.dir = Gallery
    /\ RowIs(h, l.src)
    /\ l.pc = "move" => fs[l.dst] = Nothing
    /\ l.pc = "moved" /\ l.id \in DOMAIN rows => Empty(l.id)

PurgeOK(h) == LET l == handler[h] IN
    /\ l.src.dir = l.main
    /\ l.pc = "purge" => Spoilt(l.main)
    /\ l.pc \in {"purge", "live"} /\ l.live \in DOMAIN rows => rows[l.live].deleted /\ Spoilt(l.live)

HandlerOK(h) == LET l == handler[h] IN Busy(h) =>
    /\ l.id \notin fresh /\ l.live \in {NoId, Companion} \ {l.id}
    /\ l.pc = "copied" => fs[l.src] # Nothing /\ fs[l.dst] = fs[l.src]
    /\ l.op = "trash" => TrashOK(h)
    /\ l.op = "restore" => RestoreOK(h)
    /\ l.op = "purge" => PurgeOK(h)

HandlersOK == \A h \in Handlers : HandlerOK(h)

Sound == Typed /\ RowPlaces /\ DirsOwned /\ OnlyGallery /\ HandlersOK

\* The path of a row leads to its own file or to none.
HoldsOwn == \A i \in DOMAIN rows : fs[rows[i].path] \in {Nothing, rows[i].content}

-----------------------------------------------------------------------------
LEMMA GotoFields ==
    ASSUME HandlersTyped, NEW h \in Handlers, NEW x, Goto(h, x)
    PROVE  /\ handler'[h].pc = x /\ handler'[h].op = handler[h].op /\ handler'[h].main = handler[h].main
           /\ handler'[h].id = handler[h].id /\ handler'[h].live = handler[h].live
           /\ handler'[h].src = handler[h].src /\ handler'[h].dst = handler[h].dst
BY DEF Goto, HandlersTyped, Locals

LEMMA EndsFields == ASSUME HandlersTyped, NEW h \in Handlers, Ends(h) PROVE handler'[h].pc = "idle" /\ HandlerOK(h)'
BY DEF Ends, HandlersTyped, Idle, HandlerOK, Busy

\* What an update makes of its row and leaves of the others.
LEMMA UpdatedRows ==
    ASSUME RowsTyped, NEW i, NEW p \in Paths, NEW o \in Paths \cup {NoPath}, NEW g \in BOOLEAN, rows' = Updated(i, p, o, g)
    PROVE  /\ DOMAIN rows' = DOMAIN rows
           /\ \A j \in DOMAIN rows : j # i => rows'[j] = rows[j]
           /\ i \in DOMAIN rows => /\ rows'[i].path = p /\ rows'[i].orig = o /\ rows'[i].deleted = g
                                   /\ rows'[i].live = rows[i].live /\ rows'[i].content = rows[i].content
<1>1. CASE i \notin DOMAIN rows
  BY <1>1 DEF Updated
<1>2. CASE i \in DOMAIN rows
  BY <1>2 DEF Updated, RowsTyped, Row
<1> QED BY <1>1, <1>2

\* Rows may go at any moment: nothing here depends on their being there.
LEMMA RowsMayGo ==
    ASSUME RowPlaces, DirsOwned, HandlersOK, DOMAIN rows' \subseteq DOMAIN rows,
           \A i \in DOMAIN rows' : rows'[i] = rows[i], UNCHANGED <<fs, fresh, purged>>
    PROVE  RowPlaces' /\ DirsOwned' /\ \A h \in Handlers : handler'[h] = handler[h] => HandlerOK(h)'
<1>1. RowPlaces'
  BY DEF RowPlaces
<1>2. DirsOwned'
  BY DEF DirsOwned, Empty
<1>3. ASSUME NEW h \in Handlers, handler'[h] = handler[h] PROVE HandlerOK(h)'
  BY <1>3 DEF HandlersOK, HandlerOK, Busy, TrashOK, RestoreOK, PurgeOK, RowIs, Empty, HoldsOnly, Spoilt
<1> QED BY <1>1, <1>2, <1>3

LEMMA DeletedRows ==
    ASSUME NEW i, rows' = Deleted(i)
    PROVE  DOMAIN rows' \subseteq DOMAIN rows /\ (\A j \in DOMAIN rows' : rows'[j] = rows[j])
           /\ DOMAIN rows \ DOMAIN rows' \subseteq {i}
BY DEF Deleted, Without

LEMMA InitSound == ASSUME Init PROVE Sound
<1>1. Typed
  BY InitTyped
<1>2. RowPlaces
  BY PathFacts DEF Init, RowPlaces
<1>3. OnlyGallery
  BY DEF Init, OnlyGallery
<1>4. HandlersOK
  BY DEF Init, HandlersOK, HandlerOK, Busy, Idle
<1>5. \A p \in Paths : fs[p] # Nothing => p.dir = Gallery
  BY PathFacts DEF Init
<1>6. DirsOwned
  BY <1>1, <1>5, PathFacts DEF Init, DirsOwned, Empty, Typed, RowsTyped
<1> QED BY <1>1, <1>2, <1>3, <1>4, <1>6 DEF Sound

LEMMA HeardGallery ==
    ASSUME NEW q \in Seq({e \in EventSet : e.path.dir = Gallery}), NEW p \in Paths
    PROVE  /\ Heard(q, Created(p)) \in Seq({e \in EventSet : e.path.dir = Gallery})
           /\ Heard(q, Removed(p)) \in Seq({e \in EventSet : e.path.dir = Gallery})
<1>1. p.dir = Gallery => Created(p) \in {e \in EventSet : e.path.dir = Gallery} /\ Removed(p) \in {e \in EventSet : e.path.dir = Gallery}
  BY DEF Created, Removed, EventSet
<1>2. Created(p).path = p /\ Removed(p).path = p
  BY DEF Created, Removed
<1> QED BY <1>1, <1>2 DEF Heard

\* The wiped directory of a purge is a trash directory: that of the asset, or of its
\* video, whose row is in the trash too.
LEMMA WipesTrash ==
    ASSUME Cautious, Sound, NEW h \in Handlers, PurgeFiles(h) \/ PurgeLiveFiles(h)
    PROVE  /\ PurgeFiles(h) => handler[h].src.dir = handler[h].main /\ fs' = Wiped(handler[h].main) /\ UNCHANGED events
                               /\ Spoilt(handler[h].main)
           /\ PurgeLiveFiles(h) => \/ UNCHANGED <<fs, events>>
                                   \/ /\ handler[h].live \in DOMAIN rows /\ rows[handler[h].live].deleted
                                      /\ fs' = Wiped(handler[h].live) /\ UNCHANGED events /\ Spoilt(handler[h].live)
<1>1. Busy(h) /\ handler[h].op = "purge" /\ PurgeOK(h) /\ handler[h].main \in Ids /\ Gallery \notin Ids
  BY BusyFacts, PathFacts DEF Sound, HandlersOK, HandlerOK, PurgeFiles, PurgeLiveFiles, At, Busy
<1>2. ASSUME PurgeFiles(h)
      PROVE  handler[h].src.dir = handler[h].main /\ fs' = Wiped(handler[h].main) /\ UNCHANGED events /\ Spoilt(handler[h].main)
  BY <1>1, <1>2 DEF PurgeFiles, At, PurgeOK, Wipe
<1>3. ASSUME PurgeLiveFiles(h), handler[h].live \in DOMAIN rows
      PROVE  /\ rows[handler[h].live].deleted
             /\ fs' = Wiped(handler[h].live) /\ UNCHANGED events /\ Spoilt(handler[h].live)
  <2>1. rows[handler[h].live].deleted /\ Spoilt(handler[h].live)
    BY <1>1, <1>3 DEF PurgeLiveFiles, At, PurgeOK
  <2>2. rows[handler[h].live].path.dir = handler[h].live /\ handler[h].live \in Ids
    BY <1>3, <2>1 DEF Sound, RowPlaces, Typed, RowsTyped
  <2>3. rows[handler[h].live].path.dir # Gallery
    BY <2>2, PathFacts
  <2> QED BY <1>3, <2>1, <2>2, <2>3 DEF PurgeLiveFiles, Wipe
<1>4. ASSUME PurgeLiveFiles(h), handler[h].live \notin DOMAIN rows PROVE UNCHANGED <<fs, events>>
  BY <1>4 DEF PurgeLiveFiles
<1> QED BY <1>2, <1>3, <1>4

\* The watcher and the indexer hear of the gallery only.
LEMMA StepGallery == ASSUME Cautious, Sound, [Next]_vars PROVE OnlyGallery'
<1> DEFINE Q == Seq({e \in EventSet : e.path.dir = Gallery})
<1>0. events \in Q /\ \A p \in toIndex : p.dir = Gallery
  BY DEF Sound, OnlyGallery
<1>1. ASSUME NEW h \in Handlers, HandlerStep(h) PROVE OnlyGallery'
  <2>1. CASE Move(h) \/ Copy(h) \/ RemoveSource(h)
    <3>1. Busy(h)
      BY <2>1 DEF Move, Copy, RemoveSource, Busy
    <3>2. handler[h].src \in Paths /\ handler[h].dst \in Paths
      BY <3>1, BusyFacts DEF Sound
    <3>3. \A q \in Q, p \in Paths : Heard(q, Created(p)) \in Q /\ Heard(q, Removed(p)) \in Q
      BY HeardGallery
    <3> HIDE DEF Q
    <3>4. events' \in Q /\ toIndex' = toIndex
      BY <1>0, <2>1, <3>2, <3>3 DEF Move, Copy, RemoveSource
    <3> QED BY <1>0, <3>4 DEF OnlyGallery, Q
  <2>2. CASE PurgeFiles(h) \/ PurgeLiveFiles(h)
    <3>1. events' = events /\ toIndex' = toIndex
      BY <2>2, WipesTrash DEF PurgeFiles, PurgeLiveFiles
    <3> QED BY <1>0, <3>1 DEF OnlyGallery
  <2>3. CASE MarkTrashed(h) \/ MarkFails(h) \/ TrashMoved(h) \/ MoveFails(h) \/ PurgeLiveRow(h) \/ PurgeRow(h)
             \/ RestoreStat(h) \/ RestoreUpdate(h) \/ RestoreUpdateFails(h)
    <3>1. events' = events /\ toIndex' = toIndex
      BY <2>3 DEF MarkTrashed, MarkFails, TrashMoved, MoveFails, MoveUndone, PurgeLiveRow, PurgeRow,
                  RestoreStat, RestoreUpdate, RestoreUpdateFails, watchVars
    <3> QED BY <1>0, <3>1 DEF OnlyGallery
  <2> QED BY <1>1, <2>1, <2>2, <2>3 DEF HandlerStep
<1>2. CASE WatchCreate
  <2>1. Head(events) \in {e \in EventSet : e.path.dir = Gallery} /\ Tail(events) \in Q
    BY <1>0, <1>2 DEF WatchCreate
  <2> QED BY <1>0, <1>2, <2>1 DEF WatchCreate, OnlyGallery
<1>3. CASE WatchRemove
  <2>1. Tail(events) \in Q
    BY <1>0, <1>3 DEF WatchRemove
  <2> QED BY <1>0, <1>3, <2>1 DEF WatchRemove, OnlyGallery
<1>4. CASE NewFile
  <2>1. GalleryPath(ContentOf[Still]) \in Paths
    BY PathFacts
  <2>2. events' \in Q /\ toIndex' = toIndex
    BY <1>0, <1>4, <2>1, HeardGallery DEF NewFile
  <2> QED BY <1>0, <2>2 DEF OnlyGallery
<1>5. CASE Crash
  BY <1>5 DEF Crash, OnlyGallery
<1>6. ASSUME NEW p \in toIndex, Index(p) PROVE OnlyGallery'
  BY <1>0, <1>6 DEF Index, OnlyGallery
<1>7. ASSUME UNCHANGED <<events, toIndex>> PROVE OnlyGallery'
  BY <1>0, <1>7 DEF OnlyGallery
<1>8. CASE WatchRemoveRow \/ PruneQuery \/ PruneEnd \/ (\E s \in prune.seen : PruneStat(s))
           \/ (\E id \in prune.gone : PruneDelete(id)) \/ (UNCHANGED vars)
           \/ \E h \in Handlers, op \in Requests, id \in Ids : Begin(h, op, id)
  BY <1>7, <1>8 DEF WatchRemoveRow, PruneQuery, PruneEnd, PruneStat, PruneDelete, vars, watchVars, Begin
<1> QED BY <1>1, <1>2, <1>3, <1>4, <1>5, <1>6, <1>8 DEF Next

\* What the handlers' claims rest on when something else happens.
Parts == RowPlaces /\ DirsOwned /\ HandlersOK

LEMMA Unrelated ==
    ASSUME Parts, UNCHANGED <<rows, fs, fresh, purged, handler>>
    PROVE  Parts'
<1>1. RowPlaces' /\ DirsOwned'
  BY DEF Parts, RowPlaces, DirsOwned, Empty
<1>2. HandlersOK'
  BY DEF Parts, HandlersOK, HandlerOK, Busy, TrashOK, RestoreOK, PurgeOK, RowIs, Empty, HoldsOnly, Spoilt
<1> QED BY <1>1, <1>2 DEF Parts

LEMMA NewFileSound == ASSUME Cautious, Sound, NewFile PROVE Parts'
<1>1. /\ \A h \in Handlers : ~Busy(h)
      /\ UNCHANGED <<rows, fresh, purged, handler>>
      /\ \A p \in Paths : p.dir # Gallery => fs'[p] = fs[p]
  BY PathFacts DEF NewFile, Cautious, AllIdle, Busy, Sound, Typed, DiskTyped
<1>2. \A i \in Ids : i # Gallery
  BY PathFacts
<1>3. RowPlaces' /\ DirsOwned'
  BY <1>1, <1>2 DEF Sound, Typed, RowsTyped, RowPlaces, DirsOwned, Empty
<1>4. HandlersOK'
  BY <1>1 DEF HandlersOK, HandlerOK, Busy
<1> QED BY <1>3, <1>4 DEF Parts

LEMMA CrashSound == ASSUME Sound, Crash PROVE Parts'
<1>1. RowPlaces' /\ DirsOwned'
  BY DEF Crash, Sound, RowPlaces, DirsOwned, Empty
<1>2. HandlersOK'
  BY DEF Crash, HandlersOK, HandlerOK, Busy, Idle
<1> QED BY <1>1, <1>2 DEF Parts

\* A new row is for a new id, whose trash directory nobody has made.
LEMMA IndexSound == ASSUME Sound, NEW p \in toIndex, Index(p) PROVE Parts'
<1>1. UNCHANGED <<fs, handler, purged>> /\ fresh' \subseteq fresh
  BY DEF Index
<1>2. CASE UNCHANGED <<rows, fresh>>
  BY <1>1, <1>2, Unrelated DEF Sound, Parts
<1>3. CASE \E i \in DOMAIN rows : i \in Changed(p) /\ fresh' = fresh
                /\ rows' = [j \in DOMAIN rows |-> IF j \in Changed(p) THEN [rows[j] EXCEPT !.content = fs[p]] ELSE rows[j]]
  <2>1. /\ DOMAIN rows' = DOMAIN rows
        /\ \A i \in DOMAIN rows : /\ rows'[i].path = rows[i].path /\ rows'[i].orig = rows[i].orig
                                  /\ rows'[i].deleted = rows[i].deleted /\ rows'[i].live = rows[i].live
    BY <1>3 DEF Sound, Typed, RowsTyped, Row
  <2>2. RowPlaces' /\ DirsOwned'
    BY <1>1, <1>3, <2>1 DEF Sound, RowPlaces, DirsOwned, Empty
  <2>3. HandlersOK'
    <3>1. ASSUME NEW h \in Handlers PROVE HandlerOK(h)'
      <4>1. HandlerOK(h)
        BY DEF Sound, HandlersOK
      <4> QED BY <1>1, <1>3, <2>1, <4>1 DEF HandlerOK, Busy, TrashOK, RestoreOK, PurgeOK, RowIs, Empty, HoldsOnly, Spoilt
    <3> QED BY <3>1 DEF HandlersOK
  <2> QED BY <2>2, <2>3 DEF Parts
<1>4. CASE \E new \in fresh : /\ rows' = [i \in DOMAIN rows \cup {new} |-> IF i = new THEN NewRow(p) ELSE rows[i]]
                              /\ fresh' = fresh \ {new}
  <2>1. PICK new \in fresh : /\ rows' = [i \in DOMAIN rows \cup {new} |-> IF i = new THEN NewRow(p) ELSE rows[i]]
                             /\ fresh' = fresh \ {new}
    BY <1>4
  <2>2. /\ DOMAIN rows' = DOMAIN rows \cup {new} /\ new \notin DOMAIN rows
        /\ rows'[new] = NewRow(p) /\ \A i \in DOMAIN rows : rows'[i] = rows[i]
    BY <2>1 DEF Sound, Typed, RowsTyped
  <2>3. p.dir = Gallery /\ new # Still /\ new # Companion /\ Empty(new)
    BY PathFacts DEF Sound, OnlyGallery, DirsOwned, Typed, RowsTyped
  <2>4. NewRow(p).live = NoId /\ NewRow(p).path = p /\ NewRow(p).deleted = FALSE
    BY DEF NewRow
  <2>5. RowPlaces'
    BY <2>2, <2>3, <2>4 DEF Sound, RowPlaces
  <2>6. DirsOwned'
    BY <1>1, <2>2, <2>3 DEF Sound, DirsOwned, Empty
  <2>7. HandlersOK'
    <3>1. ASSUME NEW h \in Handlers, Busy(h) PROVE HandlerOK(h)'
      <4>1. HandlerOK(h) /\ handler[h].id # new /\ handler[h].live # new
        BY <2>1, <2>3, <3>1, PathFacts DEF Sound, HandlersOK, HandlerOK, Typed, RowsTyped
      <4> QED BY <1>1, <2>1, <2>2, <3>1, <4>1 DEF HandlerOK, Busy, TrashOK, RestoreOK, PurgeOK, RowIs, Empty, HoldsOnly, Spoilt
    <3> QED BY <1>1, <3>1 DEF HandlersOK, HandlerOK, Busy
  <2> QED BY <2>5, <2>6, <2>7 DEF Parts
<1> QED BY <1>2, <1>3, <1>4 DEF Index, Changed

LEMMA BeginSound ==
    ASSUME Cautious, Sound, HoldsOwn, NEW h \in Handlers, NEW op \in Requests, NEW id \in Ids, Begin(h, op, id)
    PROVE  Parts'
<1> DEFINE d == IF op = "trash" THEN TrashPath(id, rows[id].path) ELSE rows[id].orig
           x == IF op = "restore" THEN "stat" ELSE op
           l == [pc |-> x, op |-> op, main |-> id, id |-> id, live |-> rows[id].live, src |-> rows[id].path, dst |-> d]
<1>1. /\ id \in DOMAIN rows /\ rows[id] \in Row /\ (rows[id].deleted <=> op # "trash") /\ op \in Ops /\ id # Companion
      /\ handler' = [handler EXCEPT ![h] = l]
      /\ UNCHANGED <<rows, fs, fresh>> /\ purged \subseteq purged' /\ id \notin fresh
      /\ op = "purge" => \A i \in {id, rows[id].live} \cap DOMAIN rows : rows[i].content \in purged'
      /\ Careful /\ op = "purge" /\ rows[id].live \in DOMAIN rows => rows[rows[id].live].deleted
  BY TrashAssumption DEF Begin, CarefulRequest, Sound, Typed, RowsTyped, Ops
<1>2. RowPlaces' /\ DirsOwned'
  BY <1>1 DEF Sound, RowPlaces, DirsOwned, Empty
<1>3. handler'[h] = l
  BY <1>1 DEF Sound, Typed, HandlersTyped
<1>4. rows[id].live \in {NoId, Companion} \ {id}
  BY <1>1, PathFacts DEF Sound, RowPlaces
\* A trashed row's directory holds its own file, which the purge names.
<1>5. ASSUME NEW i \in DOMAIN rows, op = "purge", i \in {id, rows[id].live} PROVE rows[i].deleted /\ Spoilt(i)'
  <2>1. rows[i].deleted /\ rows[i].content \in purged'
    <3>1. CASE i = id
      BY <1>1, <1>5, <3>1
    <3>2. CASE i = rows[id].live
      BY <1>1, <1>4, <1>5, <3>2, PathFacts DEF Cautious, Sound, Typed, RowsTyped
    <3> QED BY <1>5, <3>1, <3>2
  <2>2. ASSUME NEW p \in Paths, p.dir = i PROVE fs[p] \in purged' \cup {Nothing}
    <3>1. fs[p] # Nothing => p = rows[i].path
      BY <2>2 DEF Sound, DirsOwned
    <3> QED BY <2>1, <3>1 DEF HoldsOwn
  <2> QED BY <1>1, <2>1, <2>2 DEF Spoilt
<1>6. CASE op = "trash"
  <2>1. rows[id].path.dir = Gallery /\ d = TrashPath(id, rows[id].path) /\ Empty(id)'
    BY <1>1, <1>6 DEF Sound, RowPlaces, DirsOwned, Empty
  <2> HIDE DEF d
  <2>2. HandlerOK(h)'
    BY <1>1, <1>3, <1>4, <1>6, <2>1 DEF HandlerOK, TrashOK, Moving
  <2> QED BY <1>2, <2>2 DEF Parts, HandlersOK, Cautious, OneAtATime
<1>7. CASE op = "restore"
  <2>1. rows[id].path.dir = id /\ d.dir = Gallery
    BY <1>1, <1>7 DEF Sound, RowPlaces
  <2> HIDE DEF d
  <2>2. HandlerOK(h)'
    BY <1>1, <1>3, <1>4, <1>7, <2>1 DEF HandlerOK, RestoreOK, RowIs
  <2> QED BY <1>2, <2>2 DEF Parts, HandlersOK, Cautious, OneAtATime
<1>8. CASE op = "purge"
  <2>1. rows[id].path.dir = id
    BY <1>1, <1>8 DEF Sound, RowPlaces
  <2> HIDE DEF d
  <2>2. PurgeOK(h)'
    BY <1>1, <1>3, <1>5, <1>8, <2>1 DEF PurgeOK
  <2>3. HandlerOK(h)'
    BY <1>1, <1>3, <1>4, <1>8, <2>2 DEF HandlerOK
  <2> QED BY <1>2, <2>3 DEF Parts, HandlersOK, Cautious, OneAtATime
<1> QED BY <1>1, <1>6, <1>7, <1>8 DEF Ops

-----------------------------------------------------------------------------
(* The steps of a handler.                                                     *)

\* With one handler, its claim is all claims.
LEMMA OneHandler ==
    ASSUME Cautious, NEW h \in Handlers, RowPlaces', DirsOwned', HandlerOK(h)'
    PROVE  Parts'
BY DEF Cautious, OneAtATime, Parts, HandlersOK

LEMMA FilesMayGo ==
    ASSUME RowPlaces, DirsOwned, UNCHANGED <<rows, fresh>>, \A p \in Paths : fs'[p] \in {fs[p], Nothing}
    PROVE  RowPlaces' /\ DirsOwned'
BY DEF RowPlaces, DirsOwned, Empty

\* What is known of a busy handler.
LEMMA HandlerFacts ==
    ASSUME Sound, NEW h \in Handlers, Busy(h)
    PROVE  /\ HandlerOK(h) /\ handler[h].id \in Ids \ fresh
           /\ handler[h].src \in Paths /\ handler[h].dst \in Paths /\ handler[h].src # NoPath /\ handler[h].dst # NoPath
           /\ handler[h].id # Gallery /\ HandlersTyped /\ RowsTyped /\ RowPlaces /\ DirsOwned
           /\ handler[h].op = "trash" => handler[h].dst.dir = handler[h].id
           /\ fs \in [Paths -> Contents \cup {Nothing}]
<1>1. HandlerOK(h) /\ HandlersTyped /\ RowsTyped /\ RowPlaces /\ DirsOwned /\ fs \in [Paths -> Contents \cup {Nothing}]
  BY DEF Sound, HandlersOK, Typed, DiskTyped
<1>2. handler[h].id \in Ids /\ handler[h].src \in Paths /\ handler[h].dst \in Paths
  BY BusyFacts DEF Sound
<1>3. handler[h].op = "trash" => handler[h].dst.dir = handler[h].id
  BY <1>1, <1>2, PathFacts DEF HandlerOK, TrashOK
<1> QED BY <1>1, <1>2, <1>3, PathFacts DEF HandlerOK

LEMMA MarkTrashedSound == ASSUME Cautious, Sound, NEW h \in Handlers, MarkTrashed(h) PROVE Parts'
<1> DEFINE id == handler[h].id
           src == handler[h].src
           dst == handler[h].dst
<1>1. Busy(h) /\ handler[h].op = "trash" /\ handler[h].pc = "trash" /\ UNCHANGED <<fresh, fs, purged>>
  BY DEF MarkTrashed, At, Busy
<1>2. /\ HandlerOK(h) /\ id \in Ids \ fresh /\ src \in Paths /\ dst \in Paths /\ HandlersTyped /\ RowsTyped
      /\ RowPlaces /\ DirsOwned /\ dst.dir = id
  BY <1>1, HandlerFacts
<1>3. src.dir = Gallery /\ dst = TrashPath(id, src) /\ Empty(id)
  BY <1>1, <1>2 DEF HandlerOK, TrashOK
<1>4. /\ DOMAIN rows' = DOMAIN rows /\ \A j \in DOMAIN rows : j # id => rows'[j] = rows[j]
      /\ id \in DOMAIN rows => /\ rows'[id].path = dst /\ rows'[id].orig = src /\ rows'[id].deleted = TRUE
                               /\ rows'[id].live = rows[id].live
  BY <1>2, UpdatedRows DEF MarkTrashed
<1>5. RowPlaces'
  BY <1>2, <1>3, <1>4 DEF RowPlaces
<1>6. DirsOwned'
  BY <1>1, <1>2, <1>3, <1>4 DEF DirsOwned, Empty
<1>7. /\ handler'[h].pc = "move" /\ handler'[h].op = "trash" /\ handler'[h].id = id /\ handler'[h].live = handler[h].live
      /\ handler'[h].src = src /\ handler'[h].dst = dst
  BY <1>1, <1>2, GotoFields DEF MarkTrashed
<1> HIDE DEF id, src, dst
<1>8. TrashOK(h)'
  BY <1>1, <1>3, <1>4, <1>7 DEF TrashOK, Empty, Moving, RowIs
<1>9. HandlerOK(h)'
  BY <1>1, <1>2, <1>7, <1>8 DEF HandlerOK, id
<1> QED BY <1>5, <1>6, <1>9, OneHandler

\* A move: the file is at its new path, or was missing already.
LEMMA MoveSound == ASSUME Cautious, Sound, NEW h \in Handlers, Move(h) PROVE Parts'
<1> DEFINE id == handler[h].id
           src == handler[h].src
           dst == handler[h].dst
<1>1. /\ Busy(h) /\ handler[h].op \in {"trash", "restore"} /\ handler[h].pc = "move" /\ UNCHANGED <<fresh, rows, purged>>
  <2>1. handler[h].pc = "move" /\ UNCHANGED <<fresh, rows, purged>>
    BY DEF Move
  <2>2. "move" \notin PlacesOf["purge"]
    BY DEF PlacesOf
  <2> QED BY <2>1, <2>2, BusyFacts DEF Sound, Busy, Ops
<1>2. /\ HandlerOK(h) /\ id \in Ids \ fresh /\ src \in Paths /\ dst \in Paths /\ HandlersTyped /\ RowsTyped
      /\ RowPlaces /\ DirsOwned /\ id # Gallery /\ fs \in [Paths -> Contents \cup {Nothing}]
  BY <1>1, HandlerFacts
<1>3. /\ handler'[h].pc = "moved" /\ handler'[h].op = handler[h].op /\ handler'[h].id = id
      /\ handler'[h].live = handler[h].live /\ handler'[h].src = src /\ handler'[h].dst = dst
  BY <1>2, GotoFields DEF Move
<1>4. RowPlaces'
  BY <1>1, <1>2 DEF RowPlaces
<1>5. \/ fs' = fs /\ (fs[src] = Nothing \/ src = dst)
      \/ /\ src # dst /\ fs'[src] = Nothing /\ fs'[dst] = fs[src]
         /\ \A p \in Paths : p # src /\ p # dst => fs'[p] = fs[p]
  BY <1>2 DEF Move, Moved
<1>6. CASE handler[h].op = "trash"
  <2>1. src.dir = Gallery /\ dst.dir = id /\ RowIs(h, dst) /\ dst = TrashPath(id, src)
    BY <1>1, <1>2, <1>6, HandlerFacts DEF HandlerOK, TrashOK, Moving
  <2>2. DirsOwned'
    BY <1>1, <1>2, <1>5, <2>1 DEF DirsOwned, Empty, RowIs
  <2>3. TrashOK(h)'
    BY <1>1, <1>3, <1>6, <2>1 DEF TrashOK, Moving, RowIs
  <2>4. HandlerOK(h)'
    BY <1>1, <1>2, <1>3, <1>6, <2>3 DEF HandlerOK
  <2> QED BY <1>4, <2>2, <2>4, OneHandler
<1>7. CASE handler[h].op = "restore"
  <2>1. src.dir = id /\ dst.dir = Gallery /\ RowIs(h, src)
    BY <1>1, <1>2, <1>7 DEF HandlerOK, RestoreOK
  <2>2. \A p \in Paths : p.dir \in Ids => fs'[p] \in {fs[p], Nothing}
    BY <1>2, <1>5, <2>1, PathFacts
  <2>3. DirsOwned'
    BY <1>1, <1>2, <2>2 DEF DirsOwned, Empty, RowsTyped
  <2>4. fs'[src] = Nothing
    BY <1>2, <1>5, <2>1
  <2>5. id \in DOMAIN rows => Empty(id)'
    BY <1>1, <1>2, <1>3, <2>1, <2>2, <2>4 DEF DirsOwned, Empty, RowIs
  <2>6. RestoreOK(h)'
    BY <1>1, <1>3, <1>7, <2>1, <2>5 DEF RestoreOK, RowIs
  <2>7. HandlerOK(h)'
    BY <1>1, <1>2, <1>3, <1>7, <2>6 DEF HandlerOK
  <2> QED BY <1>4, <2>3, <2>7, OneHandler
<1> QED BY <1>1, <1>6, <1>7

LEMMA CopySound == ASSUME Cautious, Sound, NEW h \in Handlers, Copy(h) PROVE Parts'
<1> DEFINE id == handler[h].id
           src == handler[h].src
           dst == handler[h].dst
<1>1. /\ Busy(h) /\ handler[h].op \in {"trash", "restore"} /\ handler[h].pc = "move" /\ UNCHANGED <<fresh, rows, purged>>
      /\ fs[src] # Nothing
  <2>1. handler[h].pc = "move" /\ UNCHANGED <<fresh, rows, purged>> /\ fs[src] # Nothing
    BY DEF Copy
  <2>2. "move" \notin PlacesOf["purge"]
    BY DEF PlacesOf
  <2> QED BY <2>1, <2>2, BusyFacts DEF Sound, Busy, Ops
<1>2. /\ HandlerOK(h) /\ id \in Ids \ fresh /\ src \in Paths /\ dst \in Paths /\ HandlersTyped /\ RowsTyped
      /\ RowPlaces /\ DirsOwned /\ id # Gallery /\ fs \in [Paths -> Contents \cup {Nothing}]
  BY <1>1, HandlerFacts
<1>3. /\ handler'[h].pc = "copied" /\ handler'[h].op = handler[h].op /\ handler'[h].id = id
      /\ handler'[h].live = handler[h].live /\ handler'[h].src = src /\ handler'[h].dst = dst
  BY <1>2, GotoFields DEF Copy
<1>4. RowPlaces'
  BY <1>1, <1>2 DEF RowPlaces
<1>5. fs'[dst] = fs[src] /\ \A p \in Paths : p # dst => fs'[p] = fs[p]
  BY <1>2 DEF Copy
<1>6. CASE handler[h].op = "trash"
  <2>1. src.dir = Gallery /\ dst.dir = id /\ RowIs(h, dst) /\ dst = TrashPath(id, src)
    BY <1>1, <1>2, <1>6, HandlerFacts DEF HandlerOK, TrashOK, Moving
  <2>2. DirsOwned'
    BY <1>1, <1>2, <1>5, <2>1 DEF DirsOwned, Empty, RowIs
  <2>3. \A p \in Paths : p.dir = id => p = dst \/ fs'[p] = Nothing
    BY <1>1, <1>2, <1>5, <1>6 DEF HandlerOK, TrashOK, Empty
  <2>4. TrashOK(h)'
    BY <1>1, <1>3, <1>6, <2>1, <2>3 DEF TrashOK, Moving, RowIs, HoldsOnly
  <2>5. HandlerOK(h)'
    BY <1>1, <1>2, <1>3, <1>5, <1>6, <2>1, <2>4 DEF HandlerOK
  <2> QED BY <1>4, <2>2, <2>5, OneHandler
<1>7. CASE handler[h].op = "restore"
  <2>1. src.dir = id /\ dst.dir = Gallery /\ RowIs(h, src)
    BY <1>1, <1>2, <1>7 DEF HandlerOK, RestoreOK
  <2>2. \A p \in Paths : p.dir \in Ids => fs'[p] = fs[p]
    BY <1>2, <1>5, <2>1, PathFacts
  <2>3. DirsOwned'
    BY <1>1, <1>2, <2>2 DEF DirsOwned, Empty, RowsTyped
  <2>4. RestoreOK(h)'
    BY <1>1, <1>3, <1>7, <2>1 DEF RestoreOK, RowIs
  <2>5. HandlerOK(h)'
    BY <1>1, <1>2, <1>3, <1>5, <1>7, <2>1, <2>4 DEF HandlerOK
  <2> QED BY <1>4, <2>3, <2>5, OneHandler
<1> QED BY <1>1, <1>6, <1>7

LEMMA RemoveSourceSound == ASSUME Cautious, Sound, NEW h \in Handlers, RemoveSource(h) PROVE Parts'
<1> DEFINE id == handler[h].id
           src == handler[h].src
           dst == handler[h].dst
<1>1. /\ Busy(h) /\ handler[h].op \in {"trash", "restore"} /\ handler[h].pc = "copied" /\ UNCHANGED <<fresh, rows, purged>>
  <2>1. handler[h].pc = "copied" /\ UNCHANGED <<fresh, rows, purged>>
    BY DEF RemoveSource
  <2>2. "copied" \notin PlacesOf["purge"]
    BY DEF PlacesOf
  <2> QED BY <2>1, <2>2, BusyFacts DEF Sound, Busy, Ops
<1>2. /\ HandlerOK(h) /\ id \in Ids \ fresh /\ src \in Paths /\ dst \in Paths /\ HandlersTyped /\ RowsTyped
      /\ RowPlaces /\ DirsOwned /\ id # Gallery /\ fs \in [Paths -> Contents \cup {Nothing}]
  BY <1>1, HandlerFacts
<1>3. /\ handler'[h].pc = "moved" /\ handler'[h].op = handler[h].op /\ handler'[h].id = id
      /\ handler'[h].live = handler[h].live /\ handler'[h].src = src /\ handler'[h].dst = dst
  BY <1>2, GotoFields DEF RemoveSource
<1>4. fs'[src] = Nothing /\ \A p \in Paths : fs'[p] \in {fs[p], Nothing}
  BY <1>2 DEF RemoveSource
<1>5. RowPlaces' /\ DirsOwned'
  BY <1>1, <1>2, <1>4, FilesMayGo
<1>6. CASE handler[h].op = "trash"
  <2>1. TrashOK(h)'
    BY <1>1, <1>2, <1>3, <1>6 DEF HandlerOK, TrashOK, Moving, RowIs
  <2> QED BY <1>1, <1>2, <1>3, <1>5, <1>6, <2>1, OneHandler DEF HandlerOK
<1>7. CASE handler[h].op = "restore"
  <2>1. src.dir = id /\ dst.dir = Gallery /\ RowIs(h, src)
    BY <1>1, <1>2, <1>7 DEF HandlerOK, RestoreOK
  <2>2. id \in DOMAIN rows => Empty(id)'
    BY <1>1, <1>2, <1>3, <1>4, <2>1 DEF DirsOwned, Empty, RowIs
  <2>3. RestoreOK(h)'
    BY <1>1, <1>3, <1>7, <2>1, <2>2 DEF RestoreOK, RowIs
  <2> QED BY <1>1, <1>2, <1>3, <1>5, <1>7, <2>3, OneHandler DEF HandlerOK
<1> QED BY <1>1, <1>6, <1>7

LEMMA FailsSound ==
    ASSUME Cautious, Sound, NEW h \in Handlers, MarkFails(h) \/ MoveFails(h) \/ RestoreUpdateFails(h)
    PROVE  Parts'
<1> DEFINE id == handler[h].id
           src == handler[h].src
<1>1. /\ Busy(h) /\ UNCHANGED <<fresh, purged>> /\ Ends(h) /\ handler[h].op \in {"trash", "restore"}
  <2>1. Busy(h) /\ UNCHANGED <<fresh, purged>> /\ Ends(h)
    BY DEF MarkFails, MoveFails, MoveUndone, RestoreUpdateFails, At, Busy
  <2>2. \/ handler[h].pc \in {"move", "copied"}
        \/ handler[h].op \in {"trash", "restore"}
    BY DEF MarkFails, MoveFails, RestoreUpdateFails, At
  <2>3. "move" \notin PlacesOf["purge"] /\ "copied" \notin PlacesOf["purge"]
    BY DEF PlacesOf
  <2>4. handler[h].pc \in PlacesOf[handler[h].op] /\ handler[h].op \in Ops
    BY <2>1, BusyFacts DEF Sound
  <2> QED BY <2>1, <2>2, <2>3, <2>4 DEF Ops
<1>2. /\ HandlerOK(h) /\ id \in Ids \ fresh /\ src \in Paths /\ HandlersTyped /\ RowsTyped
      /\ RowPlaces /\ DirsOwned /\ id # Gallery /\ fs \in [Paths -> Contents \cup {Nothing}]
  BY <1>1, HandlerFacts
<1>3. HandlerOK(h)'
  BY <1>1, <1>2, EndsFields
<1>4. \A p \in Paths : fs'[p] \in {fs[p], Nothing}
  <2>1. CASE MarkFails(h)
    BY <2>1 DEF MarkFails, Wiped
  <2>2. CASE MoveFails(h)
    BY <1>2, <2>2 DEF MoveFails, MoveUndone, Wiped
  <2>3. CASE RestoreUpdateFails(h)
    BY <2>3 DEF RestoreUpdateFails
  <2> QED BY <2>1, <2>2, <2>3
<1>5. CASE UNCHANGED rows
  BY <1>1, <1>2, <1>3, <1>4, <1>5, FilesMayGo, OneHandler
<1>6. CASE rows' = Updated(id, src, NoPath, FALSE) /\ handler[h].op = "trash" /\ fs' = Wiped(id)
  <2>1. src.dir = Gallery
    BY <1>1, <1>2, <1>6 DEF HandlerOK, TrashOK
  <2>2. /\ DOMAIN rows' = DOMAIN rows /\ \A j \in DOMAIN rows : j # id => rows'[j] = rows[j]
        /\ id \in DOMAIN rows => rows'[id].path = src /\ rows'[id].deleted = FALSE /\ rows'[id].live = rows[id].live
    BY <1>2, <1>6, UpdatedRows
  <2> HIDE DEF id, src
  <2>3. \A p \in Paths : p.dir = id => fs'[p] = Nothing
    BY <1>6 DEF Wiped
  <2>4. RowPlaces'
    BY <1>2, <2>1, <2>2 DEF RowPlaces
  <2>5. DirsOwned'
    BY <1>1, <1>2, <1>4, <2>2, <2>3 DEF DirsOwned, Empty
  <2> QED BY <1>3, <2>4, <2>5, OneHandler
<1> QED BY <1>1, <1>5, <1>6 DEF MarkFails, MoveFails, MoveUndone, RestoreUpdateFails

LEMMA TrashMovedSound == ASSUME Cautious, Sound, NEW h \in Handlers, TrashMoved(h) PROVE Parts'
<1> DEFINE i == handler[h].live
<1>1. Busy(h) /\ handler[h].op = "trash" /\ UNCHANGED <<rows, fresh, fs, purged>>
  BY DEF TrashMoved, At, Busy
<1>2. /\ HandlerOK(h) /\ HandlersTyped /\ RowsTyped /\ RowPlaces /\ DirsOwned
  BY <1>1, HandlerFacts
<1>3. RowPlaces' /\ DirsOwned'
  BY <1>1, <1>2 DEF RowPlaces, DirsOwned, Empty
<1>4. CASE Ends(h)
  BY <1>2, <1>3, <1>4, EndsFields, OneHandler
<1>5. CASE HasCompanion(h, FALSE) /\ TurnToCompanion(h, "trash")
  <2>1. i \in DOMAIN rows /\ rows[i].deleted = FALSE
    BY <1>5 DEF HasCompanion
  <2>2. /\ handler'[h].pc = "trash" /\ handler'[h].op = "trash" /\ handler'[h].id = i /\ handler'[h].live = NoId
        /\ handler'[h].src = rows[i].path /\ handler'[h].dst = TrashPath(i, rows[i].path)
    BY <1>1, <1>2, <1>5 DEF TurnToCompanion, HandlersTyped, Locals
  <2>3. rows[i].path.dir = Gallery /\ \A p \in Paths : p.dir = i => fs[p] = Nothing
    BY <1>2, <2>1 DEF RowPlaces, DirsOwned
  <2>4. i \in Ids \ fresh /\ i # NoId
    BY <1>2, <2>1, PathFacts DEF RowsTyped
  <2> HIDE DEF i
  <2>5. TrashOK(h)'
    BY <1>1, <2>2, <2>3 DEF TrashOK, Empty, Moving
  <2>6. HandlerOK(h)'
    BY <1>1, <2>2, <2>4, <2>5 DEF HandlerOK
  <2> QED BY <1>3, <2>6, OneHandler
<1> QED BY <1>4, <1>5 DEF TrashMoved

LEMMA RestoreStatSound == ASSUME Cautious, Sound, NEW h \in Handlers, RestoreStat(h) PROVE Parts'
<1> DEFINE d == RestoreTarget(handler[h].dst)
<1>1. Busy(h) /\ handler[h].op = "restore" /\ handler[h].pc = "stat" /\ UNCHANGED <<rows, fresh, fs, purged>>
  BY DEF RestoreStat, At, Busy
<1>2. /\ HandlerOK(h) /\ HandlersTyped /\ RowsTyped /\ RowPlaces /\ DirsOwned
      /\ handler[h].dst \in Paths /\ handler[h].dst # NoPath
  BY <1>1, HandlerFacts
<1>3. RowPlaces' /\ DirsOwned'
  BY <1>1, <1>2 DEF RowPlaces, DirsOwned, Empty
<1>4. d.dir = handler[h].dst.dir /\ fs[d] = Nothing
  BY <1>2, TargetIsPath DEF RestoreStat
<1>5. /\ handler'[h].pc = "move" /\ handler'[h].op = "restore" /\ handler'[h].id = handler[h].id
      /\ handler'[h].live = handler[h].live /\ handler'[h].src = handler[h].src /\ handler'[h].dst = d
  BY <1>1, <1>2 DEF RestoreStat, HandlersTyped, Locals
<1> HIDE DEF d
<1>6. RestoreOK(h)'
  BY <1>1, <1>2, <1>4, <1>5 DEF HandlerOK, RestoreOK, RowIs
<1>7. HandlerOK(h)'
  BY <1>1, <1>2, <1>5, <1>6 DEF HandlerOK
<1> QED BY <1>3, <1>7, OneHandler

LEMMA RestoreUpdateSound == ASSUME Cautious, Sound, NEW h \in Handlers, RestoreUpdate(h) PROVE Parts'
<1> DEFINE id == handler[h].id
           dst == handler[h].dst
           i == handler[h].live
<1>1. Busy(h) /\ handler[h].op = "restore" /\ handler[h].pc = "moved" /\ UNCHANGED <<fresh, fs, purged>>
  BY DEF RestoreUpdate, At, Busy
<1>2. /\ HandlerOK(h) /\ HandlersTyped /\ RowsTyped /\ RowPlaces /\ DirsOwned
      /\ dst \in Paths /\ id \in Ids \ fresh
  BY <1>1, HandlerFacts
<1>3. dst.dir = Gallery /\ i # id /\ (id \in DOMAIN rows => Empty(id))
  BY <1>1, <1>2 DEF HandlerOK, RestoreOK
<1>4. /\ DOMAIN rows' = DOMAIN rows /\ \A j \in DOMAIN rows : j # id => rows'[j] = rows[j]
      /\ id \in DOMAIN rows => rows'[id].path = dst /\ rows'[id].deleted = FALSE /\ rows'[id].live = rows[id].live
  BY <1>2, UpdatedRows DEF RestoreUpdate
<1>5. CASE Ends(h)
  <2> HIDE DEF id, dst
  <2>1. RowPlaces' /\ DirsOwned'
    BY <1>1, <1>2, <1>3, <1>4 DEF RowPlaces, DirsOwned, Empty
  <2> QED BY <1>2, <1>5, <2>1, EndsFields, OneHandler
<1>6. CASE HasCompanion(h, TRUE) /\ TurnToCompanion(h, "stat")
  <2>1. i \in DOMAIN rows /\ rows[i].deleted = TRUE /\ rows'[i] = rows[i]
    BY <1>3, <1>4, <1>6 DEF HasCompanion
  <2>2. /\ handler'[h].pc = "stat" /\ handler'[h].op = "restore" /\ handler'[h].id = i /\ handler'[h].live = NoId
        /\ handler'[h].src = rows[i].path /\ handler'[h].dst = rows[i].orig
    BY <1>1, <1>2, <1>6 DEF TurnToCompanion, HandlersTyped, Locals
  <2>3. rows[i].path.dir = i /\ rows[i].orig.dir = Gallery
    BY <1>2, <2>1 DEF RowPlaces
  <2>4. i \in Ids \ fresh /\ i # NoId
    BY <1>2, <2>1, PathFacts DEF RowsTyped
  <2> HIDE DEF id, dst, i
  <2>5. RowPlaces' /\ DirsOwned'
    BY <1>1, <1>2, <1>3, <1>4 DEF RowPlaces, DirsOwned, Empty
  <2>6. RestoreOK(h)'
    BY <1>1, <2>1, <2>2, <2>3 DEF RestoreOK, RowIs
  <2>7. HandlerOK(h)'
    BY <1>1, <2>2, <2>4, <2>6 DEF HandlerOK
  <2> QED BY <2>5, <2>7, OneHandler
<1> QED BY <1>5, <1>6 DEF RestoreUpdate

LEMMA PurgeSound ==
    ASSUME Cautious, Sound, NEW h \in Handlers, PurgeFiles(h) \/ PurgeLiveFiles(h) \/ PurgeLiveRow(h) \/ PurgeRow(h)
    PROVE  Parts'
<1>1. Busy(h) /\ handler[h].op = "purge" /\ UNCHANGED <<fresh, purged>>
  BY DEF PurgeFiles, PurgeLiveFiles, PurgeLiveRow, PurgeRow, At, Busy
<1>2. HandlerOK(h) /\ HandlersTyped /\ RowsTyped /\ RowPlaces /\ DirsOwned
  BY <1>1, HandlerFacts
<1>3. CASE PurgeFiles(h)
  <2>1. /\ handler'[h].pc \in {"live", "row"} /\ handler'[h].op = "purge" /\ handler'[h].main = handler[h].main
        /\ handler'[h].id = handler[h].id /\ handler'[h].live = handler[h].live /\ handler'[h].src = handler[h].src
    BY <1>1, <1>2, <1>3, GotoFields DEF PurgeFiles
  <2>2. UNCHANGED rows /\ \A p \in Paths : fs'[p] \in {fs[p], Nothing}
    BY <1>3, WipesTrash DEF PurgeFiles, Wiped
  <2>3. RowPlaces' /\ DirsOwned'
    BY <1>1, <1>2, <2>2, FilesMayGo
  <2>4. PurgeOK(h)'
    BY <1>1, <1>2, <1>3, <2>1, <2>2 DEF HandlerOK, PurgeOK, PurgeFiles, At, Spoilt
  <2>5. HandlerOK(h)'
    BY <1>1, <1>2, <2>1, <2>4 DEF HandlerOK
  <2> QED BY <2>3, <2>5, OneHandler
<1>4. CASE PurgeLiveFiles(h)
  <2>1. /\ handler'[h].pc = "liverow" /\ handler'[h].op = "purge" /\ handler'[h].main = handler[h].main
        /\ handler'[h].id = handler[h].id /\ handler'[h].live = handler[h].live /\ handler'[h].src = handler[h].src
    BY <1>1, <1>2, <1>4, GotoFields DEF PurgeLiveFiles
  <2>2. UNCHANGED rows /\ \A p \in Paths : fs'[p] \in {fs[p], Nothing}
    BY <1>4, WipesTrash DEF PurgeLiveFiles, Wiped
  <2>3. RowPlaces' /\ DirsOwned'
    BY <1>1, <1>2, <2>2, FilesMayGo
  <2>4. PurgeOK(h)'
    BY <1>1, <1>2, <2>1 DEF HandlerOK, PurgeOK
  <2>5. HandlerOK(h)'
    BY <1>1, <1>2, <2>1, <2>4 DEF HandlerOK
  <2> QED BY <2>3, <2>5, OneHandler
<1>5. CASE PurgeLiveRow(h)
  <2>1. /\ handler'[h].pc = "row" /\ handler'[h].op = "purge" /\ handler'[h].main = handler[h].main
        /\ handler'[h].id = handler[h].id /\ handler'[h].live = handler[h].live /\ handler'[h].src = handler[h].src
    BY <1>1, <1>2, <1>5, GotoFields DEF PurgeLiveRow
  <2>2. RowPlaces' /\ DirsOwned'
    BY <1>5, DeletedRows, RowsMayGo DEF PurgeLiveRow, Sound
  <2>3. PurgeOK(h)'
    BY <1>1, <1>2, <2>1 DEF HandlerOK, PurgeOK
  <2>4. HandlerOK(h)'
    BY <1>1, <1>2, <2>1, <2>3 DEF HandlerOK
  <2> QED BY <2>2, <2>4, OneHandler
<1>6. CASE PurgeRow(h)
  <2>1. RowPlaces' /\ DirsOwned'
    BY <1>6, DeletedRows, RowsMayGo DEF PurgeRow, Sound
  <2>2. HandlerOK(h)'
    BY <1>2, <1>6, EndsFields DEF PurgeRow
  <2> QED BY <2>1, <2>2, OneHandler
<1> QED BY <1>3, <1>4, <1>5, <1>6

\* Every step keeps the claims; only a request's start needs the rows' paths to lead to
\* their own files.
LEMMA StepSound == ASSUME Cautious, Sound, HoldsOwn, [Next]_vars PROVE Sound'
<1>1. Typed' /\ OnlyGallery'
  BY StepTyped, StepGallery DEF Sound
<1> SUFFICES Parts'
  BY <1>1 DEF Parts, Sound
<1>2. ASSUME NEW h \in Handlers, HandlerStep(h) PROVE Parts'
  BY <1>2, MarkTrashedSound, FailsSound, TrashMovedSound, MoveSound, CopySound, RemoveSourceSound,
     RestoreStatSound, RestoreUpdateSound, PurgeSound DEF HandlerStep
<1>3. ASSUME NEW i, rows' = Deleted(i), UNCHANGED <<fs, fresh, purged, handler>> PROVE Parts'
  BY <1>3, DeletedRows, RowsMayGo DEF Sound, Parts, HandlersOK
<1>4. ASSUME UNCHANGED <<rows, fs, fresh, purged, handler>> PROVE Parts'
  BY <1>4, Unrelated DEF Sound, Parts
<1>5. CASE WatchRemoveRow
  BY <1>3, <1>5 DEF WatchRemoveRow
<1>6. ASSUME NEW id, PruneDelete(id) PROVE Parts'
  BY <1>3, <1>6 DEF PruneDelete, watchVars
<1>7. CASE WatchCreate \/ WatchRemove
  BY <1>4, <1>7 DEF WatchCreate, WatchRemove
<1>8. CASE PruneQuery \/ PruneEnd
  BY <1>4, <1>8 DEF PruneQuery, PruneEnd
<1>9. ASSUME NEW s, PruneStat(s) PROVE Parts'
  BY <1>4, <1>9 DEF PruneStat
<1>10. CASE UNCHANGED vars
  BY <1>4, <1>10 DEF vars
<1>11. ASSUME NEW h \in Handlers, NEW op \in Requests, NEW id \in Ids, Begin(h, op, id) PROVE Parts'
  BY <1>11, BeginSound
<1>12. ASSUME NEW p \in toIndex, Index(p) PROVE Parts'
  BY <1>12, IndexSound
<1>13. CASE NewFile
  BY <1>13, NewFileSound
<1>14. CASE Crash
  BY <1>14, CrashSound
<1>15. CASE (\E h \in Handlers, op \in Requests, id \in Ids : Begin(h, op, id)) \/ \E h \in Handlers : HandlerStep(h)
  BY <1>2, <1>11, <1>15
<1>16. CASE (\E p \in toIndex : Index(p)) \/ (\E s \in prune.seen : PruneStat(s)) \/ \E id \in prune.gone : PruneDelete(id)
  BY <1>6, <1>9, <1>12, <1>16
<1> QED BY <1>5, <1>7, <1>8, <1>10, <1>13, <1>14, <1>15, <1>16 DEF Next

-----------------------------------------------------------------------------
(* No photo leaves the disk unless a purge named it.                           *)

LEMMA LeadingFacts ==
    ASSUME Sound, NEW h \in Handlers, handler[h].pc \in {"move", "copied"}
    PROVE  /\ Busy(h) /\ HandlerOK(h) /\ handler[h].op \in {"trash", "restore"}
           /\ handler[h].src \in Paths /\ handler[h].dst \in Paths /\ handler[h].id # Gallery
           /\ handler[h].src # handler[h].dst /\ (handler[h].pc = "move" => fs[handler[h].dst] = Nothing)
<1>1. handler[h].op \in {"trash", "restore"}
  <2>1. "move" \notin PlacesOf["purge"] /\ "copied" \notin PlacesOf["purge"]
    BY DEF PlacesOf
  <2>2. handler[h].pc \in PlacesOf[handler[h].op] /\ handler[h].op \in Ops
    BY BusyFacts DEF Sound, Busy
  <2> QED BY <2>1, <2>2 DEF Ops
<1>2. /\ Busy(h) /\ HandlerOK(h) /\ handler[h].src \in Paths /\ handler[h].dst \in Paths /\ handler[h].id # Gallery
      /\ handler[h].op = "trash" => handler[h].dst.dir = handler[h].id
  BY HandlerFacts DEF Busy
<1>3. CASE handler[h].op = "trash"
  <2>1. handler[h].src.dir = Gallery /\ (handler[h].pc = "move" => Empty(handler[h].id))
    BY <1>2, <1>3 DEF HandlerOK, TrashOK
  <2> QED BY <1>1, <1>2, <1>3, <2>1 DEF Empty
<1>4. CASE handler[h].op = "restore"
  BY <1>1, <1>2, <1>4 DEF HandlerOK, RestoreOK
<1> QED BY <1>1, <1>3, <1>4

LEMMA HandlerKeepsFiles ==
    ASSUME Cautious, Sound, NEW h \in Handlers, HandlerStep(h), NEW c \in Contents, OnDisk(c)
    PROVE  OnDisk(c)' \/ c \in purged'
<1> DEFINE id == handler[h].id
           src == handler[h].src
           dst == handler[h].dst
<1> USE DEF OnDisk
<1>0. fs \in [Paths -> Contents \cup {Nothing}] /\ Nothing \notin Contents /\ c # Nothing
  BY PathFacts DEF Sound, Typed, DiskTyped
<1>1. CASE UNCHANGED <<fs, purged>>
  BY <1>1
<1>2. CASE Move(h)
  <2>1. src \in Paths /\ dst \in Paths /\ src # dst /\ fs[dst] = Nothing
    BY <1>2, LeadingFacts DEF Move
  <2>2. \/ fs' = fs
        \/ fs'[dst] = fs[src] /\ \A p \in Paths : p # src /\ p # dst => fs'[p] = fs[p]
    BY <1>0, <1>2, <2>1 DEF Move, Moved
  <2> HIDE DEF src, dst
  <2> QED BY <1>0, <2>1, <2>2
<1>3. CASE Copy(h)
  <2>1. src \in Paths /\ dst \in Paths /\ src # dst /\ fs[dst] = Nothing
    BY <1>3, LeadingFacts DEF Copy
  <2>2. \A p \in Paths : p # dst => fs'[p] = fs[p]
    BY <1>0, <1>3, <2>1 DEF Copy
  <2> HIDE DEF src, dst
  <2> QED BY <1>0, <2>1, <2>2
<1>4. CASE RemoveSource(h)
  <2>1. src \in Paths /\ dst \in Paths /\ src # dst /\ fs[dst] = fs[src]
    BY <1>4, LeadingFacts DEF RemoveSource, HandlerOK
  <2>2. \A p \in Paths : p # src => fs'[p] = fs[p]
    BY <1>0, <1>4, <2>1 DEF RemoveSource
  <2> HIDE DEF src, dst
  <2> QED BY <1>0, <2>1, <2>2
<1>5. CASE MarkFails(h)
  <2>1. HandlerOK(h) /\ Busy(h) /\ handler[h].op = "trash" /\ handler[h].pc = "trash"
    BY <1>5 DEF MarkFails, At, Busy, Sound, HandlersOK
  <2>2. Empty(id)
    BY <2>1 DEF HandlerOK, TrashOK
  <2>3. fs' = Wiped(id)
    BY <1>5 DEF MarkFails
  <2> HIDE DEF id
  <2> QED BY <1>0, <2>2, <2>3 DEF Wiped, Empty
<1>6. CASE MoveFails(h)
  <2>1. /\ handler[h].pc \in {"move", "copied"} /\ src \in Paths /\ dst \in Paths /\ src # dst /\ HandlerOK(h) /\ Busy(h)
        /\ id # Gallery /\ (handler[h].pc = "move" => fs[dst] = Nothing)
    BY <1>6, LeadingFacts DEF MoveFails
  <2>2. CASE handler[h].op = "trash"
    <3>1. /\ src.dir = Gallery /\ (handler[h].pc = "move" => Empty(id))
          /\ handler[h].pc = "copied" => HoldsOnly(id, dst) /\ fs[dst] = fs[src]
      BY <2>1, <2>2 DEF HandlerOK, TrashOK
    <3>2. fs' = Wiped(id)
      BY <1>6, <2>2 DEF MoveFails, MoveUndone
    <3> HIDE DEF id, src, dst
    <3>3. fs'[src] = fs[src]
      BY <2>1, <3>1, <3>2 DEF Wiped
    <3>4. \A p \in Paths : fs'[p] = fs[p] \/ fs[p] = Nothing \/ fs[p] = fs[src]
      BY <2>1, <3>1, <3>2 DEF Wiped, Empty, HoldsOnly
    <3> QED BY <1>0, <2>1, <3>3, <3>4
  <2>3. CASE handler[h].op # "trash"
    <3>1. \A p \in Paths : fs'[p] = fs[p] \/ fs[p] = Nothing
      BY <1>0, <1>6, <2>1, <2>3 DEF MoveFails, MoveUndone
    <3> QED BY <1>0, <3>1
  <2> QED BY <2>2, <2>3
<1>7. CASE PurgeFiles(h)
  <2>1. fs' = Wiped(handler[h].main) /\ Spoilt(handler[h].main) /\ purged' = purged
    BY <1>7, WipesTrash DEF PurgeFiles
  <2> QED BY <1>0, <2>1 DEF Wiped, Spoilt
<1>8. CASE PurgeLiveFiles(h)
  <2>1. purged' = purged
    BY <1>8 DEF PurgeLiveFiles
  <2>2. CASE fs' = fs
    BY <2>1, <2>2
  <2>3. CASE fs' = Wiped(handler[h].live) /\ Spoilt(handler[h].live)
    BY <1>0, <2>1, <2>3 DEF Wiped, Spoilt
  <2> QED BY <1>8, <2>2, <2>3, WipesTrash
<1>9. CASE MarkTrashed(h) \/ TrashMoved(h) \/ RestoreStat(h) \/ RestoreUpdate(h) \/ RestoreUpdateFails(h)
           \/ PurgeLiveRow(h) \/ PurgeRow(h)
  BY <1>1, <1>9 DEF MarkTrashed, TrashMoved, RestoreStat, RestoreUpdate, RestoreUpdateFails, PurgeLiveRow, PurgeRow
<1> QED BY <1>2, <1>3, <1>4, <1>5, <1>6, <1>7, <1>8, <1>9 DEF HandlerStep

LEMMA FilesKept ==
    ASSUME Cautious, Sound, [Next]_vars, NEW c \in Contents, OnDisk(c) \/ c \in purged
    PROVE  OnDisk(c)' \/ c \in purged'
<1>0. fs \in [Paths -> Contents \cup {Nothing}] /\ c # Nothing
  BY PathFacts DEF Sound, Typed, DiskTyped
<1>1. purged \subseteq purged'
  <2>1. ASSUME NEW h \in Handlers, HandlerStep(h) PROVE purged' = purged
    BY <2>1 DEF HandlerStep, MarkTrashed, MarkFails, TrashMoved, Move, Copy, RemoveSource, MoveFails, MoveUndone,
                RestoreStat, RestoreUpdate, RestoreUpdateFails, PurgeFiles, PurgeLiveFiles, PurgeLiveRow, PurgeRow
  <2>2. ASSUME NEW h \in Handlers, NEW op \in Requests, NEW id \in Ids, Begin(h, op, id) PROVE purged \subseteq purged'
    BY <2>2 DEF Begin
  <2>3. ASSUME NEW p \in toIndex, Index(p) PROVE purged' = purged
    BY <2>3 DEF Index
  <2>4. CASE WatchCreate \/ WatchRemove \/ WatchRemoveRow \/ NewFile \/ Crash \/ UNCHANGED vars
    BY <2>4 DEF WatchCreate, WatchRemove, WatchRemoveRow, NewFile, Crash, vars
  <2>5. CASE PruneQuery \/ PruneEnd \/ (\E s \in prune.seen : PruneStat(s)) \/ \E id \in prune.gone : PruneDelete(id)
    BY <2>5 DEF PruneQuery, PruneEnd, PruneStat, PruneDelete
  <2> QED BY <2>1, <2>2, <2>3, <2>4, <2>5 DEF Next
<1>2. CASE c \in purged
  BY <1>1, <1>2
<1>3. CASE OnDisk(c) /\ \E h \in Handlers : HandlerStep(h)
  BY <1>3, HandlerKeepsFiles
<1>4. CASE OnDisk(c) /\ fs' = fs
  BY <1>4 DEF OnDisk
<1>5. CASE OnDisk(c) /\ NewFile
  <2>1. GalleryPath(ContentOf[Still]) \in Paths
    BY PathFacts
  <2> QED BY <1>0, <1>5, <2>1 DEF NewFile, OnDisk
<1>6. ASSUME NEW h \in Handlers, NEW op \in Requests, NEW id \in Ids, Begin(h, op, id) PROVE fs' = fs
  BY <1>6 DEF Begin
<1>7. ASSUME NEW p \in toIndex, Index(p) PROVE fs' = fs
  BY <1>7 DEF Index
<1>8. CASE WatchCreate \/ WatchRemove \/ WatchRemoveRow \/ Crash \/ UNCHANGED vars
  BY <1>2, <1>4, <1>8 DEF WatchCreate, WatchRemove, WatchRemoveRow, Crash, vars
<1>9. CASE PruneQuery \/ PruneEnd \/ (\E s \in prune.seen : PruneStat(s)) \/ \E id \in prune.gone : PruneDelete(id)
  BY <1>2, <1>4, <1>9 DEF PruneQuery, PruneEnd, PruneStat, PruneDelete
<1> QED BY <1>2, <1>3, <1>4, <1>5, <1>6, <1>7, <1>8, <1>9 DEF Next

-----------------------------------------------------------------------------
(* Where the user puts no other file in a photo's place, a file's name tells    *)
(* its content: names are kept by every move.                                   *)

HandlerNames(h) == LET l == handler[h] IN Busy(h) =>
    /\ l.id \notin fresh
    /\ l.op # "purge" => l.src.name = l.dst.name
    /\ l.op # "purge" /\ l.id \in DOMAIN rows => rows[l.id].content = l.src.name

RowNames == \A i \in DOMAIN rows :
    /\ rows[i].content = rows[i].path.name
    /\ rows[i].deleted => rows[i].orig.name = rows[i].path.name

FileNames == \A p \in Paths : fs[p] \in {Nothing, p.name}

Names == RowNames /\ FileNames /\ \A h \in Handlers : HandlerNames(h)

LEMMA InitNames == ASSUME Init PROVE Names
<1>1. \A i \in DOMAIN rows : rows[i].deleted = FALSE /\ rows[i].path = GalleryPath(ContentOf[i]) /\ rows[i].content = ContentOf[i]
  BY DEF Init
<1>2. RowNames
  BY <1>1, PathFacts DEF Init, RowNames
<1>3. FileNames
  BY DEF Init, FileNames
<1> QED BY <1>2, <1>3 DEF Init, Names, HandlerNames, Busy, Idle

LEMMA NamesOwn == ASSUME Typed, Names PROVE HoldsOwn
BY DEF Typed, RowsTyped, Row, Names, RowNames, FileNames, HoldsOwn

LEMMA OneName ==
    ASSUME Cautious, NEW h \in Handlers, RowNames', FileNames', HandlerNames(h)'
    PROVE  Names'
BY DEF Cautious, OneAtATime, Names

\* The two kinds of step that leave a handler busy.
LEMMA GotoNames ==
    ASSUME Typed, Names, NEW h \in Handlers, Busy(h), NEW x, Goto(h, x), fresh' = fresh,
           DOMAIN rows' \subseteq DOMAIN rows, \A i \in DOMAIN rows' : rows'[i].content = rows[i].content
    PROVE  HandlerNames(h)'
<1>1. /\ handler'[h].op = handler[h].op /\ handler'[h].id = handler[h].id
      /\ handler'[h].src = handler[h].src /\ handler'[h].dst = handler[h].dst
  BY GotoFields DEF Typed
<1> QED BY <1>1 DEF Names, HandlerNames

LEMMA EndsNames == ASSUME Typed, NEW h \in Handlers, Ends(h) PROVE HandlerNames(h)'
BY DEF Ends, Typed, HandlersTyped, Idle, HandlerNames, Busy

LEMMA TurnNames ==
    ASSUME Typed, Names, NEW h \in Handlers, NEW g \in BOOLEAN, HasCompanion(h, g), NEW x, x = "trash" \/ g, TurnToCompanion(h, x),
           fresh' = fresh, DOMAIN rows' = DOMAIN rows, \A i \in DOMAIN rows : rows'[i].content = rows[i].content
    PROVE  HandlerNames(h)'
<1> DEFINE i == handler[h].live
<1>1. i \in DOMAIN rows /\ i \in Ids \ fresh /\ rows[i] \in Row /\ rows[i].deleted = g
  BY DEF HasCompanion, Typed, RowsTyped
<1>2. rows[i].content = rows[i].path.name /\ (g => rows[i].orig.name = rows[i].path.name) /\ rows[i].path \in Paths
  BY <1>1 DEF Names, RowNames, Row
<1>3. TrashPath(i, rows[i].path).name = rows[i].path.name
  BY <1>1, <1>2, PathFacts
<1>4. /\ handler'[h].id = i /\ handler'[h].src = rows[i].path
      /\ handler'[h].dst = IF x = "trash" THEN TrashPath(i, rows[i].path) ELSE rows[i].orig
  BY DEF TurnToCompanion, Typed, HandlersTyped, Locals
<1>5. handler'[h].src.name = handler'[h].dst.name
  BY <1>2, <1>3, <1>4
<1> HIDE DEF i
<1> QED BY <1>1, <1>2, <1>4, <1>5 DEF HandlerNames

LEMMA UpdatedNames ==
    ASSUME Typed, RowNames, NEW i, NEW p \in Paths, NEW o \in Paths \cup {NoPath}, NEW g \in BOOLEAN, rows' = Updated(i, p, o, g),
           i \in DOMAIN rows => rows[i].content = p.name, g => o.name = p.name
    PROVE  /\ RowNames' /\ DOMAIN rows' = DOMAIN rows /\ \A j \in DOMAIN rows : rows'[j].content = rows[j].content
<1>1. /\ DOMAIN rows' = DOMAIN rows /\ \A j \in DOMAIN rows : j # i => rows'[j] = rows[j]
      /\ i \in DOMAIN rows => /\ rows'[i].path = p /\ rows'[i].orig = o /\ rows'[i].deleted = g
                              /\ rows'[i].content = rows[i].content
  BY UpdatedRows DEF Typed
<1> QED BY <1>1 DEF RowNames

LEMMA HandlerStepNames == ASSUME Cautious, Typed, Names, NEW h \in Handlers, HandlerStep(h) PROVE Names'
<1> DEFINE id == handler[h].id
           src == handler[h].src
           dst == handler[h].dst
<1>0. RowNames /\ FileNames /\ HandlerNames(h) /\ HandlersTyped /\ fs \in [Paths -> Contents \cup {Nothing}]
  BY DEF Names, Typed, DiskTyped
<1>1. Busy(h) /\ src \in Paths /\ dst \in Paths /\ handler[h].pc \in PlacesOf[handler[h].op] /\ NoPath \notin Paths
  <2>1. Busy(h)
    BY DEF HandlerStep, MarkTrashed, MarkFails, TrashMoved, Move, Copy, RemoveSource, MoveFails, RestoreStat,
           RestoreUpdate, RestoreUpdateFails, PurgeFiles, PurgeLiveFiles, PurgeLiveRow, PurgeRow, At, Busy
  <2> QED BY <2>1, BusyFacts, PathFacts
<1>2. "move" \notin PlacesOf["purge"] /\ "copied" \notin PlacesOf["purge"]
  BY DEF PlacesOf
<1>3. CASE MarkTrashed(h)
  <2>1. handler[h].op = "trash" /\ src.name = dst.name /\ (id \in DOMAIN rows => rows[id].content = src.name)
        /\ UNCHANGED <<fs, fresh>>
    BY <1>0, <1>1, <1>3 DEF MarkTrashed, At, HandlerNames
  <2>2. RowNames' /\ DOMAIN rows' = DOMAIN rows /\ \A j \in DOMAIN rows : rows'[j].content = rows[j].content
    BY <1>0, <1>1, <1>3, <2>1, UpdatedNames DEF MarkTrashed
  <2>3. HandlerNames(h)'
    BY <1>1, <1>3, <2>1, <2>2, GotoNames DEF MarkTrashed
  <2>4. FileNames'
    BY <1>0, <2>1 DEF FileNames
  <2> QED BY <2>2, <2>3, <2>4, OneName
<1>4. CASE Move(h) \/ Copy(h) \/ RemoveSource(h)
  <2>1. src.name = dst.name /\ UNCHANGED <<fresh, rows>>
    BY <1>0, <1>1, <1>2, <1>4 DEF Move, Copy, RemoveSource, HandlerNames
  <2>2. FileNames'
    BY <1>0, <1>1, <1>4, <2>1 DEF FileNames, Move, Moved, Copy, RemoveSource
  <2>3. HandlerNames(h)'
    BY <1>1, <1>4, <2>1, GotoNames DEF Move, Copy, RemoveSource
  <2>4. RowNames'
    BY <1>0, <2>1 DEF RowNames
  <2> QED BY <2>2, <2>3, <2>4, OneName
<1>5. CASE MarkFails(h) \/ MoveFails(h) \/ RestoreUpdateFails(h)
  <2>1. HandlerNames(h)'
    BY <1>5, EndsNames DEF MarkFails, MoveFails, MoveUndone, RestoreUpdateFails
  <2>2. FileNames'
    BY <1>0, <1>5 DEF FileNames, MarkFails, MoveFails, MoveUndone, RestoreUpdateFails, Wiped
  <2>3. RowNames'
    <3>1. CASE rows' = rows
      BY <1>0, <3>1 DEF RowNames
    <3>2. CASE rows' = Updated(id, src, NoPath, FALSE) /\ MoveFails(h)
      <4>1. id \in DOMAIN rows => rows[id].content = src.name
        BY <1>0, <1>1, <1>2, <3>2 DEF MoveFails, HandlerNames
      <4> QED BY <1>0, <1>1, <3>2, <4>1, UpdatedNames
    <3> QED BY <1>5, <3>1, <3>2 DEF MarkFails, MoveFails, MoveUndone, RestoreUpdateFails
  <2> QED BY <2>1, <2>2, <2>3, OneName
<1>6. CASE TrashMoved(h)
  <2>1. UNCHANGED <<rows, fs, fresh>>
    BY <1>6 DEF TrashMoved
  <2>2. HandlerNames(h)'
    BY <1>6, <2>1, TurnNames, EndsNames DEF TrashMoved
  <2> QED BY <1>0, <2>1, <2>2, OneName DEF RowNames, FileNames
<1>7. CASE RestoreStat(h)
  <2>1. UNCHANGED <<rows, fs, fresh>> /\ handler[h].op = "restore"
    BY <1>7 DEF RestoreStat, At
  <2>2. RestoreTarget(dst).name = dst.name
    BY <1>1, <1>7, TargetIsPath DEF RestoreStat
  <2>3. /\ handler'[h].id = id /\ handler'[h].src = src /\ handler'[h].op = "restore"
        /\ handler'[h].dst \in {src, RestoreTarget(dst)}
    BY <1>0, <1>7, <2>1 DEF RestoreStat, HandlersTyped, Locals
  <2>4. HandlerNames(h)'
    BY <1>0, <1>1, <2>1, <2>2, <2>3 DEF HandlerNames
  <2> QED BY <1>0, <2>1, <2>4, OneName DEF RowNames, FileNames
<1>8. CASE RestoreUpdate(h)
  <2>1. handler[h].op = "restore" /\ src.name = dst.name /\ (id \in DOMAIN rows => rows[id].content = src.name)
        /\ UNCHANGED <<fs, fresh>>
    BY <1>0, <1>1, <1>8 DEF RestoreUpdate, At, HandlerNames
  <2>2. RowNames' /\ DOMAIN rows' = DOMAIN rows /\ \A j \in DOMAIN rows : rows'[j].content = rows[j].content
    BY <1>0, <1>1, <1>8, <2>1, UpdatedNames DEF RestoreUpdate
  <2>3. HandlerNames(h)'
    BY <1>8, <2>1, <2>2, TurnNames, EndsNames DEF RestoreUpdate
  <2>4. FileNames'
    BY <1>0, <2>1 DEF FileNames
  <2> QED BY <2>2, <2>3, <2>4, OneName
<1>9. CASE PurgeFiles(h) \/ PurgeLiveFiles(h) \/ PurgeLiveRow(h) \/ PurgeRow(h)
  <2>1. DOMAIN rows' \subseteq DOMAIN rows /\ (\A j \in DOMAIN rows' : rows'[j] = rows[j]) /\ fresh' = fresh
    BY <1>9, DeletedRows DEF PurgeFiles, PurgeLiveFiles, PurgeLiveRow, PurgeRow
  <2>2. RowNames'
    BY <1>0, <2>1 DEF RowNames
  <2>3. FileNames'
    BY <1>0, <1>9 DEF FileNames, PurgeFiles, PurgeLiveFiles, PurgeLiveRow, PurgeRow, Wipe, Wiped
  <2>4. HandlerNames(h)'
    BY <1>1, <1>9, <2>1, GotoNames, EndsNames DEF PurgeFiles, PurgeLiveFiles, PurgeLiveRow, PurgeRow
  <2> QED BY <2>2, <2>3, <2>4, OneName
<1> QED BY <1>3, <1>4, <1>5, <1>6, <1>7, <1>8, <1>9 DEF HandlerStep

LEMMA BeginNames ==
    ASSUME Cautious, Typed, Names, NEW h \in Handlers, NEW op \in Requests, NEW id \in Ids, Begin(h, op, id)
    PROVE  Names'
<1> DEFINE d == IF op = "trash" THEN TrashPath(id, rows[id].path) ELSE rows[id].orig
<1>1. /\ id \in DOMAIN rows /\ rows[id] \in Row /\ id \notin fresh /\ UNCHANGED <<rows, fs, fresh>>
      /\ op \in {"trash", "restore", "purge"} /\ (rows[id].deleted <=> op # "trash")
  BY TrashAssumption DEF Begin, Typed, RowsTyped
<1>2. /\ handler'[h].id = id /\ handler'[h].src = rows[id].path /\ handler'[h].dst = d /\ handler'[h].op = op
  BY DEF Begin, Typed, HandlersTyped
<1>3. rows[id].path \in Paths /\ rows[id].content = rows[id].path.name
      /\ (rows[id].deleted => rows[id].orig.name = rows[id].path.name)
  BY <1>1 DEF Names, RowNames, Row
<1>4. d.name = rows[id].path.name
  BY <1>1, <1>3, PathFacts
<1> HIDE DEF d
<1>5. HandlerNames(h)'
  BY <1>1, <1>2, <1>3, <1>4 DEF HandlerNames
<1> QED BY <1>1, <1>5, OneName DEF Names, RowNames, FileNames

\* The indexer finds no file under another's name, so it never changes a row's content.
LEMMA IndexNames == ASSUME Sound, Names, NEW p \in toIndex, Index(p) PROVE Names'
<1>0. p \in Paths /\ UNCHANGED <<fs, handler>> /\ fresh \cap DOMAIN rows = {}
  BY DEF Index, Sound, Typed, RowsTyped, WatchTyped
<1>1. CASE UNCHANGED <<rows, fresh>>
  BY <1>0, <1>1 DEF Names, RowNames, FileNames, HandlerNames, Busy
<1>2. CASE fs[p] # Nothing /\ ~Known(p)
  <2>1. fs[p] = p.name
    BY <1>0, <1>2 DEF Names, FileNames
  <2>2. Changed(p) = {}
    BY <1>2, <2>1 DEF Names, RowNames, Changed, Known
  <2>3. PICK new \in fresh : /\ rows' = [i \in DOMAIN rows \cup {new} |-> IF i = new THEN NewRow(p) ELSE rows[i]]
                             /\ fresh' = fresh \ {new}
    BY <1>2, <2>2 DEF Index
  <2>4. /\ DOMAIN rows' = DOMAIN rows \cup {new} /\ rows'[new] = NewRow(p)
        /\ \A i \in DOMAIN rows : rows'[i] = rows[i] /\ i # new
    BY <1>0, <2>3
  <2>5. RowNames'
    BY <2>1, <2>4 DEF Names, RowNames, NewRow
  <2>6. ASSUME NEW h \in Handlers PROVE HandlerNames(h)'
    BY <1>0, <2>3, <2>4 DEF Names, HandlerNames, Busy
  <2> QED BY <1>0, <2>5, <2>6 DEF Names, FileNames
<1> QED BY <1>1, <1>2 DEF Index

LEMMA StepNames == ASSUME Cautious, Newcomer = Nothing, Sound, Names, [Next]_vars PROVE Names'
<1>1. ASSUME NEW h \in Handlers, HandlerStep(h) PROVE Names'
  BY <1>1, HandlerStepNames DEF Sound
<1>2. ASSUME NEW h \in Handlers, NEW op \in Requests, NEW id \in Ids, Begin(h, op, id) PROVE Names'
  BY <1>2, BeginNames DEF Sound
<1>3. ASSUME NEW p \in toIndex, Index(p) PROVE Names'
  BY <1>3, IndexNames
<1>4. ASSUME NEW i, rows' = Deleted(i), UNCHANGED <<fs, fresh, handler>> PROVE Names'
  BY <1>4, DeletedRows DEF Names, RowNames, FileNames, HandlerNames, Busy
<1>5. ASSUME UNCHANGED <<rows, fs, fresh, handler>> PROVE Names'
  BY <1>5 DEF Names, RowNames, FileNames, HandlerNames, Busy
<1>6. CASE WatchRemoveRow
  BY <1>4, <1>6 DEF WatchRemoveRow
<1>7. ASSUME NEW id, PruneDelete(id) PROVE Names'
  BY <1>4, <1>7 DEF PruneDelete
<1>8. CASE WatchCreate \/ WatchRemove \/ PruneQuery \/ PruneEnd \/ UNCHANGED vars
  BY <1>5, <1>8 DEF WatchCreate, WatchRemove, PruneQuery, PruneEnd, vars
<1>9. ASSUME NEW s, PruneStat(s) PROVE Names'
  BY <1>5, <1>9 DEF PruneStat
<1>10. CASE Crash
  BY <1>10 DEF Crash, Names, RowNames, FileNames, HandlerNames, Busy, Idle
<1>11. CASE (\E h \in Handlers, op \in Requests, id \in Ids : Begin(h, op, id)) \/ \E h \in Handlers : HandlerStep(h)
  BY <1>1, <1>2, <1>11
<1>12. CASE (\E p \in toIndex : Index(p)) \/ (\E s \in prune.seen : PruneStat(s)) \/ \E id \in prune.gone : PruneDelete(id)
  BY <1>3, <1>7, <1>9, <1>12
<1>13. ~NewFile
  BY DEF NewFile
<1> QED BY <1>6, <1>8, <1>10, <1>11, <1>12, <1>13 DEF Next

\* Every photo is on the disk at first.
LEMMA InitKept == ASSUME Init PROVE ContentKept
<1>1. ASSUME NEW i \in DOMAIN ContentOf PROVE fs[GalleryPath(ContentOf[i])] = ContentOf[i] /\ GalleryPath(ContentOf[i]) \in Paths
  BY PathFacts DEF Init
<1> QED BY <1>1 DEF ContentKept, OnDisk

LEMMA StepContentKept == ASSUME Cautious, Sound, [Next]_vars, ContentKept PROVE ContentKept'
<1> SUFFICES ASSUME NEW i \in DOMAIN ContentOf PROVE ContentOf[i] \in purged' \/ OnDisk(ContentOf[i])'
  BY DEF ContentKept
<1>1. ContentOf[i] \in Contents /\ (ContentOf[i] \in purged \/ OnDisk(ContentOf[i]))
  BY PathFacts DEF ContentKept
<1> QED BY <1>1, FilesKept

\* purgeFiles: where the user puts no other file in a photo's place, no photo leaves the
\* disk unless a purge named it, whatever fails, however the prune and the watcher
\* interleave with the request, and wherever the service crashes.
THEOREM ContentCorrect == ASSUME Cautious, Newcomer = Nothing PROVE Spec => []ContentKept
<1> DEFINE Inv == Sound /\ Names /\ ContentKept
<1>1. Init => Inv
  BY InitSound, InitNames, InitKept
<1>2. Inv /\ [Next]_vars => Inv'
  <2> SUFFICES ASSUME Inv, [Next]_vars PROVE Inv'
    OBVIOUS
  <2>1. Sound'
    BY NamesOwn, StepSound DEF Sound
  <2>2. Names'
    BY StepNames
  <2>3. ContentKept'
    BY StepContentKept
  <2> QED BY <2>1, <2>2, <2>3
<1>3. Inv => ContentKept
  OBVIOUS
<1> QED BY <1>1, <1>2, <1>3, PTL DEF Spec

-----------------------------------------------------------------------------
(* Rows and files agree between requests, when requests come one by one and     *)
(* wait for the watcher, and nothing but a move fails.                          *)

Undisturbed == OneAtATime /\ Careful /\ ~DBMayFail /\ MaxPrunes = 0 /\ MaxCrashes = 0

FileThere(i) == fs[rows[i].path] = rows[i].content

\* What the purge of a Live Photo leaves: the row of the video, whose deletion the
\* photo's row refused.
Ghost(i) == /\ i = Companion /\ Still \notin DOMAIN rows
            /\ rows[i].deleted /\ rows[i].content \in purged /\ fs[rows[i].path] = Nothing

Found(i) == FileThere(i) \/ Ghost(i)

\* The rows whose file a handler is moving or removing.
Held(h) == IF ~Busy(h) THEN {}
           ELSE {handler[h].id} \cup IF handler[h].op = "purge" THEN {handler[h].live} ELSE {}

RowsFound   == \A i \in DOMAIN rows : (\A h \in Handlers : i \notin Held(h)) => Found(i)
UniquePaths == \A i, j \in DOMAIN rows : rows[i].path = rows[j].path => i = j

\* A removal the watcher has not handled yet is of a file that is still gone.
Watched ==
    /\ removing = NoId
    /\ \A e \in ToSet(events) : e.kind = "remove" =>
          /\ fs[e.path] = Nothing
          /\ \A h \in Handlers : Busy(h) => handler[h].op # "restore"

NoPrune == crashes = 0 /\ prunes = 0 /\ prune = IdlePrune

TrashHeld(h) == LET l == handler[h] IN
    /\ l.pc = "trash" => ~rows[l.id].deleted /\ rows[l.id].path = l.src /\ FileThere(l.id)
    /\ l.pc \in {"move", "copied"} => ~PathTaken(l.id, l.src) /\ fs[l.src] = rows[l.id].content
    /\ l.pc = "moved" => FileThere(l.id)

RestoreHeld(h) == LET l == handler[h] IN
    /\ l.pc # "moved" => FileThere(l.id)
    /\ l.pc # "stat" => ~PathTaken(l.id, l.dst)
    /\ l.pc = "moved" => fs[l.dst] = rows[l.id].content

PurgeHeld(h) == LET l == handler[h] IN
    /\ l.id = l.main /\ l.live = rows[l.main].live
    /\ rows[l.main].deleted /\ rows[l.main].path = l.src /\ rows[l.main].content \in purged
    /\ IF l.pc = "purge" THEN FileThere(l.main) ELSE fs[l.src] = Nothing
    /\ l.live \in DOMAIN rows =>
         /\ rows[l.live].deleted /\ rows[l.live].content \in purged
         /\ IF l.pc \in {"purge", "live"} THEN FileThere(l.live) ELSE fs[rows[l.live].path] = Nothing

HeldOK(h) == LET l == handler[h] IN Busy(h) =>
    /\ l.main \in DOMAIN rows /\ l.id \in DOMAIN rows /\ l.main # Companion
    /\ l.live # NoId => l.main = Still
    /\ l.op = "trash" => TrashHeld(h)
    /\ l.op = "restore" => RestoreHeld(h)
    /\ l.op = "purge" => PurgeHeld(h)

Settled == RowsFound /\ UniquePaths /\ Watched /\ NoPrune /\ \A h \in Handlers : HeldOK(h)

LEMMA CautiousThen == ASSUME Undisturbed PROVE Cautious
BY DEF Undisturbed, Cautious

\* A row's path is in the gallery or in the row's own trash directory.
LEMMA RowFacts ==
    ASSUME Sound, NEW i \in DOMAIN rows
    PROVE  /\ i \in Ids \ fresh /\ i # Gallery /\ i # NoId
           /\ rows[i].path \in Paths /\ rows[i].path.dir = (IF rows[i].deleted THEN i ELSE Gallery)
           /\ rows[i].content \in Contents /\ rows[i].content # Nothing /\ rows[i].deleted \in BOOLEAN
           /\ rows[i].live = IF i = Still THEN Companion ELSE NoId
BY PathFacts DEF Sound, Typed, RowsTyped, Row, RowPlaces

LEMMA HeardSet ==
    ASSUME NEW q \in Seq(EventSet), NEW e \in EventSet
    PROVE  /\ ToSet(Heard(q, e)) \subseteq ToSet(q) \cup {e}
           /\ e.path.dir # Gallery => Heard(q, e) = q
<1>1. ToSet(Append(q, e)) \subseteq ToSet(q) \cup {e}
  BY DEF ToSet
<1> QED BY <1>1 DEF Heard

LEMMA TailSet ==
    ASSUME NEW q \in Seq(EventSet), q # <<>>
    PROVE  Head(q) \in ToSet(q) /\ ToSet(Tail(q)) \subseteq ToSet(q)
BY DEF ToSet

LEMMA EventFacts == ASSUME Sound, NEW e \in ToSet(events) PROVE e \in EventSet /\ e.path \in Paths /\ e.path.dir = Gallery
BY DEF Sound, OnlyGallery, ToSet, EventSet

LEMMA FoundKept ==
    ASSUME NEW i \in DOMAIN rows, Found(i), rows'[i] = rows[i], Still \in DOMAIN rows' => Still \in DOMAIN rows,
           purged \subseteq purged', fs'[rows[i].path] = fs[rows[i].path]
    PROVE  Found(i)'
BY DEF Found, FileThere, Ghost

\* What holds of every row, held or not.
LEMMA SettledOwn == ASSUME Undisturbed, Sound, Settled PROVE HoldsOwn
<1> SUFFICES ASSUME NEW i \in DOMAIN rows PROVE fs[rows[i].path] \in {Nothing, rows[i].content}
  BY DEF HoldsOwn
<1>1. CASE \A h \in Handlers : i \notin Held(h)
  BY <1>1 DEF Settled, RowsFound, Found, FileThere, Ghost
<1>2. ASSUME NEW h \in Handlers, i \in Held(h) PROVE fs[rows[i].path] \in {Nothing, rows[i].content}
  <2>1. Busy(h) /\ HeldOK(h) /\ HandlerOK(h) /\ handler[h].pc \in PlacesOf[handler[h].op] /\ handler[h].op \in Ops
    BY <1>2, BusyFacts DEF Held, Settled, Sound, HandlersOK
  <2>2. CASE handler[h].op = "trash"
    <3>1. i = handler[h].id /\ TrashHeld(h) /\ TrashOK(h) /\ handler[h].pc \in {"trash", "move", "copied", "moved"}
      BY <1>2, <2>1, <2>2 DEF Held, HeldOK, HandlerOK, PlacesOf, Moving, Busy
    <3>2. CASE handler[h].pc \in {"trash", "moved"}
      BY <3>1, <3>2 DEF TrashHeld, FileThere
    <3>3. CASE handler[h].pc \in {"move", "copied"}
      <4>1. rows[i].path = handler[h].dst /\ rows[i].path \in Paths /\ rows[i].path.dir = i
        BY <3>1, <3>3, RowFacts DEF TrashOK, Moving, RowIs
      <4>2. CASE handler[h].pc = "move"
        BY <3>1, <4>1, <4>2 DEF TrashOK, Empty
      <4>3. CASE handler[h].pc = "copied"
        BY <2>1, <3>1, <4>1, <4>3 DEF HandlerOK, TrashHeld
      <4> QED BY <3>3, <4>2, <4>3
    <3> QED BY <3>1, <3>2, <3>3
  <2>3. CASE handler[h].op = "restore"
    <3>1. i = handler[h].id /\ RestoreHeld(h) /\ RestoreOK(h)
      BY <1>2, <2>1, <2>3 DEF Held, HeldOK, HandlerOK
    <3>2. rows[i].path = handler[h].src /\ rows[i].path \in Paths /\ rows[i].path.dir = i
      BY <3>1, RowFacts DEF RestoreOK, RowIs
    <3> QED BY <3>1, <3>2 DEF RestoreHeld, RestoreOK, FileThere, Empty
  <2>4. CASE handler[h].op = "purge"
    BY <1>2, <2>1, <2>4 DEF Held, HeldOK, PurgeHeld, FileThere
  <2> QED BY <2>1, <2>2, <2>3, <2>4 DEF Ops
<1> QED BY <1>1, <1>2

LEMMA InitSettled == ASSUME Undisturbed, Init PROVE Settled
<1>1. \A i \in DOMAIN rows : i \in DOMAIN ContentOf /\ rows[i].path = GalleryPath(ContentOf[i]) /\ rows[i].content = ContentOf[i]
  BY DEF Init
<1>2. \A i \in DOMAIN rows : FileThere(i)
  BY <1>1, PathFacts DEF Init, FileThere
<1>3. UniquePaths
  <2>1. \A i \in DOMAIN rows : rows[i].path.name = ContentOf[i]
    BY <1>1, PathFacts
  <2> QED BY <1>1, <2>1, TrashAssumption DEF UniquePaths
<1>4. Watched
  BY DEF Init, Watched, ToSet
<1>5. \A h \in Handlers : HeldOK(h)
  BY DEF Init, HeldOK, Busy, Idle
<1> QED BY <1>2, <1>3, <1>4, <1>5 DEF Init, Settled, RowsFound, Found, NoPrune

\* With one handler, what it does not hold must be found.
LEMMA OneSettled ==
    ASSUME Undisturbed, Settled, NEW h \in Handlers, \A i \in DOMAIN rows' : i \notin Held(h)' => Found(i)',
           UniquePaths', Watched', HeldOK(h)', UNCHANGED <<prune, prunes, crashes>>
    PROVE  Settled'
BY DEF Undisturbed, OneAtATime, Settled, RowsFound, NoPrune

LEMMA WatchedKept ==
    ASSUME Settled, UNCHANGED <<events, removing>>, \A e \in ToSet(events) : fs[e.path] = Nothing => fs'[e.path] = Nothing,
           \A h \in Handlers : Busy(h)' /\ handler'[h].op = "restore" => Busy(h) /\ handler[h].op = "restore"
    PROVE  Watched'
BY DEF Settled, Watched

LEMMA HeldFacts ==
    ASSUME Undisturbed, Sound, Settled, NEW h \in Handlers, Busy(h)
    PROVE  /\ HeldOK(h) /\ HandlerOK(h) /\ UniquePaths /\ Watched
           /\ handler[h].id \in DOMAIN rows /\ handler[h].main \in DOMAIN rows
           /\ handler[h].src \in Paths /\ handler[h].dst \in Paths /\ handler[h].id # handler[h].live
           /\ \A i \in DOMAIN rows : i \notin Held(h) => Found(i)
           /\ handler[h].op = "trash" => TrashOK(h) /\ TrashHeld(h) /\ handler[h].dst.dir = handler[h].id /\ handler[h].src.dir = Gallery
           /\ handler[h].op = "restore" => RestoreOK(h) /\ RestoreHeld(h) /\ rows[handler[h].id].path = handler[h].src
                                           /\ rows[handler[h].id].deleted
           /\ handler[h].op = "purge" => PurgeHeld(h)
           /\ HandlersTyped /\ RowsTyped /\ fs \in [Paths -> Contents \cup {Nothing}]
<1>1. /\ HandlerOK(h) /\ HeldOK(h) /\ UniquePaths /\ Watched /\ handler[h].src \in Paths /\ handler[h].dst \in Paths
      /\ HandlersTyped /\ RowsTyped /\ fs \in [Paths -> Contents \cup {Nothing}]
      /\ handler[h].op = "trash" => handler[h].dst.dir = handler[h].id
  BY HandlerFacts DEF Settled
<1>2. \A i \in DOMAIN rows : i \notin Held(h) => Found(i)
  BY DEF Settled, RowsFound, Undisturbed, OneAtATime
<1>3. handler[h].id \in DOMAIN rows /\ handler[h].main \in DOMAIN rows /\ handler[h].id # handler[h].live
  BY <1>1 DEF HeldOK, HandlerOK
<1>4. handler[h].op = "restore" => RestoreOK(h) /\ RestoreHeld(h) /\ rows[handler[h].id].path = handler[h].src
                                   /\ rows[handler[h].id].deleted
  BY <1>1, <1>3 DEF HeldOK, HandlerOK, RestoreOK, RowIs
<1>5. handler[h].op = "trash" => TrashOK(h) /\ TrashHeld(h) /\ handler[h].dst.dir = handler[h].id /\ handler[h].src.dir = Gallery
  BY <1>1 DEF HeldOK, HandlerOK, TrashOK
<1> QED BY <1>1, <1>2, <1>3, <1>4, <1>5 DEF HeldOK

LEMMA MarkTrashedSettled == ASSUME Undisturbed, Sound, Settled, NEW h \in Handlers, MarkTrashed(h) PROVE Settled'
<1> DEFINE id == handler[h].id
           src == handler[h].src
           dst == handler[h].dst
<1>1. /\ Busy(h) /\ handler[h].op = "trash" /\ handler[h].pc = "trash"
      /\ UNCHANGED <<fresh, fs, purged, events, removing, prune, prunes, crashes>>
  BY DEF MarkTrashed, At, Busy, watchVars, pruneVars
<1>2. /\ id \in DOMAIN rows /\ src \in Paths /\ dst \in Paths /\ HandlersTyped /\ RowsTyped /\ HeldOK(h) /\ UniquePaths
      /\ rows[id].path = src /\ fs[src] = rows[id].content /\ dst.dir = id
  BY <1>1, HeldFacts DEF TrashHeld, FileThere
<1>3. /\ DOMAIN rows' = DOMAIN rows /\ \A j \in DOMAIN rows : j # id => rows'[j] = rows[j]
      /\ rows'[id].path = dst /\ rows'[id].content = rows[id].content
  BY <1>2, UpdatedRows DEF MarkTrashed
<1>4. /\ handler'[h].pc = "move" /\ handler'[h].op = "trash" /\ handler'[h].id = id /\ handler'[h].live = handler[h].live
      /\ handler'[h].src = src /\ handler'[h].main = handler[h].main
  BY <1>1, <1>2, GotoFields DEF MarkTrashed
<1>5. ASSUME NEW i \in DOMAIN rows', i \notin Held(h)' PROVE Found(i)'
  <2>1. i \in DOMAIN rows /\ i # id /\ Found(i) /\ rows'[i] = rows[i]
    BY <1>1, <1>3, <1>4, <1>5, HeldFacts DEF Held, Busy
  <2> QED BY <1>1, <1>3, <2>1, FoundKept
<1>6. UniquePaths'
  <2>1. \A j \in DOMAIN rows : j # id => rows[j].path # dst
    BY <1>2, RowFacts
  <2> HIDE DEF id, dst
  <2> QED BY <1>2, <1>3, <2>1 DEF UniquePaths
<1>7. TrashHeld(h)'
  <2>1. \A j \in DOMAIN rows : j # id => rows[j].path # src
    BY <1>2 DEF UniquePaths
  <2> HIDE DEF id, src, dst
  <2> QED BY <1>1, <1>2, <1>3, <1>4, <2>1 DEF TrashHeld, PathTaken
<1>8. HeldOK(h)'
  BY <1>1, <1>2, <1>3, <1>4, <1>7 DEF HeldOK
<1>9. Watched'
  <2>1. \A g \in Handlers : g = h
    BY DEF Undisturbed, OneAtATime
  <2> QED BY <1>1, <1>4, <2>1, WatchedKept
<1> QED BY <1>1, <1>5, <1>6, <1>8, <1>9, OneSettled

\* What the other rows' paths lead to is not touched by a step on the held one.
LEMMA OthersFound ==
    ASSUME Undisturbed, Sound, Settled, NEW h \in Handlers, Busy(h), handler[h].op # "purge",
           DOMAIN rows' = DOMAIN rows, purged' = purged,
           \A j \in DOMAIN rows : j # handler[h].id => rows'[j] = rows[j] /\ fs'[rows[j].path] = fs[rows[j].path]
    PROVE  \A i \in DOMAIN rows' : i # handler[h].id => Found(i)'
<1> SUFFICES ASSUME NEW i \in DOMAIN rows', i # handler[h].id PROVE Found(i)'
  OBVIOUS
<1>1. i \in DOMAIN rows /\ Found(i)
  BY HeldFacts DEF Held
<1> QED BY <1>1, FoundKept

LEMMA MoveSettled == ASSUME Undisturbed, Sound, Settled, NEW h \in Handlers, Move(h) PROVE Settled'
<1> DEFINE id == handler[h].id
           src == handler[h].src
           dst == handler[h].dst
<1>1. /\ Busy(h) /\ handler[h].op \in {"trash", "restore"} /\ handler[h].pc = "move" /\ src # dst
      /\ UNCHANGED <<fresh, rows, purged, removing, prune, prunes, crashes>>
  BY LeadingFacts DEF Move, Busy, pruneVars
<1>2. /\ id \in DOMAIN rows /\ src \in Paths /\ dst \in Paths /\ HandlersTyped /\ RowsTyped /\ HeldOK(h) /\ UniquePaths
      /\ Watched /\ fs \in [Paths -> Contents \cup {Nothing}] /\ id # Gallery /\ rows[id].content # Nothing
  BY <1>1, HeldFacts, RowFacts
<1>3. /\ handler'[h].pc = "moved" /\ handler'[h].op = handler[h].op /\ handler'[h].id = id
      /\ handler'[h].live = handler[h].live /\ handler'[h].src = src /\ handler'[h].dst = dst
      /\ handler'[h].main = handler[h].main
  BY <1>2, GotoFields DEF Move
\* The file is at the source, and no other row has either path.
<1>4. /\ fs[src] = rows[id].content /\ \A j \in DOMAIN rows : j # id => rows[j].path # src /\ rows[j].path # dst
  <2>1. CASE handler[h].op = "trash"
    <3>1. fs[src] = rows[id].content /\ \A j \in DOMAIN rows : j # id => rows[j].path # src
      BY <1>1, <1>2, <2>1, HeldFacts DEF TrashHeld, PathTaken
    <3>2. dst.dir = id
      BY <1>1, <2>1, HeldFacts
    <3> QED BY <1>2, <3>1, <3>2, RowFacts
  <2>2. CASE handler[h].op = "restore"
    <3>1. fs[src] = rows[id].content /\ rows[id].path = src /\ ~PathTaken(id, dst)
      BY <1>1, <2>2, HeldFacts DEF RestoreHeld, FileThere
    <3> QED BY <1>2, <3>1 DEF PathTaken, UniquePaths
  <2> QED BY <1>1, <2>1, <2>2
<1>5. /\ fs' = Moved(src, dst) /\ events' = Heard(Heard(events, Removed(src)), Created(dst))
      /\ fs'[src] = Nothing /\ fs'[dst] = fs[src] /\ \A p \in Paths : p # src /\ p # dst => fs'[p] = fs[p]
  BY <1>1, <1>2, <1>4 DEF Move, Moved
<1>6. ASSUME NEW i \in DOMAIN rows', i # id PROVE Found(i)'
  <2>1. \A j \in DOMAIN rows : j # id => rows'[j] = rows[j] /\ fs'[rows[j].path] = fs[rows[j].path]
    BY <1>1, <1>4, <1>5, RowFacts
  <2> QED BY <1>1, <1>6, <2>1, OthersFound
<1>7. \A i \in DOMAIN rows' : i \notin Held(h)' => Found(i)'
  BY <1>1, <1>3, <1>6 DEF Held, Busy
<1>8. UniquePaths'
  BY <1>1, <1>2 DEF UniquePaths
<1>9. HeldOK(h)'
  <2>1. CASE handler[h].op = "trash"
    <3>1. rows[id].path = dst
      BY <1>1, <1>2, <2>1, HeldFacts DEF TrashOK, Moving, RowIs
    <3>2. TrashHeld(h)'
      BY <1>1, <1>3, <1>4, <1>5, <3>1 DEF TrashHeld, FileThere
    <3> QED BY <1>1, <1>2, <1>3, <2>1, <3>2 DEF HeldOK
  <2>2. CASE handler[h].op = "restore"
    <3>1. RestoreHeld(h)'
      BY <1>1, <1>2, <1>3, <1>4, <1>5, <2>2, HeldFacts DEF RestoreHeld, PathTaken
    <3> QED BY <1>1, <1>2, <1>3, <2>2, <3>1 DEF HeldOK
  <2> QED BY <1>1, <2>1, <2>2
<1>10. Watched'
  <2>1. \A g \in Handlers : g = h
    BY DEF Undisturbed, OneAtATime
  <2>2. events \in Seq(EventSet) /\ Removed(src) \in EventSet /\ Created(dst) \in EventSet
    BY <1>2 DEF Sound, Typed, WatchTyped, EventSet, Removed, Created
  <2>3. \A e \in ToSet(events) : e.path \in Paths /\ e.path.dir = Gallery
    BY EventFacts
  <2>4. Removed(src).path = src /\ Created(dst).path = dst /\ Created(dst).kind = "create"
    BY DEF Removed, Created
  <2>5. Heard(events, Removed(src)) \in Seq(EventSet)
    BY <1>2, <2>2, HeardTyped
  <2>6. CASE handler[h].op = "trash"
    <3>1. dst.dir = id
      BY <1>1, <2>6, HeldFacts
    <3>2. events' = Heard(events, Removed(src))
      BY <1>2, <1>5, <2>2, <2>4, <2>5, <3>1, HeardSet
    <3>3. ToSet(events') \subseteq ToSet(events) \cup {Removed(src)}
      BY <2>2, <3>2, HeardSet
    <3>4. \A e \in ToSet(events) : e.path # dst
      BY <1>2, <2>3, <3>1
    <3> HIDE DEF id, src, dst
    <3> QED BY <1>1, <1>2, <1>3, <1>5, <2>1, <2>3, <2>4, <2>6, <3>3, <3>4 DEF Watched
  <2>7. CASE handler[h].op = "restore"
    <3>1. src.dir = id
      BY <1>1, <2>7, HeldFacts DEF RestoreOK
    <3>2. events' = Heard(events, Created(dst))
      BY <1>2, <1>5, <2>2, <2>4, <3>1, HeardSet
    <3>3. ToSet(events') \subseteq ToSet(events) \cup {Created(dst)}
      BY <2>2, <3>2, HeardSet
    <3> QED BY <1>1, <1>2, <1>3, <2>1, <2>4, <2>7, <3>3 DEF Watched
  <2> QED BY <1>1, <2>6, <2>7
<1> QED BY <1>1, <1>7, <1>8, <1>9, <1>10, OneSettled

LEMMA CopySettled == ASSUME Undisturbed, Sound, Settled, NEW h \in Handlers, Copy(h) PROVE Settled'
<1> DEFINE id == handler[h].id
           src == handler[h].src
           dst == handler[h].dst
<1>1. /\ Busy(h) /\ handler[h].op \in {"trash", "restore"} /\ handler[h].pc = "move" /\ src # dst
      /\ UNCHANGED <<fresh, rows, purged, removing, prune, prunes, crashes>>
  BY LeadingFacts DEF Copy, Busy, pruneVars
<1>2. /\ id \in DOMAIN rows /\ src \in Paths /\ dst \in Paths /\ HandlersTyped /\ RowsTyped /\ HeldOK(h) /\ UniquePaths
      /\ Watched /\ fs \in [Paths -> Contents \cup {Nothing}] /\ id # Gallery /\ rows[id].content # Nothing
  BY <1>1, HeldFacts, RowFacts
<1>3. /\ handler'[h].pc = "copied" /\ handler'[h].op = handler[h].op /\ handler'[h].id = id
      /\ handler'[h].live = handler[h].live /\ handler'[h].src = src /\ handler'[h].dst = dst
      /\ handler'[h].main = handler[h].main
  BY <1>2, GotoFields DEF Copy
<1>4. \A j \in DOMAIN rows : j # id => rows[j].path # dst
  <2>1. CASE handler[h].op = "trash"
    BY <1>1, <1>2, <2>1, RowFacts, HeldFacts
  <2>2. CASE handler[h].op = "restore"
    BY <1>1, <2>2, HeldFacts DEF RestoreHeld, PathTaken
  <2> QED BY <1>1, <2>1, <2>2
<1>5. /\ events' = Heard(events, Created(dst)) /\ fs'[dst] = fs[src] /\ \A p \in Paths : p # dst => fs'[p] = fs[p]
  BY <1>2 DEF Copy
<1>6. ASSUME NEW i \in DOMAIN rows', i # id PROVE Found(i)'
  <2>1. \A j \in DOMAIN rows : j # id => rows'[j] = rows[j] /\ fs'[rows[j].path] = fs[rows[j].path]
    BY <1>1, <1>4, <1>5, RowFacts
  <2> QED BY <1>1, <1>6, <2>1, OthersFound
<1>7. \A i \in DOMAIN rows' : i \notin Held(h)' => Found(i)'
  BY <1>1, <1>3, <1>6 DEF Held, Busy
<1>8. UniquePaths'
  BY <1>1, <1>2 DEF UniquePaths
<1>9. HeldOK(h)'
  <2>1. CASE handler[h].op = "trash"
    <3>1. TrashHeld(h)'
      BY <1>1, <1>2, <1>3, <1>5, <2>1, HeldFacts DEF TrashHeld, PathTaken
    <3> QED BY <1>1, <1>2, <1>3, <2>1, <3>1 DEF HeldOK
  <2>2. CASE handler[h].op = "restore"
    <3>1. RestoreHeld(h)'
      BY <1>1, <1>2, <1>3, <1>5, <2>2, HeldFacts DEF RestoreHeld, PathTaken, FileThere
    <3> QED BY <1>1, <1>2, <1>3, <2>2, <3>1 DEF HeldOK
  <2> QED BY <1>1, <2>1, <2>2
<1>10. Watched'
  <2>1. \A g \in Handlers : g = h
    BY DEF Undisturbed, OneAtATime
  <2>2. events \in Seq(EventSet) /\ Created(dst) \in EventSet
    BY <1>2 DEF Sound, Typed, WatchTyped, EventSet, Created
  <2>3. \A e \in ToSet(events) : e.path \in Paths /\ e.path.dir = Gallery
    BY EventFacts
  <2>4. Created(dst).path = dst /\ Created(dst).kind = "create"
    BY DEF Created
  <2>5. ToSet(events') \subseteq ToSet(events) \cup {Created(dst)}
    BY <1>5, <2>2, HeardSet
  <2>6. CASE handler[h].op = "trash"
    <3>1. \A e \in ToSet(events) : e.path # dst
      BY <1>1, <1>2, <2>3, <2>6, HeldFacts
    <3> QED BY <1>1, <1>2, <1>3, <1>5, <2>1, <2>3, <2>4, <2>5, <2>6, <3>1 DEF Watched
  <2>7. CASE handler[h].op = "restore"
    BY <1>1, <1>2, <1>3, <2>1, <2>4, <2>5, <2>7 DEF Watched
  <2> QED BY <1>1, <2>6, <2>7
<1> QED BY <1>1, <1>7, <1>8, <1>9, <1>10, OneSettled

LEMMA RemoveSourceSettled == ASSUME Undisturbed, Sound, Settled, NEW h \in Handlers, RemoveSource(h) PROVE Settled'
<1> DEFINE id == handler[h].id
           src == handler[h].src
           dst == handler[h].dst
<1>1. /\ Busy(h) /\ handler[h].op \in {"trash", "restore"} /\ handler[h].pc = "copied" /\ src # dst
      /\ UNCHANGED <<fresh, rows, purged, removing, prune, prunes, crashes>>
  BY LeadingFacts DEF RemoveSource, Busy, pruneVars
<1>2. /\ id \in DOMAIN rows /\ src \in Paths /\ dst \in Paths /\ HandlersTyped /\ RowsTyped /\ HeldOK(h) /\ UniquePaths
      /\ Watched /\ fs \in [Paths -> Contents \cup {Nothing}] /\ id # Gallery /\ rows[id].content # Nothing
      /\ fs[dst] = fs[src]
  BY <1>1, HeldFacts, RowFacts DEF HandlerOK
<1>3. /\ handler'[h].pc = "moved" /\ handler'[h].op = handler[h].op /\ handler'[h].id = id
      /\ handler'[h].live = handler[h].live /\ handler'[h].src = src /\ handler'[h].dst = dst
      /\ handler'[h].main = handler[h].main
  BY <1>2, GotoFields DEF RemoveSource
<1>4. fs[src] = rows[id].content /\ \A j \in DOMAIN rows : j # id => rows[j].path # src
  <2>1. CASE handler[h].op = "trash"
    BY <1>1, <1>2, <2>1, HeldFacts DEF TrashHeld, PathTaken
  <2>2. CASE handler[h].op = "restore"
    <3>1. fs[src] = rows[id].content /\ rows[id].path = src
      BY <1>1, <2>2, HeldFacts DEF RestoreHeld, FileThere
    <3> QED BY <1>2, <3>1 DEF UniquePaths
  <2> QED BY <1>1, <2>1, <2>2
<1>5. /\ events' = Heard(events, Removed(src)) /\ fs'[src] = Nothing /\ \A p \in Paths : p # src => fs'[p] = fs[p]
  BY <1>2 DEF RemoveSource
<1>6. ASSUME NEW i \in DOMAIN rows', i # id PROVE Found(i)'
  <2>1. \A j \in DOMAIN rows : j # id => rows'[j] = rows[j] /\ fs'[rows[j].path] = fs[rows[j].path]
    BY <1>1, <1>4, <1>5, RowFacts
  <2> QED BY <1>1, <1>6, <2>1, OthersFound
<1>7. \A i \in DOMAIN rows' : i \notin Held(h)' => Found(i)'
  BY <1>1, <1>3, <1>6 DEF Held, Busy
<1>8. UniquePaths'
  BY <1>1, <1>2 DEF UniquePaths
<1>9. HeldOK(h)'
  <2>1. CASE handler[h].op = "trash"
    <3>1. rows[id].path = dst
      BY <1>1, <1>2, <2>1, HeldFacts DEF TrashOK, Moving, RowIs
    <3>2. TrashHeld(h)'
      BY <1>1, <1>2, <1>3, <1>4, <1>5, <3>1 DEF TrashHeld, FileThere
    <3> QED BY <1>1, <1>2, <1>3, <2>1, <3>2 DEF HeldOK
  <2>2. CASE handler[h].op = "restore"
    <3>1. RestoreHeld(h)'
      BY <1>1, <1>2, <1>3, <1>4, <1>5, <2>2, HeldFacts DEF RestoreHeld, PathTaken
    <3> QED BY <1>1, <1>2, <1>3, <2>2, <3>1 DEF HeldOK
  <2> QED BY <1>1, <2>1, <2>2
<1>10. Watched'
  <2>1. \A g \in Handlers : g = h
    BY DEF Undisturbed, OneAtATime
  <2>2. events \in Seq(EventSet) /\ Removed(src) \in EventSet
    BY <1>2 DEF Sound, Typed, WatchTyped, EventSet, Removed
  <2>3. \A e \in ToSet(events) : e.path \in Paths
    BY EventFacts
  <2>4. Removed(src).path = src
    BY DEF Removed
  <2>5. CASE handler[h].op = "trash"
    <3>1. ToSet(events') \subseteq ToSet(events) \cup {Removed(src)}
      BY <1>5, <2>2, HeardSet
    <3> QED BY <1>1, <1>2, <1>3, <1>5, <2>1, <2>3, <2>4, <2>5, <3>1 DEF Watched
  <2>6. CASE handler[h].op = "restore"
    <3>1. src.dir # Gallery
      BY <1>1, <1>2, <2>6, HeldFacts DEF RestoreOK
    <3>2. events' = events
      BY <1>5, <2>2, <2>4, <3>1, HeardSet
    <3> QED BY <1>1, <1>3, <1>5, <2>1, <2>3, <2>6, <3>2, WatchedKept
  <2> QED BY <1>1, <2>5, <2>6
<1> QED BY <1>1, <1>7, <1>8, <1>9, <1>10, OneSettled

\* A failed move leaves the row and the file together: where they were.
LEMMA MoveFailsSettled == ASSUME Undisturbed, Sound, Settled, NEW h \in Handlers, MoveFails(h) PROVE Settled'
<1> DEFINE id == handler[h].id
           src == handler[h].src
           dst == handler[h].dst
<1>1. /\ Busy(h) /\ handler[h].op \in {"trash", "restore"} /\ handler[h].pc \in {"move", "copied"}
      /\ handler[h].pc = "move" => fs[dst] = Nothing
      /\ UNCHANGED <<fresh, purged, events, removing, prune, prunes, crashes>> /\ Ends(h)
  BY LeadingFacts DEF MoveFails, MoveUndone, watchVars, pruneVars
<1>2. /\ id \in DOMAIN rows /\ id \in Ids /\ src \in Paths /\ dst \in Paths /\ HandlersTyped /\ RowsTyped /\ UniquePaths
      /\ fs \in [Paths -> Contents \cup {Nothing}] /\ id # Gallery
  BY <1>1, HeldFacts, RowFacts
<1>3. handler'[h].pc = "idle" /\ ~Busy(h)' /\ Held(h)' = {} /\ HeldOK(h)'
  BY <1>1, <1>2, EndsFields DEF Held, HeldOK, Busy
<1>4. \A p \in Paths : fs'[p] \in {fs[p], Nothing}
  BY <1>2 DEF MoveFails, MoveUndone, Wiped
<1>5. Watched'
  <2>1. \A g \in Handlers : g = h
    BY DEF Undisturbed, OneAtATime
  <2>2. \A e \in ToSet(events) : fs[e.path] = Nothing => fs'[e.path] = Nothing
    BY <1>4, EventFacts
  <2> QED BY <1>1, <1>3, <2>1, <2>2, WatchedKept
<1>6. CASE handler[h].op = "trash"
  <2>1. fs[src] = rows[id].content /\ ~PathTaken(id, src) /\ src.dir = Gallery /\ dst.dir = id
    BY <1>1, <1>6, HeldFacts DEF TrashHeld
  <2>2. rows' = Updated(id, src, NoPath, FALSE) /\ fs' = Wiped(id)
    BY <1>6, <2>1 DEF MoveFails, MoveUndone, Undisturbed
  <2>3. /\ DOMAIN rows' = DOMAIN rows /\ \A j \in DOMAIN rows : j # id => rows'[j] = rows[j]
        /\ rows'[id].path = src /\ rows'[id].content = rows[id].content
    BY <1>2, <2>2, UpdatedRows
  <2> HIDE DEF id, src, dst
  <2>4. fs'[src] = fs[src] /\ \A p \in Paths : p.dir # id => fs'[p] = fs[p]
    BY <1>2, <2>1, <2>2 DEF Wiped
  <2>5. ASSUME NEW i \in DOMAIN rows', i # id PROVE Found(i)'
    <3>1. \A j \in DOMAIN rows : j # id => rows'[j] = rows[j] /\ fs'[rows[j].path] = fs[rows[j].path]
      BY <1>2, <2>3, <2>4, RowFacts
    <3> QED BY <1>1, <1>6, <2>3, <2>5, <3>1, OthersFound DEF id
  <2>6. fs'[rows'[id].path] = rows'[id].content
    BY <2>1, <2>3, <2>4
  <2>7. \A i \in DOMAIN rows' : Found(i)'
    BY <2>5, <2>6 DEF Found, FileThere
  <2>8. UniquePaths'
    BY <1>2, <2>1, <2>3 DEF UniquePaths, PathTaken
  <2> QED BY <1>1, <1>3, <1>5, <2>7, <2>8, OneSettled
<1>7. CASE handler[h].op = "restore"
  <2>1. rows' = rows /\ rows[id].path = src /\ fs[src] = rows[id].content
    BY <1>1, <1>7, HeldFacts DEF MoveFails, MoveUndone, RestoreHeld, FileThere
  <2>2. \A p \in Paths : fs'[p] = fs[p]
    BY <1>1, <1>2, <1>7 DEF MoveFails, MoveUndone
  <2>3. ASSUME NEW i \in DOMAIN rows', i # id PROVE Found(i)'
    <3>1. \A j \in DOMAIN rows : j # id => rows'[j] = rows[j] /\ fs'[rows[j].path] = fs[rows[j].path]
      BY <2>1, <2>2, RowFacts
    <3> QED BY <1>1, <1>7, <2>1, <2>3, <3>1, OthersFound
  <2>4. fs'[rows'[id].path] = rows'[id].content
    BY <1>2, <2>1, <2>2
  <2>5. \A i \in DOMAIN rows' : Found(i)'
    BY <2>3, <2>4 DEF Found, FileThere
  <2>6. UniquePaths'
    BY <1>2, <2>1 DEF UniquePaths
  <2> QED BY <1>1, <1>3, <1>5, <2>5, <2>6, OneSettled
<1> QED BY <1>1, <1>6, <1>7

\* The companion a handler turns to is the video of the photo it began with.
LEMMA CompanionFacts ==
    ASSUME Undisturbed, Sound, Settled, NEW h \in Handlers, Busy(h), handler[h].op # "purge", NEW g \in BOOLEAN, HasCompanion(h, g)
    PROVE  /\ handler[h].live \in DOMAIN rows /\ rows[handler[h].live].deleted = g /\ handler[h].live # handler[h].id
           /\ handler[h].main = Still /\ FileThere(handler[h].live)
<1> DEFINE i == handler[h].live
<1>1. i \in DOMAIN rows /\ rows[i].deleted = g /\ i # NoId
  BY RowFacts DEF HasCompanion
<1>2. HeldOK(h) /\ handler[h].id # i /\ handler[h].main \in DOMAIN rows
  BY HeldFacts
<1>3. handler[h].main = Still /\ Still \in DOMAIN rows
  BY <1>1, <1>2 DEF HeldOK
<1>4. i \notin Held(h)
  BY <1>2 DEF Held
<1>5. Found(i)
  BY <1>1, <1>4, HeldFacts
<1> QED BY <1>1, <1>2, <1>3, <1>5 DEF Found, Ghost

LEMMA TrashMovedSettled == ASSUME Undisturbed, Sound, Settled, NEW h \in Handlers, TrashMoved(h) PROVE Settled'
<1> DEFINE id == handler[h].id
           i == handler[h].live
<1>1. /\ Busy(h) /\ handler[h].op = "trash" /\ handler[h].pc = "moved"
      /\ UNCHANGED <<rows, fs, fresh, purged, events, removing, prune, prunes, crashes>>
  BY DEF TrashMoved, At, Busy, watchVars, pruneVars
<1>2. id \in DOMAIN rows /\ HandlersTyped /\ RowsTyped /\ HeldOK(h) /\ UniquePaths /\ FileThere(id)
  BY <1>1, HeldFacts DEF TrashHeld
<1>3. \A j \in DOMAIN rows' : Found(j)'
  <2>1. \A j \in DOMAIN rows' : j # id => Found(j)'
    BY <1>1, OthersFound
  <2>2. Found(id)
    BY <1>2 DEF Found
  <2> HIDE DEF id
  <2> QED BY <1>1, <2>1, <2>2 DEF Found, FileThere, Ghost
<1>4. UniquePaths'
  BY <1>1, <1>2 DEF UniquePaths
<1>5. HeldOK(h)' /\ (Busy(h)' => handler'[h].op = "trash")
  <2>1. CASE HasCompanion(h, FALSE)
    <3>1. i \in DOMAIN rows /\ ~rows[i].deleted /\ handler[h].main = Still /\ FileThere(i)
      BY <1>1, <2>1, CompanionFacts
    <3>2. /\ handler'[h].pc = "trash" /\ handler'[h].op = "trash" /\ handler'[h].id = i /\ handler'[h].live = NoId
          /\ handler'[h].src = rows[i].path /\ handler'[h].main = handler[h].main
      <4>1. TurnToCompanion(h, "trash") /\ handler[h] \in Locals /\ handler \in [Handlers -> Locals]
        BY <1>2, <2>1 DEF TrashMoved, HandlersTyped
      <4> QED BY <1>1, <4>1 DEF TurnToCompanion, Locals
    <3> HIDE DEF i
    <3>3. TrashHeld(h)'
      BY <1>1, <3>1, <3>2 DEF TrashHeld, FileThere
    <3> QED BY <1>1, <1>2, <3>1, <3>2, <3>3 DEF HeldOK
  <2>2. CASE ~HasCompanion(h, FALSE)
    BY <1>2, <2>2 DEF TrashMoved, Ends, HandlersTyped, Idle, HeldOK, Busy
  <2> QED BY <2>1, <2>2
<1>6. Watched'
  <2>1. \A g \in Handlers : g = h
    BY DEF Undisturbed, OneAtATime
  <2> QED BY <1>1, <1>5, <2>1, WatchedKept
<1> QED BY <1>1, <1>3, <1>4, <1>5, <1>6, OneSettled

\* A restore finds its target free, on the disk and in the table.
LEMMA RestoreStatSettled == ASSUME Undisturbed, Sound, Settled, NEW h \in Handlers, RestoreStat(h) PROVE Settled'
<1> DEFINE id == handler[h].id
           orig == handler[h].dst
           target == RestoreTarget(orig)
<1>1. /\ Busy(h) /\ handler[h].op = "restore" /\ handler[h].pc = "stat"
      /\ UNCHANGED <<rows, fs, fresh, purged, events, removing, prune, prunes, crashes>>
  BY DEF RestoreStat, At, Busy, watchVars, pruneVars
<1>2. /\ id \in DOMAIN rows /\ orig \in Paths /\ orig # NoPath /\ orig.dir = Gallery
      /\ HandlersTyped /\ RowsTyped /\ HeldOK(h) /\ UniquePaths /\ FileThere(id)
  BY <1>1, HeldFacts, PathFacts DEF RestoreHeld, RestoreOK
<1>3. target \in Paths /\ target.dir = Gallery /\ fs[target] = Nothing
  BY <1>1, <1>2, TargetIsPath DEF RestoreStat
<1>4. /\ handler'[h].pc = "move" /\ handler'[h].op = "restore" /\ handler'[h].id = id /\ handler'[h].live = handler[h].live
      /\ handler'[h].main = handler[h].main /\ handler'[h].dst = target
  BY <1>1, <1>2 DEF RestoreStat, HandlersTyped, Locals
<1>5. \A j \in DOMAIN rows' : j \notin Held(h)' => Found(j)'
  BY <1>1, <1>4, OthersFound DEF Held, Busy
<1>6. \A j \in DOMAIN rows : j # id => rows[j].path # target
  <2>1. ASSUME NEW j \in DOMAIN rows, j # id PROVE rows[j].path # target
    <3>1. Found(j)
      BY <1>1, <2>1, HeldFacts DEF Held
    <3>2. CASE FileThere(j)
      BY <1>3, <3>2, RowFacts DEF FileThere
    <3>3. CASE Ghost(j)
      BY <1>3, <3>3, RowFacts DEF Ghost
    <3> QED BY <3>1, <3>2, <3>3 DEF Found
  <2> QED BY <2>1
<1>7. UniquePaths'
  BY <1>1, <1>2 DEF UniquePaths
<1>8. HeldOK(h)'
  <2> HIDE DEF target, id
  <2>1. RestoreHeld(h)'
    BY <1>1, <1>2, <1>4, <1>6 DEF RestoreHeld, PathTaken, FileThere
  <2> QED BY <1>1, <1>2, <1>4, <2>1 DEF HeldOK
<1>9. Watched'
  <2>1. \A g \in Handlers : g = h
    BY DEF Undisturbed, OneAtATime
  <2> QED BY <1>1, <1>4, <2>1, WatchedKept
<1> QED BY <1>1, <1>5, <1>7, <1>8, <1>9, OneSettled

LEMMA RestoreUpdateSettled == ASSUME Undisturbed, Sound, Settled, NEW h \in Handlers, RestoreUpdate(h) PROVE Settled'
<1> DEFINE id == handler[h].id
           dst == handler[h].dst
           i == handler[h].live
<1>1. /\ Busy(h) /\ handler[h].op = "restore" /\ handler[h].pc = "moved"
      /\ UNCHANGED <<fs, fresh, purged, events, removing, prune, prunes, crashes>>
  BY DEF RestoreUpdate, At, Busy, watchVars, pruneVars
<1>2. /\ id \in DOMAIN rows /\ dst \in Paths /\ HandlersTyped /\ RowsTyped /\ HeldOK(h) /\ UniquePaths
      /\ fs[dst] = rows[id].content /\ ~PathTaken(id, dst)
  BY <1>1, HeldFacts DEF RestoreHeld
<1>3. /\ DOMAIN rows' = DOMAIN rows /\ \A j \in DOMAIN rows : j # id => rows'[j] = rows[j]
      /\ rows'[id].path = dst /\ rows'[id].content = rows[id].content
  BY <1>2, UpdatedRows DEF RestoreUpdate
<1>4. \A j \in DOMAIN rows' : Found(j)'
  <2>1. \A j \in DOMAIN rows' : j # id => Found(j)'
    BY <1>1, <1>3, OthersFound
  <2>2. fs'[rows'[id].path] = rows'[id].content
    BY <1>1, <1>2, <1>3
  <2> HIDE DEF id, dst
  <2> QED BY <2>1, <2>2 DEF Found, FileThere
<1>5. UniquePaths'
  <2> HIDE DEF id, dst
  <2> QED BY <1>2, <1>3 DEF UniquePaths, PathTaken
<1>6. HeldOK(h)'
  <2>1. CASE HasCompanion(h, TRUE)
    <3>1. i \in DOMAIN rows /\ i # id /\ handler[h].main = Still /\ FileThere(i)
      BY <1>1, <2>1, CompanionFacts
    <3>2. /\ handler'[h].pc = "stat" /\ handler'[h].op = "restore" /\ handler'[h].id = i /\ handler'[h].live = NoId
          /\ handler'[h].main = handler[h].main
      <4>1. TurnToCompanion(h, "stat") /\ handler[h] \in Locals /\ handler \in [Handlers -> Locals]
        BY <1>2, <2>1 DEF RestoreUpdate, HandlersTyped
      <4> QED BY <1>1, <4>1 DEF TurnToCompanion, Locals
    <3> HIDE DEF i, id
    <3>3. RestoreHeld(h)'
      BY <1>1, <1>3, <3>1, <3>2 DEF RestoreHeld, FileThere
    <3> QED BY <1>1, <1>2, <1>3, <3>1, <3>2, <3>3 DEF HeldOK
  <2>2. CASE ~HasCompanion(h, TRUE)
    BY <1>2, <2>2 DEF RestoreUpdate, Ends, HandlersTyped, Idle, HeldOK, Busy
  <2> QED BY <2>1, <2>2
<1>7. Watched'
  <2>1. \A g \in Handlers : g = h
    BY DEF Undisturbed, OneAtATime
  <2> QED BY <1>1, <2>1, WatchedKept
<1> QED BY <1>1, <1>4, <1>5, <1>6, <1>7, OneSettled

\* Purging: the files of the photo and of its video, then their rows.
LEMMA PurgeFacts ==
    ASSUME Undisturbed, Sound, Settled, NEW h \in Handlers, Busy(h), handler[h].op = "purge"
    PROVE  LET main == handler[h].main  live == handler[h].live IN
           /\ PurgeHeld(h) /\ HeldOK(h) /\ HandlersTyped /\ UniquePaths
           /\ main \in DOMAIN rows /\ main # Companion /\ main # live /\ rows[main].path.dir = main
           /\ handler[h].src = rows[main].path /\ main # Gallery /\ handler[h].src \in Paths
           /\ live \in DOMAIN rows => main = Still /\ live = Companion /\ rows[live].path.dir = live /\ live # NoId /\ live # Gallery
           /\ Held(h) = {main, live}
           /\ \A j \in DOMAIN rows : j \notin {main, live} => /\ Found(j) /\ rows[j].path \in Paths
                                                              /\ rows[j].path.dir \notin ({main, live} \cap DOMAIN rows)
<1> DEFINE main == handler[h].main
           live == handler[h].live
<1>1. /\ PurgeHeld(h) /\ HeldOK(h) /\ HandlersTyped /\ UniquePaths /\ main \in DOMAIN rows /\ handler[h].id # live
      /\ handler[h].src \in Paths /\ \A j \in DOMAIN rows : j \notin Held(h) => Found(j)
  BY HeldFacts
<1>2. Held(h) = {main, live}
  BY <1>1 DEF Held, PurgeHeld
<1>3. main # live /\ main # Companion /\ rows[main].path.dir = main /\ handler[h].src = rows[main].path /\ main # Gallery
  BY <1>1, RowFacts DEF PurgeHeld, HeldOK
<1>4. live \in DOMAIN rows => main = Still /\ live = Companion /\ rows[live].path.dir = live /\ live # NoId /\ live # Gallery
  BY <1>1, RowFacts DEF PurgeHeld, HeldOK
<1>5. ASSUME NEW j \in DOMAIN rows, j \notin {main, live}
      PROVE  Found(j) /\ rows[j].path \in Paths /\ rows[j].path.dir \notin ({main, live} \cap DOMAIN rows)
  BY <1>1, <1>2, <1>3, <1>4, <1>5, RowFacts
<1> QED BY <1>1, <1>2, <1>3, <1>4, <1>5

LEMMA PurgeFilesSettled == ASSUME Undisturbed, Sound, Settled, NEW h \in Handlers, PurgeFiles(h) PROVE Settled'
<1> DEFINE main == handler[h].main
           live == handler[h].live
<1>1. /\ Busy(h) /\ handler[h].op = "purge" /\ handler[h].pc = "purge"
      /\ UNCHANGED <<rows, fresh, purged, removing, prune, prunes, crashes>>
  BY DEF PurgeFiles, At, Busy, pruneVars
<1>2. /\ PurgeHeld(h) /\ HeldOK(h) /\ HandlersTyped /\ UniquePaths
      /\ main \in DOMAIN rows /\ main # live /\ rows[main].path.dir = main /\ handler[h].src = rows[main].path
      /\ handler[h].src \in Paths
      /\ live \in DOMAIN rows => rows[live].path.dir = live
      /\ Held(h) = {main, live}
      /\ \A j \in DOMAIN rows : j \notin {main, live} => Found(j) /\ rows[j].path \in Paths /\ rows[j].path.dir # main
  BY <1>1, PurgeFacts
<1>3. fs' = Wiped(main) /\ UNCHANGED events
  BY CautiousThen, WipesTrash
<1>4. /\ handler'[h].pc = (IF live \in DOMAIN rows THEN "live" ELSE "row") /\ handler'[h].op = "purge"
      /\ handler'[h].main = main /\ handler'[h].id = handler[h].id /\ handler'[h].live = live
      /\ handler'[h].src = handler[h].src
  BY <1>1, <1>2, GotoFields DEF PurgeFiles
<1>5. ASSUME NEW j \in DOMAIN rows', j \notin Held(h)' PROVE Found(j)'
  <2>1. j \in DOMAIN rows /\ j \notin {main, live}
    BY <1>1, <1>2, <1>4, <1>5 DEF Held, Busy, PurgeHeld
  <2>2. fs'[rows[j].path] = fs[rows[j].path]
    BY <1>2, <1>3, <2>1 DEF Wiped
  <2> QED BY <1>1, <1>2, <2>1, <2>2, FoundKept
<1>6. UniquePaths'
  BY <1>1, <1>2 DEF UniquePaths
<1>7. HeldOK(h)'
  <2>1. fs'[handler[h].src] = Nothing
    BY <1>2, <1>3 DEF Wiped
  <2>2. live \in DOMAIN rows => fs'[rows[live].path] = fs[rows[live].path]
    BY <1>2, <1>3, RowFacts DEF Wiped
  <2> HIDE DEF main, live
  <2>3. PurgeHeld(h)'
    BY <1>1, <1>2, <1>4, <2>1, <2>2 DEF PurgeHeld, FileThere, main, live
  <2> QED BY <1>1, <1>2, <1>4, <2>3 DEF HeldOK, main, live
<1>8. Watched'
  <2>1. \A g \in Handlers : g = h
    BY DEF Undisturbed, OneAtATime
  <2>2. \A e \in ToSet(events) : fs[e.path] = Nothing => fs'[e.path] = Nothing
    BY <1>3, EventFacts DEF Wiped
  <2> QED BY <1>1, <1>3, <1>4, <2>1, <2>2, WatchedKept
<1> QED BY <1>1, <1>5, <1>6, <1>7, <1>8, OneSettled

LEMMA PurgeLiveFilesSettled == ASSUME Undisturbed, Sound, Settled, NEW h \in Handlers, PurgeLiveFiles(h) PROVE Settled'
<1> DEFINE main == handler[h].main
           live == handler[h].live
<1>1. /\ Busy(h) /\ handler[h].op = "purge" /\ handler[h].pc = "live"
      /\ UNCHANGED <<rows, fresh, purged, removing, prune, prunes, crashes>>
  BY DEF PurgeLiveFiles, At, Busy, pruneVars
<1>2. /\ PurgeHeld(h) /\ HeldOK(h) /\ HandlersTyped /\ UniquePaths
      /\ main \in DOMAIN rows /\ handler[h].src \in Paths
      /\ live \in DOMAIN rows => rows[live].path.dir = live
      /\ Held(h) = {main, live}
      /\ \A j \in DOMAIN rows : j \notin {main, live} =>
           Found(j) /\ rows[j].path \in Paths /\ (live \in DOMAIN rows => rows[j].path.dir # live)
  BY <1>1, PurgeFacts
<1>3. IF live \in DOMAIN rows THEN fs' = Wiped(live) /\ UNCHANGED events ELSE UNCHANGED <<fs, events>>
  <2>1. live \in DOMAIN rows => rows[live].path.dir = live /\ live # Gallery
    BY <1>1, PurgeFacts
  <2> QED BY <2>1 DEF PurgeLiveFiles, Wipe
<1>4. /\ handler'[h].pc = "liverow" /\ handler'[h].op = "purge"
      /\ handler'[h].main = main /\ handler'[h].id = handler[h].id /\ handler'[h].live = live
      /\ handler'[h].src = handler[h].src
  BY <1>1, <1>2, GotoFields DEF PurgeLiveFiles
<1>5. ASSUME NEW j \in DOMAIN rows', j \notin Held(h)' PROVE Found(j)'
  <2>1. j \in DOMAIN rows /\ j \notin {main, live}
    BY <1>1, <1>2, <1>4, <1>5 DEF Held, Busy, PurgeHeld
  <2>2. fs'[rows[j].path] = fs[rows[j].path]
    BY <1>2, <1>3, <2>1 DEF Wiped
  <2> QED BY <1>1, <1>2, <2>1, <2>2, FoundKept
<1>6. UniquePaths'
  BY <1>1, <1>2 DEF UniquePaths
<1>7. HeldOK(h)'
  <2>1. fs'[handler[h].src] = Nothing
    BY <1>1, <1>2, <1>3 DEF Wiped, PurgeHeld
  <2>2. live \in DOMAIN rows => fs'[rows[live].path] = Nothing
    BY <1>2, <1>3, RowFacts DEF Wiped
  <2> HIDE DEF main, live
  <2>3. PurgeHeld(h)'
    BY <1>1, <1>2, <1>4, <2>1, <2>2 DEF PurgeHeld, main, live
  <2> QED BY <1>1, <1>2, <1>4, <2>3 DEF HeldOK, main, live
<1>8. Watched'
  <2>1. \A g \in Handlers : g = h
    BY DEF Undisturbed, OneAtATime
  <2>2. UNCHANGED events /\ \A e \in ToSet(events) : fs[e.path] = Nothing => fs'[e.path] = Nothing
    BY <1>3, EventFacts DEF Wiped
  <2> QED BY <1>1, <1>4, <2>1, <2>2, WatchedKept
<1> QED BY <1>1, <1>5, <1>6, <1>7, <1>8, OneSettled

\* The video's row stays: the photo's names it.
LEMMA PurgeLiveRowSettled == ASSUME Undisturbed, Sound, Settled, NEW h \in Handlers, PurgeLiveRow(h) PROVE Settled' /\ DOMAIN rows' = DOMAIN rows
<1> DEFINE main == handler[h].main
           live == handler[h].live
<1>1. /\ Busy(h) /\ handler[h].op = "purge" /\ handler[h].pc = "liverow"
      /\ UNCHANGED <<fs, fresh, purged, events, removing, prune, prunes, crashes>>
  BY DEF PurgeLiveRow, At, Busy, watchVars, pruneVars
<1>2. /\ PurgeHeld(h) /\ HeldOK(h) /\ HandlersTyped /\ UniquePaths
      /\ main \in DOMAIN rows /\ Held(h) = {main, live}
      /\ \A j \in DOMAIN rows : j \notin {main, live} => Found(j)
  BY <1>1, PurgeFacts
<1>3. DOMAIN rows' = DOMAIN rows /\ \A j \in DOMAIN rows : rows'[j] = rows[j]
  <2>1. Referenced(live)
    BY <1>2 DEF PurgeHeld, Referenced
  <2> QED BY <2>1 DEF PurgeLiveRow, Deleted
<1>4. /\ handler'[h].pc = "row" /\ handler'[h].op = "purge"
      /\ handler'[h].main = main /\ handler'[h].id = handler[h].id /\ handler'[h].live = live
      /\ handler'[h].src = handler[h].src
  BY <1>1, <1>2, GotoFields DEF PurgeLiveRow
<1>5. ASSUME NEW j \in DOMAIN rows', j \notin Held(h)' PROVE Found(j)'
  <2>1. j \in DOMAIN rows /\ j \notin {main, live}
    BY <1>1, <1>2, <1>3, <1>4, <1>5 DEF Held, Busy, PurgeHeld
  <2> QED BY <1>1, <1>2, <1>3, <2>1, FoundKept
<1>6. UniquePaths'
  BY <1>1, <1>2, <1>3 DEF UniquePaths
<1>7. HeldOK(h)'
  <2>1. PurgeHeld(h)'
    BY <1>1, <1>2, <1>3, <1>4 DEF PurgeHeld
  <2> QED BY <1>1, <1>2, <1>3, <1>4, <2>1 DEF HeldOK
<1>8. Watched'
  <2>1. \A g \in Handlers : g = h
    BY DEF Undisturbed, OneAtATime
  <2> QED BY <1>1, <1>4, <2>1, WatchedKept
<1> QED BY <1>1, <1>3, <1>5, <1>6, <1>7, <1>8, OneSettled

LEMMA PurgeRowSettled ==
    ASSUME Undisturbed, Sound, Settled, NEW h \in Handlers, PurgeRow(h)
    PROVE  Settled' /\ \A i \in DOMAIN rows \ DOMAIN rows' : rows[i].content \in purged
<1> DEFINE main == handler[h].main
           live == handler[h].live
<1>1. /\ Busy(h) /\ handler[h].op = "purge" /\ handler[h].pc = "row" /\ Ends(h)
      /\ UNCHANGED <<fs, fresh, purged, events, removing, prune, prunes, crashes>>
  BY DEF PurgeRow, At, Busy, watchVars, pruneVars
<1>2. /\ PurgeHeld(h) /\ HeldOK(h) /\ HandlersTyped /\ UniquePaths
      /\ main \in DOMAIN rows /\ main # Companion /\ main # live /\ Held(h) = {main, live}
      /\ live \in DOMAIN rows => main = Still /\ live = Companion
      /\ \A j \in DOMAIN rows : j \notin {main, live} => Found(j)
  BY <1>1, PurgeFacts
<1>3. DOMAIN rows' = DOMAIN rows \ {main} /\ \A j \in DOMAIN rows' : rows'[j] = rows[j]
  <2>1. ~Referenced(main)
    BY <1>2, RowFacts DEF Referenced
  <2> QED BY <2>1 DEF PurgeRow, Deleted, Without
<1>4. ~Busy(h)' /\ HeldOK(h)'
  BY <1>1, <1>2, EndsFields DEF HeldOK, Busy
<1>5. ASSUME NEW j \in DOMAIN rows' PROVE Found(j)'
  <2>1. j \in DOMAIN rows /\ j # main
    BY <1>3, <1>5
  <2>2. CASE j = live
    <3>1. /\ j = Companion /\ Still \notin DOMAIN rows' /\ rows'[j] = rows[j] /\ rows[j].deleted
          /\ rows[j].content \in purged /\ fs[rows[j].path] = Nothing
      BY <1>1, <1>2, <1>3, <2>1, <2>2 DEF PurgeHeld
    <3> QED BY <1>1, <3>1 DEF Found, Ghost
  <2>3. CASE j # live
    BY <1>1, <1>2, <1>3, <2>1, <2>3, FoundKept
  <2> QED BY <2>2, <2>3
<1>6. UniquePaths'
  BY <1>2, <1>3 DEF UniquePaths
<1>7. Watched'
  <2>1. \A g \in Handlers : g = h
    BY DEF Undisturbed, OneAtATime
  <2> QED BY <1>1, <1>4, <2>1, WatchedKept
<1>8. rows[main].content \in purged
  BY <1>2 DEF PurgeHeld
<1> QED BY <1>1, <1>3, <1>4, <1>5, <1>6, <1>7, <1>8, OneSettled

\* The steps of the watcher, the indexer and the user.
LEMMA NothingHappens ==
    ASSUME Settled, UNCHANGED <<rows, fs, handler, purged, events, removing, prune, prunes, crashes>>
    PROVE  Settled'
<1>1. RowsFound'
  BY DEF Settled, RowsFound, Held, Busy, Found, FileThere, Ghost
<1>2. UniquePaths' /\ NoPrune' /\ Watched'
  BY DEF Settled, UniquePaths, NoPrune, Watched, Busy
<1>3. ASSUME NEW h \in Handlers PROVE HeldOK(h)'
  BY DEF Settled, HeldOK, Busy, TrashHeld, RestoreHeld, PurgeHeld, PathTaken, FileThere
<1> QED BY <1>1, <1>2, <1>3 DEF Settled

LEMMA EventHandled ==
    ASSUME Settled, UNCHANGED <<rows, fs, handler, purged, removing, prune, prunes, crashes>>, ToSet(events') \subseteq ToSet(events)
    PROVE  Settled'
<1>1. RowsFound'
  BY DEF Settled, RowsFound, Held, Busy, Found, FileThere, Ghost
<1>2. UniquePaths' /\ NoPrune' /\ Watched'
  BY DEF Settled, UniquePaths, NoPrune, Watched, Busy
<1>3. ASSUME NEW h \in Handlers PROVE HeldOK(h)'
  BY DEF Settled, HeldOK, Busy, TrashHeld, RestoreHeld, PurgeHeld, PathTaken, FileThere
<1> QED BY <1>1, <1>2, <1>3 DEF Settled

\* No row in the gallery has the path of a removal on its way to the watcher.
LEMMA RemovedIsNobodys ==
    ASSUME Undisturbed, Sound, Settled, NEW e \in ToSet(events), e.kind = "remove"
    PROVE  Live(e.path) = {}
<1> SUFFICES ASSUME NEW i \in DOMAIN rows, rows[i].path = e.path, ~rows[i].deleted PROVE FALSE
  BY DEF Live
<1>1. fs[e.path] = Nothing /\ rows[i].content # Nothing /\ \A h \in Handlers : Busy(h) => handler[h].op # "restore"
  BY RowFacts DEF Settled, Watched
<1>2. ~Found(i)
  BY <1>1 DEF Found, FileThere, Ghost
<1>3. PICK h \in Handlers : i \in Held(h)
  BY <1>2 DEF Settled, RowsFound
<1>4. Busy(h) /\ handler[h].op \in {"trash", "purge"}
  BY <1>1, <1>3, BusyFacts DEF Held, Sound, Ops
<1>5. CASE handler[h].op = "trash"
  <2>1. i = handler[h].id /\ TrashOK(h) /\ TrashHeld(h) /\ handler[h].pc \in PlacesOf["trash"]
    BY <1>3, <1>4, <1>5, HeldFacts, BusyFacts DEF Held, Sound
  <2>2. handler[h].pc \in {"trash"} \cup Moving
    BY <1>4, <2>1 DEF PlacesOf, Busy
  <2> QED BY <1>1, <2>1, <2>2 DEF TrashOK, TrashHeld, RowIs, FileThere
<1>6. CASE handler[h].op = "purge"
  BY <1>3, <1>4, <1>6, PurgeFacts DEF PurgeHeld
<1> QED BY <1>4, <1>5, <1>6

LEMMA WatcherSettled ==
    ASSUME Undisturbed, Sound, Settled, WatchCreate \/ WatchRemove \/ WatchRemoveRow
    PROVE  Settled' /\ UNCHANGED rows
<1>1. removing = NoId /\ events \in Seq(EventSet)
  BY DEF Settled, Watched, Sound, Typed, WatchTyped
<1>2. CASE WatchCreate
  <2>1. ToSet(events') \subseteq ToSet(events)
    BY <1>1, <1>2, TailSet DEF WatchCreate
  <2> QED BY <1>2, <2>1, EventHandled DEF WatchCreate, pruneVars
<1>3. CASE WatchRemove
  <2>1. Head(events) \in ToSet(events) /\ Head(events).kind = "remove" /\ ToSet(events') \subseteq ToSet(events)
    BY <1>1, <1>3, TailSet DEF WatchRemove
  <2>2. removing' = NoId
    BY <1>3, <2>1, RemovedIsNobodys DEF WatchRemove
  <2> QED BY <1>1, <1>3, <2>1, <2>2, EventHandled DEF WatchRemove, pruneVars
<1>4. ~WatchRemoveRow
  BY <1>1 DEF WatchRemoveRow
<1> QED BY <1>2, <1>3, <1>4

\* A user who waits for the watcher puts a file where no row and no event points.
LEMMA NewFileSettled == ASSUME Undisturbed, Sound, Settled, NewFile PROVE Settled'
<1> DEFINE p == GalleryPath(ContentOf[Still])
<1>1. /\ \A h \in Handlers : ~Busy(h)
      /\ p \in Paths /\ p.dir = Gallery /\ fs[p] = Nothing /\ events = <<>>
      /\ UNCHANGED <<rows, handler, purged, removing, prune, prunes, crashes>>
      /\ events' = Heard(events, Created(p)) /\ fs' = [fs EXCEPT ![p] = Newcomer]
  BY PathFacts DEF NewFile, Undisturbed, Calm, AllIdle, Busy, pruneVars
<1> HIDE DEF p
<1>2. \A q \in Paths : q # p => fs'[q] = fs[q]
  BY <1>1 DEF Sound, Typed, DiskTyped
<1>3. ASSUME NEW i \in DOMAIN rows PROVE Found(i) /\ rows[i].path \in Paths /\ rows[i].path # p
  <2>1. Found(i)
    BY <1>1 DEF Settled, RowsFound, Held
  <2>2. CASE FileThere(i)
    BY <1>1, <2>1, <2>2, RowFacts DEF FileThere
  <2>3. CASE Ghost(i)
    BY <1>1, <2>1, <2>3, RowFacts DEF Ghost
  <2> QED BY <2>1, <2>2, <2>3 DEF Found
<1>4. RowsFound'
  <2>1. ASSUME NEW i \in DOMAIN rows' PROVE Found(i)'
    BY <1>1, <1>2, <1>3, FoundKept
  <2> QED BY <2>1 DEF RowsFound
<1>5. UniquePaths' /\ NoPrune'
  BY <1>1 DEF Settled, UniquePaths, NoPrune
<1>6. Watched'
  <2>1. events \in Seq(EventSet) /\ Created(p) \in EventSet /\ Created(p).kind = "create"
    BY <1>1 DEF Sound, Typed, WatchTyped, EventSet, Created
  <2>2. ToSet(events) = {}
    BY <1>1 DEF ToSet
  <2>3. ToSet(events') \subseteq {Created(p)}
    BY <1>1, <2>1, <2>2, HeardSet
  <2> QED BY <1>1, <2>1, <2>3 DEF Settled, Watched
<1>7. \A h \in Handlers : HeldOK(h)'
  BY <1>1 DEF HeldOK, Busy
<1> QED BY <1>4, <1>5, <1>6, <1>7 DEF Settled

\* The indexer gives a row only to a file that no row knows.
LEMMA IndexSettled ==
    ASSUME Undisturbed, Sound, Settled, NEW p \in toIndex, Index(p)
    PROVE  Settled' /\ DOMAIN rows \subseteq DOMAIN rows'
<1>0. /\ UNCHANGED <<fs, handler, purged, events, removing, prune, prunes, crashes>>
      /\ RowsFound /\ UniquePaths /\ Watched /\ NoPrune /\ \A h \in Handlers : HeldOK(h)
      /\ fresh \subseteq Ids /\ fresh \cap DOMAIN rows = {} /\ fresh \cap DOMAIN ContentOf = {}
  BY DEF Index, pruneVars, Settled, Sound, Typed, RowsTyped, DirsOwned
<1>1. CASE UNCHANGED rows
  BY <1>0, <1>1, NothingHappens
<1>2. CASE fs[p] # Nothing /\ ~Known(p)
  <2>1. \A i \in DOMAIN rows : rows[i].content # fs[p] /\ rows[i].path # p
    BY <1>2, SettledOwn DEF Known, HoldsOwn
  <2>2. PICK new \in fresh : rows' = [i \in DOMAIN rows \cup {new} |-> IF i = new THEN NewRow(p) ELSE rows[i]]
    BY <1>2, <2>1 DEF Index, Changed
  <2>3. /\ DOMAIN rows' = DOMAIN rows \cup {new} /\ new \notin DOMAIN rows /\ new # Still /\ new # Companion /\ new # NoId
        /\ rows'[new].path = p /\ rows'[new].content = fs[p] /\ \A i \in DOMAIN rows : rows'[i] = rows[i]
    BY <1>0, <2>2, PathFacts DEF NewRow
  <2>4. RowsFound'
    <3>1. ASSUME NEW i \in DOMAIN rows', \A h \in Handlers : i \notin Held(h)' PROVE Found(i)'
      <4>1. CASE i = new
        BY <1>0, <2>3, <4>1 DEF Found, FileThere
      <4>2. CASE i # new
        <5>1. i \in DOMAIN rows /\ Found(i)
          BY <1>0, <2>3, <3>1, <4>2 DEF RowsFound, Held, Busy
        <5> QED BY <1>0, <2>3, <5>1, FoundKept
      <4> QED BY <4>1, <4>2
    <3> QED BY <3>1 DEF RowsFound
  <2>5. UniquePaths'
    BY <1>0, <2>1, <2>3 DEF UniquePaths
  <2>6. ASSUME NEW h \in Handlers, Busy(h) PROVE HeldOK(h)'
    <3> DEFINE id == handler[h].id
    <3>1. /\ HeldOK(h) /\ id \in DOMAIN rows /\ handler[h].main \in DOMAIN rows /\ rows[id].content # Nothing
          /\ handler'[h] = handler[h] /\ Busy(h)' /\ handler[h].pc \in PlacesOf[handler[h].op]
      BY <1>0, <2>6, HeldFacts, RowFacts, BusyFacts DEF Sound, Busy
    <3>2. CASE handler[h].op = "trash"
      <4>1. TrashHeld(h)
        BY <2>6, <3>2, HeldFacts
      <4>2. handler[h].pc \in {"move", "copied"} => p # handler[h].src
        BY <2>1, <3>1, <4>1 DEF TrashHeld
      <4>3. TrashHeld(h)'
        BY <1>0, <2>3, <3>1, <4>1, <4>2 DEF TrashHeld, FileThere, PathTaken
      <4> QED BY <2>3, <2>6, <3>1, <3>2, <4>3 DEF HeldOK
    <3>3. CASE handler[h].op = "restore"
      <4>1. RestoreHeld(h) /\ RestoreOK(h) /\ rows[id].path = handler[h].src /\ HandlerOK(h)
        BY <2>6, <3>3, HeldFacts
      <4>2. handler[h].pc \in {"stat", "move", "copied", "moved"}
        BY <3>1, <3>3 DEF PlacesOf, Moving
      <4>3. handler[h].pc # "stat" => fs[handler[h].dst] \in {Nothing, rows[id].content}
        BY <2>6, <4>1, <4>2 DEF RestoreHeld, RestoreOK, HandlerOK, FileThere
      <4>4. handler[h].pc # "stat" => p # handler[h].dst
        BY <1>2, <2>1, <3>1, <4>3
      <4>5. RestoreHeld(h)'
        BY <1>0, <2>3, <3>1, <4>1, <4>4 DEF RestoreHeld, FileThere, PathTaken
      <4> QED BY <2>3, <2>6, <3>1, <3>3, <4>5 DEF HeldOK
    <3>4. CASE handler[h].op = "purge"
      <4>1. PurgeHeld(h) /\ handler[h].live # new
        BY <2>3, <2>6, <3>1, <3>4, PurgeFacts, RowFacts DEF PurgeHeld
      <4>2. PurgeHeld(h)'
        BY <1>0, <2>3, <3>1, <4>1 DEF PurgeHeld, FileThere
      <4> QED BY <2>3, <2>6, <3>1, <3>4, <4>2 DEF HeldOK
    <3>5. handler[h].op \in Ops
      BY <2>6, BusyFacts DEF Sound
    <3> QED BY <3>2, <3>3, <3>4, <3>5 DEF Ops
  <2>7. \A h \in Handlers : HeldOK(h)'
    BY <1>0, <2>6 DEF HeldOK, Busy
  <2>8. Watched' /\ NoPrune'
    BY <1>0 DEF Watched, NoPrune, Busy
  <2> QED BY <2>3, <2>4, <2>5, <2>7, <2>8 DEF Settled
<1> QED BY <1>1, <1>2 DEF Index

LEMMA BeginSettled ==
    ASSUME Undisturbed, Sound, Settled, NEW h \in Handlers, NEW op \in Requests, NEW id \in Ids, Begin(h, op, id)
    PROVE  Settled' /\ rows' = rows
<1> DEFINE d == IF op = "trash" THEN TrashPath(id, rows[id].path) ELSE rows[id].orig
           x == IF op = "restore" THEN "stat" ELSE op
           l == [pc |-> x, op |-> op, main |-> id, id |-> id, live |-> rows[id].live, src |-> rows[id].path, dst |-> d]
           live == rows[id].live
<1>1. /\ id \in DOMAIN rows /\ op \in {"trash", "restore", "purge"} /\ id # Companion /\ ~Busy(h)
      /\ (rows[id].deleted <=> op # "trash")
      /\ handler' = [handler EXCEPT ![h] = l] /\ purged \subseteq purged'
      /\ UNCHANGED <<rows, fs, events, removing, prune, prunes, crashes>>
      /\ events = <<>> /\ removing = NoId
      /\ op = "purge" => \A i \in {id, live} \cap DOMAIN rows : rows[i].content \in purged'
      /\ op = "purge" /\ live \in DOMAIN rows => rows[live].deleted
  BY TrashAssumption DEF Begin, CarefulRequest, Calm, Undisturbed, Busy, watchVars, pruneVars
<1>2. handler'[h] = l
  BY <1>1 DEF Sound, Typed, HandlersTyped
<1>3. \A i \in DOMAIN rows : Found(i)
  BY <1>1 DEF Settled, RowsFound, Held, Undisturbed, OneAtATime
<1>4. FileThere(id) /\ (live # NoId => id = Still /\ live = Companion)
  BY <1>1, <1>3, RowFacts DEF Found, Ghost
<1>5. live \in DOMAIN rows => FileThere(live)
  BY <1>1, <1>3, <1>4, RowFacts DEF Found, Ghost
<1>6. HeldOK(h)'
  <2> HIDE DEF d
  <2>1. CASE op = "trash"
    <3>1. TrashHeld(h)'
      BY <1>1, <1>2, <1>4, <2>1 DEF TrashHeld, FileThere
    <3> QED BY <1>1, <1>2, <1>4, <2>1, <3>1 DEF HeldOK
  <2>2. CASE op = "restore"
    <3>1. RestoreHeld(h)'
      BY <1>1, <1>2, <1>4, <2>2 DEF RestoreHeld, FileThere
    <3> QED BY <1>1, <1>2, <1>4, <2>2, <3>1 DEF HeldOK
  <2>3. CASE op = "purge"
    <3>1. PurgeHeld(h)'
      BY <1>1, <1>2, <1>4, <1>5, <2>3 DEF PurgeHeld, FileThere
    <3> QED BY <1>1, <1>2, <1>4, <2>3, <3>1 DEF HeldOK
  <2> QED BY <1>1, <2>1, <2>2, <2>3
<1>7. \A i \in DOMAIN rows' : Found(i)'
  BY <1>1, <1>3, FoundKept
<1>8. UniquePaths'
  BY <1>1 DEF Settled, UniquePaths
<1>9. Watched'
  BY <1>1 DEF Watched, ToSet
<1> QED BY <1>1, <1>6, <1>7, <1>8, <1>9, OneSettled

\* Updates and moves leave every row in place.
LEMMA HandlerStepSettled ==
    ASSUME Undisturbed, Sound, Settled, NEW h \in Handlers, HandlerStep(h)
    PROVE  Settled' /\ \A i \in DOMAIN rows \ DOMAIN rows' : rows[i].content \in purged
<1>1. CASE MarkTrashed(h) \/ MoveFails(h) \/ RestoreUpdate(h)
  <2>1. Settled'
    BY <1>1, MarkTrashedSettled, MoveFailsSettled, RestoreUpdateSettled
  <2>2. DOMAIN rows' = DOMAIN rows
    BY <1>1 DEF MarkTrashed, MoveFails, MoveUndone, RestoreUpdate, Updated
  <2> QED BY <2>1, <2>2
<1>2. CASE Move(h) \/ Copy(h) \/ RemoveSource(h) \/ TrashMoved(h) \/ RestoreStat(h) \/ PurgeFiles(h) \/ PurgeLiveFiles(h)
  <2>1. Settled'
    BY <1>2, MoveSettled, CopySettled, RemoveSourceSettled, TrashMovedSettled, RestoreStatSettled, PurgeFilesSettled,
       PurgeLiveFilesSettled
  <2>2. rows' = rows
    BY <1>2 DEF Move, Copy, RemoveSource, TrashMoved, RestoreStat, PurgeFiles, PurgeLiveFiles
  <2> QED BY <2>1, <2>2
<1>3. CASE PurgeLiveRow(h) \/ PurgeRow(h)
  BY <1>3, PurgeLiveRowSettled, PurgeRowSettled
<1>4. ~MarkFails(h)
  BY DEF MarkFails, Undisturbed
<1>5. ~RestoreUpdateFails(h)
  <2> SUFFICES ASSUME RestoreUpdateFails(h) PROVE FALSE
    OBVIOUS
  <2>1. Busy(h) /\ handler[h].op = "restore" /\ handler[h].pc = "moved"
    BY DEF RestoreUpdateFails, At, Busy
  <2> QED BY <2>1, HeldFacts DEF RestoreUpdateFails, RestoreHeld, Undisturbed
<1> QED BY <1>1, <1>2, <1>3, <1>4, <1>5 DEF HandlerStep

LEMMA StepSettled ==
    ASSUME Undisturbed, Sound, Settled, [Next]_vars
    PROVE  Settled' /\ \A i \in DOMAIN rows \ DOMAIN rows' : rows[i].content \in purged
<1>1. ASSUME NEW h \in Handlers, HandlerStep(h) PROVE Settled' /\ \A i \in DOMAIN rows \ DOMAIN rows' : rows[i].content \in purged
  BY <1>1, HandlerStepSettled
<1>2. ASSUME NEW h \in Handlers, NEW op \in Requests, NEW id \in Ids, Begin(h, op, id) PROVE Settled' /\ rows' = rows
  BY <1>2, BeginSettled
<1>3. ASSUME NEW p \in toIndex, Index(p) PROVE Settled' /\ DOMAIN rows \subseteq DOMAIN rows'
  BY <1>3, IndexSettled
<1>4. CASE WatchCreate \/ WatchRemove \/ WatchRemoveRow
  BY <1>4, WatcherSettled
<1>5. CASE NewFile
  <2>1. rows' = rows
    BY <1>5 DEF NewFile
  <2> QED BY <1>5, <2>1, NewFileSettled
<1>6. CASE UNCHANGED vars
  BY <1>6, NothingHappens DEF vars, watchVars, pruneVars
<1>7. ~PruneQuery /\ ~PruneEnd /\ ~Crash /\ (\A s : ~PruneStat(s)) /\ \A id : ~PruneDelete(id)
  <2>1. prune.pc = "idle" /\ prunes = 0 /\ crashes = 0
    BY DEF Settled, NoPrune, IdlePrune
  <2> QED BY <2>1 DEF PruneQuery, PruneEnd, Crash, PruneStat, PruneDelete, Undisturbed
<1>8. CASE \E h \in Handlers : HandlerStep(h)
  BY <1>1, <1>8
<1>9. CASE \E h \in Handlers, op \in Requests, id \in Ids : Begin(h, op, id)
  BY <1>2, <1>9
<1>10. CASE \E p \in toIndex : Index(p)
  BY <1>3, <1>10
<1> QED BY <1>4, <1>5, <1>6, <1>7, <1>8, <1>9, <1>10 DEF Next

LEMMA SettledHolds == Undisturbed => (Spec => [](Sound /\ Settled))
<1> SUFFICES ASSUME Undisturbed PROVE Spec => [](Sound /\ Settled)
  OBVIOUS
<1>1. Init => Sound /\ Settled
  BY InitSound, InitSettled
<1>2. Sound /\ Settled /\ [Next]_vars => (Sound /\ Settled)'
  BY CautiousThen, SettledOwn, StepSound, StepSettled
<1> QED BY <1>1, <1>2, PTL DEF Spec

\* Between requests every row names a file with its content, although row and file are
\* changed in separate steps: where requests come one by one and wait for the watcher,
\* whatever moves fail, and whatever the user puts where a photo was.
THEOREM RowsCorrect == ASSUME Undisturbed PROVE Spec => []RowFindsFile
<1>1. Sound /\ Settled => RowFindsFile
  <2> SUFFICES ASSUME Sound, Settled, AllIdle, NEW i \in DOMAIN rows
               PROVE  rows[i].content \in purged \/ fs[rows[i].path] = rows[i].content
    BY DEF RowFindsFile
  <2>1. Found(i)
    BY DEF Settled, RowsFound, Held, Busy, AllIdle
  <2> QED BY <2>1 DEF Found, FileThere, Ghost
<1> QED BY <1>1, SettledHolds, PTL

\* moveToTrash: the row is flipped first so that the late event "cannot hard-delete this
\* row".  Under the same conditions a row goes only when its photo was purged.
THEOREM IdentityCorrect == ASSUME Undisturbed PROVE Spec => IdentityKept
<1>1. Sound /\ Settled /\ [Next]_vars =>
        [\A i \in DOMAIN rows \ DOMAIN rows' : rows[i].content \in purged \/ ~OnDisk(rows[i].content)]_vars
  BY StepSettled
<1> QED BY <1>1, SettledHolds, PTL DEF Spec, IdentityKept

\* And no photo leaves the disk but by a purge, even where the user puts another file in
\* its place.
THEOREM ContentStays == ASSUME Undisturbed PROVE Spec => []ContentKept
<1> DEFINE Inv == Sound /\ Settled /\ ContentKept
<1>1. Init => ContentKept
  BY InitKept
<1>2. Sound /\ [Next]_vars /\ ContentKept => ContentKept'
  BY CautiousThen, StepContentKept
<1> QED BY <1>1, <1>2, SettledHolds, PTL DEF Spec

=============================================================================
