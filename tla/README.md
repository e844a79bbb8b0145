# A TLA+ model of NimoOS-Photos

This directory holds a formal model of NimoOS-Photos: TLA+ modules translated
from the Go source, TLC configurations that check them on small instances, and
TLAPS proofs of theorems that hold for every value of the constants.
`PROJECT.json` lists the components, the runs, the source lines every definition
stands for, the hazards, the findings and the theorems.

    tlasany Ingest.tla                               parse
    tlc -workers 2 -config MCFiles.cfg MCFiles       check one instance
    tlapm IngestProofs.tla                           check the proofs

## 1. The system

The service watches media directories, indexes what it finds, and serves a photo
library with search, people, albums, moments, places and a trash. Files reach it
from five sides: TUS uploads, inotify events, message-bus events of the Files
application, scheduled full scans, and removable drives that come and go.

| component | state it keeps | operations | what makes it correct |
|---|---|---|---|
| **ingest queue** (`service/indexer.go`) | `seen` markers, queue channel of 1024, `pendingAlbum` | Enqueue, MarkAndReserve / SubmitReserved, worker loop, delayed release | one copy of a path in flight; markers are released; album entries ride with their upload and do not leak |
| **batch tracker** (`indexer.go`) | per batch: declared or growing total, enqueued, current, idle timer | noteEnqueue, noteResult, onIdle, clean-up | no file lost or counted twice; done announced once, never early, and in the end |
| **indexing pipeline** (`indexer.go`) | rows of `assets` with checksum, stamp, status; thumbnails | processFileInternal, ForceReprocess, ScanPending | the stamp never vouches for bytes that were not hashed; in the end the rows show the files |
| **TUS ingestion, upload store** (`route/v1/tus.go`, `service/uploadstore`) | staged file, upload row, its name in the gallery | four event goroutines, cancel, GC, staging clean-up | a finished upload stays finished, and no upload overwrites one that waits to be indexed |
| **scan, prune** (`indexer.go`) | list of paths; rows read, rows to delete | ScanAllRoots, ScanDirectory, ScanDirectoryOnce; query, stat loop, interlock, delete | may overlap with workers and each other; deletes no row of a file that exists |
| **watcher** (`service/watcher.go`) | inotify watches, walks under way | file and directory events, overflow rescan, restart, mount polling | no file of a watched root is missed; no watched root is forgotten |
| **message bus** (`service/busdelete.go`) | connection, backoff | read deletions, remove rows, prune below folders | what was announced is removed, and nothing else |
| **trash** (`service/trash.go`) | rows' `file_path`, `original_path`, `deleted_at`; files | trash, restore, purge, with Live Photo companions | no photo lost without a purge; no row lost with a photo |
| **mount guard** (`service/mountguard.go`) | `assets.offline`, mount snapshot, recoveries in flight | startup alignment, 30 s poll, recovery | flags follow the mount table through failures; recovered drives are watched and scanned |
| **backfill gate** (`service/backfillgate.go`) | per chain: lastRun, inFlight, timer, pendingFn | Run, complete, firePending | one execution at a time; merged triggers are answered |
| **embedder, retry ledger, rebuild** (`embedder.go`, `backfillretry.go`, `rebuild.go`) | readiness, rerun flags, failure rows, model generation | Backfill, retry, re-embed everything, stamp | no trigger is lost; after a stamp no vector is of the old model |
| **text and verdicts** (`embedder.go`, `docverdict.go`) | OCR lines, `doc_ver` | BackfillOCR, BackfillDocVerdicts | text and verdict are of the content that is there |
| **caption feed and pull** (`captionfeed.go`, `captionpull.go`) | hand-off flags, attempts | feed, pull, delete remotely | each content is captioned in the end; nothing deleted stays at Parser |
| **sharpness backfill** (`quality_backfill.go`) | scores, marker file | one pass in the life of a library | the marker is not written before the pass saw every row |
| **ML watchdog** (`mlwatchdog.go`) | failure count, last restart | tick, restart, ready transition | a wedged container is restarted and the work left behind caught up |
| **faces, persons** (`faces.go`, `persons.go`) | detections, bindings, names, hidden, purge_at, covers | detect, cluster, name, hide, restore, purge, detach, merge | clusters are the chains of near faces; the user's decisions outlive clustering |
| **albums, summaries** (`album.go`, `album_summary.go`) | members with positions, covers | create, add, reorder, cover, list, get, summarise | the tables stay sound and all reads agree |
| **smart views** (`smartview.go`) | matches: auto, pinned, excluded | evaluate, pin, remove, restore, convert | evaluations and conversions never undo the user |
| **moments** (`moments*.go`, `momentstore.go`) | moments, members, edits | RecomputeAll, pin, exclude, hide; engines and curation | edits outlive regeneration; journeys are told once |
| **search** (`search.go`, `searchcut.go`) | nothing; pages of the client | SmartSearch with over-fetch, text merge, cut | pages neither gap nor overlap |
| **places, geocoding** (`places.go`, `geo.go`) | `asset_geo`, covers, spot names | BackfillPending; list, visits, spots, album of a place | a photo is listed where it was taken; the pages agree |
| **sprites** (`sprite.go`) | in-flight map, semaphore, failure ledger | generate, join, backfill | one ffmpeg per output; every video has one in the end |
| **storage** (`storage.go`) | cached walk, generation | Stats, walk, Prune | what was freed is not offered again |
| **task registry** (`tasks.go`) | tasks, publish times | Upsert, Remove, stale sweep | the client ends with what the registry holds |
| **timeline, views, profile, settings, HTTP handlers** | rows in SQLite, one JSON file | read, decode, encode | read-only |

How they interact. The watcher, the bus and the scans call the indexer; a TUS
upload reserves its path in the indexer before it moves the file where the
watcher will see it. The indexer's `onBatchDone` starts the face pipeline, the
geocoder, the live smart views, the moments and the gated chains
`post-batch-backfill` and `sprite-backfill`; the ML server's readiness starts
`ml-recovery`. The mount guard restarts the watcher, scans the returned drive and
calls the embedder. The trash moves files the watcher watches and rows the prune
reads. All of them share one SQLite database (WAL, foreign keys on,
`busy_timeout` 5 s: a statement can fail as busy) and no transaction spans a file
operation.

The hard behaviours are therefore: two goroutines about the same path or row; a
marker, timer or slot found by a key that meanwhile stands for something else;
what was read in one statement and written back in a later one; a row and a file
changed in two steps; events handled late, lost or in another order; drives that
leave in the middle; external services that fail or forget; statements whose
error is ignored; a crash between two steps. `PROJECT.json` lists the hazards one
by one, each at its line, with the properties about it.

## 2. The modules

One action is one critical section, one SQL statement or transaction, one call on
the file system, or one call of an external service; what a goroutine keeps in
local variables between two of them is in its record. Contents are versions,
embeddings are which items are near, scores are small numbers. A constant that
names a race (`Overlap`, `PinInEval`, ...) says whether the environment may do
that; section 3 says what happens when it does.

### Ingestion, trash, drives

`Ingest` is the indexer's queue, the batch tracker and the TUS goroutine.

| model | code |
|---|---|
| `seen` | `Indexer.seen`; a path is in the set while it has a marker |
| `queue`, `Capacity` | the channel of `ingestQueueItem` |
| `worker[w]` | the worker loop of `Start`: take, `processFile`, `noteResultWithBatch`, release |
| `enq[e]` | a goroutine inside `Enqueue`: marked, pushed, not yet noted |
| `tus`, `outcome` | the `CompleteUploads` goroutine inside `ingestStagedFile`, and what each upload came to |
| `pendingAlbum`, `inAlbum` | `Indexer.pendingAlbum`; calls of `albumAssigner` |
| `batches` | `ingestTracker.batches`; `mode` is `absent`, `fixed` or `growing` |
| `timer`, `fired`, `finishing`, `cleanup` | the idle timer; timers fired whose `onIdle` has not run; `onIdle` calls between unlock and done; sleeping clean-up goroutines |
| `echo[p]` | `time.AfterFunc(tusEchoSuppress)` calls pending for a path |
| `announced[b]` | done tasks published |

A timer that has fired can no longer be stopped, as with `time.Timer.Stop`.
`IngestScan` extends `Ingest` with scans: `ScanDirectory` indexes a path without
a marker and deletes the marker afterwards; removals delete it too.

`Trash` is rows, files, up to two concurrent requests, the watcher's late events,
the indexer and the prune. A path is a directory (gallery, or the trash directory
of an id), a name and a "(restored n)" suffix. `MarkTrashed` is the UPDATE before
the move, `Move` the rename, `Copy` and `RemoveSource` the EXDEV path, `MoveFails`
the rollback, `RestoreStat` / `Move` / `RestoreUpdate` the restore, `PurgeFiles` ..
`PurgeRow` the purge. A foreign key refuses to delete a row that another one names
(`Deleted`), and `UNIQUE(file_path)` refuses an UPDATE (`PathTaken`). `Newcomer` is
another photo that the user puts where the first one was.

`MountGuard` is the guard's loop against drives that are yanked (dead but listed),
unlisted and plugged between any two steps: `last`, `cur`, `next`, `todo` are
`lastMounts`, `checkOnce`'s sets and what its loops have still to visit; `aligned`
says that no UPDATE of the startup alignment failed; `recovery` is the goroutine of
`spawnRecovery`. `MountScan` adds the files on the drives, the three scans,
insertion and the prune with its two interlocks, each stat a step.

### Files (composed in `MCFiles`)

| module | code | what it keeps |
|---|---|---|
| `Pipeline` | `processFileInternal`, `ForceReprocess`, `ScanPending`, `RemoveByPath`, `pruneMissingUnder`, `Storage.Prune` | a file is its content version and its stamp (size and mtime); `jobs` are the calls of the pool worker, a scan and ForceReprocess; `thumbs` shows which version a thumbnail was made of |
| `Uploads` | `NewTUSHandler`, `ingestStagedFile`, `uploadstore`, `upload_tasks.go`, `PruneStaging` | `inHand` are events sent and not handled, one channel each; `tasks` the rows; `marks`, `submitted` the indexer's side; `unrecorded` history: whose completion never reached its row |
| `Watching` | `handleEvent`, `trackNewDir`, `walkCovered`, `addRecursiveWatch`, `handleWatchError` | `tracker[d]` is the goroutine of a new directory: covered by an ancestor's or walking, with the folders left and whether a scan is still worth it; `rescan` the overflow rescan and its cooldown; `refused` the watches that failed, `blind` what a lost event or a walk given up left unseen |
| `Bus` | `busdelete.go` | the subscriber's step and backoff, the events on the wire, history of what was told to nobody |
| `Tasks` | `TaskRegistry` | the decision and the send of an Upsert as two steps, delayed removal, stale sweep, what the browsers show |
| `Sprites` | `SpriteGenerator`, `BackfillSprites` | leader, joiners, semaphore, the pass and its cooled-down failures |
| `Storage` | `StorageService` | the walk and its generation, the cache, the prune |
| `Geo` | `GeoService` | the position read and the city written in two steps, by the scheduler and the end of a batch; a new gazetteer |

### Derived data (composed in `MCDerived`)

| module | code | what it keeps |
|---|---|---|
| `BackfillGate`, `GateSpec` | `backfillGate` | `executing` and `completing` count the goroutines in `fn` and before `complete`'s lock; time is "inside the window or not". `GateSpec` is the promise; the gate implements it under `running <- inFlight`, `wanted <- pendingFn`, `window <- withinWindow` |
| `Vectors` | `writeClipEmbedding`, `Embedder.Backfill`, `backfillretry.go`, `BackfillAesthetic`, `rebuild.go` | index row and vector separately, since they are two INSERTs; the generation of each vector; the ledger's cooldown |
| `Texts` | `ocrAsset`, `BackfillOCR`, `computeDocVerdict`, `BackfillDocVerdicts` | the version the lines and the verdict tell of |
| `Captions` | `captionfeed.go`, `captionpull.go` | the hand-off columns, and what Parser has been asked and has |
| `Sharpness` | `BackfillSharpness` | the snapshot of rows, the marker file; history of what could not be read or written |
| `Watchdog` | `mlwatchdog.go`, `Embedder.tick` | probe, counter and cooldown in ticks; what the poll believes (`lastReady`) and the work left behind (`backlog`) |

### The library (composed in `MCEntities`)

| module | code | what it keeps |
|---|---|---|
| `Clusters` | `DBSCANWithProgress` | workers filling neighbour lists, the atomic counter and its reports, the labelling loop |
| `People` | `FaceService`, `PersonService`, `MergePersons` | detections and bindings, the run (detect, load, cluster, rebuild), the purge sweep, a cover being set |
| `Albums` | `AlbumService`, `album_summary.go` | positions, covers, and what three queries say of them |
| `SmartViews` | `SmartViewService` | two evaluators between read and write, the conversion between its steps and its compensation |
| `Moments` | `RecomputeAll`, `momentstore.go` | recipes, drafts, stored moments with members and edits |
| `Curation` | `moments_trip.go`, `moments_family.go`, `moments_pick.go` | drafts and the picked photos of a given library; `splitByGap` is the code's loop, the windows of a burst and the union-find are stated by the sets they compute |
| `Search` | `SmartSearch`, `searchcut.go` | one fetch with its growing margin, the pages so far |
| `Places` | `places.go`, `route/v1/places.go` | photos with town and spot, user covers and names, the album of a place being made |

`MC*` modules give the constants their values; a cfg changes no definition. The
three composites join components that share no variable: the variable `part`
names the one that runs in a behaviour, so their state counts add up instead of
multiplying, and each property speaks of its own component. Where components do
share state the composition is in the module: the trash with the watcher, the
indexer and the prune; the upload goroutine with the queue and the batches; the
guard with scans, prune and watches; the pipeline with the storage prune.

## 3. The runs

State counts are distinct states of a complete search.

| run | instance | what it shows | states |
|---|---|---|---|
| `ingest_batch` | a batch of 2 (one into an album), a watcher event and a scan of the same paths, a row removed | a batch's counters, album entries, single announcement and (under fairness) its settling, also while scans delete its markers | 697,208 |
| `ingest_faults` | two workers, a queue of 1, a third upload on a used path, one watcher event, moves may fail | one copy in flight; albums ride along; done never early; markers released under fairness | 106,849 |
| `trash_live` | Live Photo, a bystander and a newcomer at the photo's path, five careful requests, failing cross-device moves, late events | rows name files with their content; the row flip protects the row | 51,654 |
| `trash_faults` | one handler, four requests, failing UPDATEs, moves and copies, prune, late events, crash | photos stay on disk | 809,182 |
| `mount_flags` | 2 drives, 3 files, 3 changes, 2 failing UPDATEs | flags match the snapshot, and converge under fairness | 91,837 |
| `mount_keep` | 1 drive, 2 files (one not indexed yet), 3 scanners, 3 changes | the prune keeps rows of existing files | 2,541,519 |
| `derived` | the six components of `MCDerived`: 2 photos (one broken), 2 model generations, an outage, 2 restarts; 2 scans, an edit, an outage; 1 asset at Parser, 2 edits, an outage; 3 faces in chunks of 2, 2 failing statements; 3 events of the ML container; the 3 chains | vectors, scores, text, verdicts, captions and sharpness are complete in the end, but for the losses named below, and of what is there; one execution of a chain at a time, refinement of `GateSpec` with its liveness | 386,288 |
| `files` | the eight components of `MCFiles`: 1 path with 3 edits, a force and a crash; 2 uploads of one name, a store error; folders two deep, refused watches, 2 overflows; 2 bus deletions, 2 drops; 2 producers of tasks; 2 videos and 2 callers; 2 thumbnail directories; 2 photos with positions | stamps vouch; an upload's row tells its outcome and its bytes are kept; nothing is missed where the watcher is not known to be blind; the library, tasks, sprites, places and statistics become true | 307,912 |
| `entities` | the eight components of `MCEntities`: 4 points of a distance graph, all graphs; 3 faces of 2 kinds on 2 photos; 2 albums; a view over 2 photos; moments of 3 photos; pages of 7 vectors under a cap of 9; libraries of 4 photos, all times on a small scale | clusters are density-connected sets; the user's edits outlive recomputation; reads agree; pages neither gap nor overlap; persons, views and moments settle | 521,817 |

Properties worth reading first: `CountsConserved` (a batch's enqueued files are
its results plus what is queued, being worked on or being handed over);
`OneCopyInFlight`; `AlbumRidesAlong`; `BatchSettles`; `ContentKept` (no photo
leaves the disk unless a purge named it); `IdentityKept` (no row is deleted for a
photo that is on the disk and was not purged); `LibraryKept`; `StampVouches` (a row
whose stamp is its file's has its checksum, which is what the fast skip relies on);
`UploadOutcome` (a row that says completed has its file, and one that says failed or
canceled has none, unless the completion was never recorded: that UPDATE failed or the
process ended before it);
`PendingBytesKept` (no upload overwrites one that waits to be indexed);
`NothingMissed` (a watcher at rest watches every folder and has handed over every file,
but for exactly what `refused` and `blind` name); `PhotosAreEmbedded`; `ScrollIsComplete`; `LabelsAreChains`
(DBSCAN's labels against density reachability); `PlacedIsKept` (what the user
placed survives conversions, their failures and compensations, crashes between their steps
and evaluations).
Composite properties are conjunctions of such named parts, each in its
component's module and each with a mutant of its own.

**Bounds.** Constants named `Max...` bound how often the environment acts; they
occur in guards only. Two paths, two workers, one enqueuer and one scanner give
every pair of goroutines about the same path and about different ones; a slot, a
marker and a timer are each reused at least once. `Pipeline` has one path, because
without copies no two paths meet in a row; its three edits give a version that was
hashed, one that came during the call, and one after. Three requests cover
delete, restore and purge of one photo, a fourth and a fifth those of the
newcomer or of a restored copy; three drive changes a removal, a return
and another removal. In `Vectors` two photos let one fail while the other is
embedded, and two restarts bring the new generation and interrupt its rebuild.
`Persons` has twice as many ids as faces, so that rebuilds find new ones. In `Uploads`
both uploads have one name, since only those meet in the gallery; one store error or crash
is enough to lose the record of a completion. `MaxQualityFaults = 2` lets a pass lose an
UPDATE and its marker, two overflows let the second fall into the first one's rescan or
cooldown. `Day = 2` gives a day a last second and another one.
`Capacity`, `MaxK`, `Slack`, `FailLimit`, `CooldownTicks`, `BatchSize`, `Chunk`
and `spriteMaxConcurrent` are small so that the limit is met: the code's values
are a matter of scale. `LateInsert`, `Copies` and the like are not bounds but
conditions, below.

**Deadlock.** `mount_flags` and `mount_keep` check it: the guard never stops. The
others say `CHECK_DEADLOCK FALSE`: with bounded uploads, events and requests they
end in a state where nothing is left to do. That they end in a good one is what
the liveness properties say.

**Fairness.** Weak fairness on each goroutine's step and each timer: a goroutine
that can run does, a timer that is armed fires, a dead drive is in the end
unlisted by the kernel, an external service that went away comes back
(`MlReturns`, `ParserReturns`, `ComesBack`). Batches keep ending, so the passes
they start (`BackfillClip` and its kind, `EvaluateAllLive`, `RecomputeStarts`,
`RunPipeline`) keep being started; clients of the statistics page keep asking.
Strong fairness where the code waits in turn or comes round again: the periodic
scan reaches every path and the prune every row although single rounds fall into
bad moments (`ScanTakes`, `PruneMissing`, `PruneRemoves`), and a semaphore's
channel serves its waiters in order (`TakesSlot`). No fairness on anything from
outside: uploads, events, requests, edits, drives, failures. `BatchSettles` speaks
of batches whose declared files have all been handed over, because nobody forces
the client to send the rest.

### Where the code falls short of its comments

Three runs each violate one property that quotes a comment:

| run | what happens |
|---|---|
| `ingest_drop` | `SubmitReserved` drops a counted file at a full queue: its batch never ends (comment, indexer.go:740-742) |
| `trash_wipe` | purging a still whose video is live removes the gallery directory with every photo in it (trash.go:317) |
| `trash_fk` | the foreign key refuses to delete the video's row, the error is ignored, the row stays (trash.go:280-281) |

`trash_wipe` needs no fault when two requests overlap: a purge that arrives after
the still's UPDATE and before its video's finds the video in the gallery.

### The conditions under which the properties hold

The passing runs are the conditions under which the properties hold; each is a
constant or the choice of a property, and changing it shows the counterexample.

| condition | without it |
|---|---|
| `ingest_batch` leaves out `OneCopyInFlight` | a scan deletes a marker it does not own, and two copies are in flight (against indexer.go:669) |
| `Capacity = 4` in `ingest_batch` | a dropped or unmoved upload leaves its album entry behind: `NoLeakedAlbumEntry` (against indexer.go:238-241) |
| `NoStrandedBatch` is not in `ingest_batch` | a worker finishes a file before `Enqueue` registers it: its legacy slot waits for ever (against indexer.go:394-395) |
| no property speaks of a batch's slot after its end | the clean-up of a finished batch deletes by id the slot that new arrivals use (against indexer.go:494) |
| `Newcomer = nothing` in `trash_faults` | a photo copied to the original path between restoreFile's Stat and its rename is overwritten; its row then names the restored photo's file, and a purge of it destroys that photo, `ContentKept` (trash.go:245, 260) |
| `Careful` in `trash_live` | delete and quick restore before the watcher handles the event: the restored row is deleted, `IdentityKept` (against trash.go:130-133) |
| `MaxPrunes = 0` in `trash_live` | the prune stats the row between UPDATE and rename, and deletes it, `IdentityKept` (against indexer.go:1753) |
| `DBMayFail` with one handler only | with two, a failed second delete removes the trash directory that holds the photo, `ContentKept` (against trash.go:137) |
| `Bounces` | a drive that bounces during the stat loop passes both interlocks, `LibraryKept` (against indexer.go:1756, 1798) |
| `OfflineConverges` without insertions | under `FairScanSpec` a row inserted after the guard's UPDATE stays online without its drive (against mountguard.go:29-30) |
| `aligned` in the flag properties | an UPDATE that failed at startup is never retried (against mountguard.go:36-37) |
| `Copies` | with two paths: a file replaced by another one's bytes while its row is being made: the duplicate check and the upsert see different owners of a checksum, `StampVouches`, `Reflected` |
| `Overlap` | two calls about one path, as after a lost marker: the older hash is written last, `StampVouches` |
| `PruneMeanwhile` | a row inserted between the prune's SELECT of the ids and its ReadDir: its thumbnails are removed as orphans, and only a change of the file makes them again, `Reflected` |
| `ForceRaces` | the file or its row changes between the indexing and the end of ForceReprocess: the row ends 'indexed' beside a thumbnail of older content, `Reflected` |
| `LateInsert` | the completion of an upload finds no row to mark, and the insert that comes after leaves it 'uploading', `TasksSettled` |
| `CancelRaces` | a cancel or a DELETE that overlaps the ingestion of its own upload: a cancel that read the row before, and writes it after, the completion shows a photo in the gallery as cancelled, `UploadOutcome`. Cancels and DELETEs of an upload that is still being sent, or waits to be ingested, are in |
| `unrecorded` in `UploadOutcome` | the completing UPDATE fails unnoticed (tus.go:293, `_ =`), or the process ends between the rename (167) and it: the row says 'uploading', is paused by the GC, and may be cancelled beside a file in the gallery |
| `LateArrivals` | a folder created in a directory that a walk has read, before its watch: `NothingMissed` |
| `refused` in `NothingMissed` | fw.Add fails, at the inotify quota or otherwise (watcher.go:450-463): the folder stays unwatched and what appears in it later is not seen, as the comment at 410-415 says. When no watch of a walk succeeds and the quota was not the reason, the walk's files are not scanned either (470-481) |
| `blind` in `NothingMissed` | an overflow loses the event of a folder: the rescan enqueues its files and adds no watch (203-209), so later files are missed; and one during a rescan or in its cooldown is dropped with all it lost (187), as the comment there says. Both wait for the daily scan |
| directories are readable, and the root's own watch succeeds | a directory that cannot be read is skipped by every walk (426-431) |
| `unwritten`, `spoilt` in `OncePassIsWhole` | a face whose UPDATE fails, or whose photo cannot be read in the one pass, is skipped for good, and the marker is written all the same (quality_backfill.go:138-148, 158) |
| `backlog = "unseen"` in `WedgedRecovers` | an outage shorter than the poll is no transition (embedder.go:787-790): what was indexed without ML meanwhile waits for the end of another batch, the next outage or the next start |
| `missed` in `PeopleSettled` | a failing INSERT of a face is logged and ignored, and the photo is marked scanned (indexer.go:1289-1294, faces.go:648-649): the face is lost until the file changes |
| `AtMidnight` in `PlaceAlbumsAreWhole` | the end of a visit is compared as a string with ' 23:59:59' against what the driver wrote (places.go:673): a photo taken in the last second of the last day is left out of the album |
| `GapDays >= Week` in `TripsAreApart` | a recipe whose gap is shorter than a week may give two trips one id, that of their ISO week (momentstore.go:1296): the two become one moment |
| `Recreates` | a path filled again before its deletion is handled: the row of the new file goes until the next scan |
| `Dotted` | a folder with a dot in its name is taken for a non-media file (busdelete.go:52): its photos stay listed until the next scan, so `DeletionsAreHeard` leaves it out |
| one producer per task (`McTaskOf`) | two producers of one task: the lock orders their decisions, not their sends, so "running" is shown after "final" and stays (`TaskSettled`) |
| a send is short against the stale timeout | a producer whose update is still being sent when the sweeper ends its task would show "running" after the end |
| `Moves` | a photo that has a place gets another position: nothing clears its `asset_geo` (cleared only with a new gazetteer, db.go:863), `PlacesMatch` |
| `HalfWrites` | a stop between the index row and the vector (two INSERTs), or an embedding that fails after the rebuild dropped the old one: no query of missing vectors finds it again, `VectorSettled` |
| `AwayInRebuild` | a drive that is away while the rebuild runs keeps vectors of the old model under the new stamp, `SameGeneration` |
| `EditsWithoutMl` | a file changed while ML is away keeps the text of its old content: the failed OCR does not clear it, `TextSettled` |
| `VerdictRaces` | an asset recognised again between a verdict's read and write: the older verdict stays, `TextSettled` |
| `Recaption` | content that changes once Parser was asked: the caption that comes is of the old thumbnail and ends the asking, `CaptionSettled` |
| `UserInCluster` | a face detached or purged between load and rebuild is bound again by the rebuild, `ExcludedStayOut` (against persons.go:366) |
| `CoverRaces` | a face that leaves a person between SetPersonCover's two statements becomes its cover, `CoverIsMember` |
| `EditInDetect` | a file replaced while its faces are detected is marked scanned with the old faces, `PeopleSettled` |
| `AlbumRaces` | two requests between each other's check and write: a cover that is no member any more, `AlbumsSound` |
| `PinInEval` | a pin or removal between an evaluation's read and write is overwritten (against smartview.go:612), `ExclusionsStay`, `PlacedIsKept` |
| `AddInConvert` | a member added while a view or album is converted is deleted with the old one, `PlacedIsKept` |
| `DeadRuns` | the widening of a search stops when one step finds no new candidate (search.go:205), although more may lie beyond, within the cap and the ranking: a page ends early, `ScrollIsComplete` (against search.go:153-157) |

`Careful` asks three things of clients: a request comes when the watcher has
handled the events of the moves before it, a purge names a photo whose video is in
the trash too, and another photo is put at a photo's old path only between requests.

Other limits met while modelling, which no property is about: a pet moment whose
exclusions leave too few photos is deleted with its edits, and the excluded photos
return in the next round (moments_pets.go:104); a spot's key is the grid cell of
its centroid, so a new photo can move it away from its user name
(places.go:336, 434); a crash between the creation of an album from a place and
the insertion of its photos leaves it empty (places.go:779); one database error
ends the geocoding scheduler until the next start (geo.go:101), after which only
the ends of batches geocode; times of photos are taken to be of one
time zone; and the hazards of `PROJECT.json` that
the code does not prevent, which have a note and no property (indexer.go:587, 679 and
1027, trash.go:245 and 390).

## 4. What is proved

The theorems hold for any sets of paths, batches, workers, chains, mounts, files,
rows, uploads, folders, faces, videos, photos and any bounds. They assume what the
modules' `ASSUME`s say, and the conditions in the middle column.

| theorem | if | then |
|---|---|---|
| `IngestProofs!TypeCorrect`, `ScanTypeCorrect` | | `[]TypeOK`, without and with scans |
| `IngestProofs!SingleCopy` | | `Spec => []OneCopyInFlight` |
| `IngestProofs!AlbumCorrect` | `OneAlbumPerFile` | `Spec => []AlbumRidesAlong` |
| `IngestProofs!OnceCorrect` | `BatchesDeclared` | `ScanSpec => []AnnouncedOnce` |
| `IngestProofs!DoneCorrect` | `BatchesDeclared` | `Spec => DoneOnlyWhenSettled` |
| `IngestProofs!CountsCorrect`, `EntriesCorrect` | `NothingLost` (the first also `BatchesDeclared`) | `ScanSpec => []CountsConserved`, `[]NoLeakedAlbumEntry` |
| `DerivedProofs!GateCorrect` | | `Spec => [](TypeOK /\ AtMostOneExecution /\ PendingIsScheduled)` |
| `DerivedProofs!GateImplements` | | `Spec => Abstract!Spec` |
| `DerivedProofs!DerivedTypesCorrect`, `PassIsWhole` | | `MCSpec => []DerivedTypesOK`, `[]OncePassIsWhole` |
| `DerivedProofs!StampIsTrue` | `~AwayInRebuild` | `MCSpec => []OneModelUnderStamp`, the safety half of `SameGeneration` |
| `MountGuardProofs!TypeCorrect`, `FlagsCorrect` | | `Spec => []TypeOK`, `[]FlagsMatchSnapshot` |
| `MountGuardProofs!LibraryStaysKept` | `~Bounces` | `ScanSpec => LibraryKept` |
| `TrashProofs!TrashTypeCorrect` | | `Spec => []TypeOK` |
| `TrashProofs!ContentCorrect` | `Cautious`, no newcomer | `Spec => []ContentKept` |
| `TrashProofs!RowsCorrect`, `IdentityCorrect`, `ContentStays` | `Undisturbed` | `Spec => []RowFindsFile`, `IdentityKept`, `[]ContentKept` |
| `UploadsProofs!UploadTypeCorrect`, `PendingKept` | | `UpSpec => []UpTypeOK`, `PendingBytesKept` |
| `UploadsProofs!OutcomeCorrect` | `~LateInsert`, `~CancelRaces` | `UpSpec => []UploadOutcome` |
| `PipelineProofs!StampCorrect` | `~Overlap`, `~Copies` | `PlSpec => []StampVouches` |
| `FilesProofs!OneBuilderCorrect` | | `SpSpec => []OneBuilder` |
| `FilesProofs!FreedCorrect` | | `StSpec => []FreedStaysFreed` |
| `FilesProofs!SideDataCorrect` | `~Moves` | `MCSpec => []SideDataSound` |
| `FilesProofs!NoticedCorrect` | `~LateArrivals`, `~Recreates` | `MCSpec => []ChangesAreNoticed` |
| `FilesProofs!FileTypesCorrect` | | `MCSpec => []FileTypesOK` |
| `EntitiesProofs!ClustersCorrect` | | `MCSpec => []ClustersSound` |
| `EntitiesProofs!PeopleCorrect`, `RecomputesCorrect` | `PeopleUndisturbed` | `MCSpec => []PeopleSound`, `RecomputesKeep` |
| `EntitiesProofs!ViewTypeCorrect`, `UserEditsKept` | `ViewUndisturbed` | `SvSpec => []SvTypeOK`, `[](ExclusionsStay /\ PlacedIsKept)` |
| `EntitiesProofs!UserEditsCorrect` | `ViewUndisturbed` | `MCSpec => []UserEditsStay` |
| `EntitiesProofs!AlbumsCorrect` | `~AlbumRaces` | `MCSpec => []AlbumsAgree` |
| `EntitiesProofs!CurationCorrect` | | `MCSpec => []CurationIsFair` |
| `EntitiesProofs!TiersCorrect` | | `MCSpec => []TiersAreSound` |
| `EntitiesProofs!AnswersCorrect` | `~DeadRuns` | `MCSpec => []AnswersSound`, which joins the tiers, the pages, `PlacesAgree` and `SpotsArePinned` |
| `EntitiesProofs!PagesCorrect` | `~DeadRuns` | `MCSpec => []ScrollIsComplete` |
| `EntitiesProofs!EntityTypesCorrect` | `PeopleUndisturbed`, `ViewUndisturbed`, `~AlbumRaces` | `MCSpec => []EntityTypesOK` |

The conditions are the ones the passing runs have, and section 3 shows what happens
without them:

- `OneAlbumPerFile`: uploads of one path in one batch ask for one album (a queue item
  names path and batch only, so nothing else tells the two apart). `BatchesDeclared`:
  a batch has finitely many uploads and declares at least their number; a batch that
  declares fewer is announced early by design. `NothingLost`: no move into the gallery
  fails and no reserved upload meets a full queue (the second is the finding of
  `ingest_drop`; for both see the row on `Capacity` in section 3).
- `Cautious`: one request at a time, and where a companion or a newcomer is in the
  library, a careful user. `Undisturbed`: also a careful user, and neither failing
  UPDATEs nor prunes nor crashes.
- `PeopleUndisturbed`: `~UserInCluster`, `~CoverRaces`. `ViewUndisturbed`:
  `~PinInEval`, `~AddInConvert`.

The theorems about `MCSpec` state the very properties of the composite runs: a step
of the composition is a step of each component's own next-state relation or leaves
the component alone (`StepSideBySide`), so each invariant is proved of its component
and the composition only joins them.

*Single copy.* `OneCopyInFlight` is not inductive: it says nothing of why a path
that is taken is free. `MarkerInv` adds `Marked` (whoever holds a path, be it an
enqueuer, the upload goroutine, a queue item, a worker or an echo timer, holds its
marker) and `Exclusive` (no path has two holders of different kinds, nor two
timers). Taking a marker needs the path to be unmarked, hence unheld; every other
step passes the path from one holder to the next; a timer is the last holder, so
it frees only its own marker. With scans the invariant is false (see above).

*Albums on the way.* `Riding` carries the album entry from the reservation through
the queue: between the two only the worker of that very path, or a scan, consumes
it, and a second upload of the path cannot reserve while the first is on its way.

*Batches.* `Books` is an account per batch: its counters know of every arrival, and
what was counted out is not outstanding; the slot goes only with the end of the batch,
when all its uploads have arrived and none is outstanding; an armed timer, a fired
one, an announcement on its way and one made are together at most one, and there only
after that end. `CountsConserved` is then an equation over cardinalities that
every step keeps by moving one file from one term to another; the two steps
excluded by `NothingLost` are those that drop a term.

*The gate.* `GateInv` is inductive as it stands: an execution and a timer exclude
each other, and one of the two is there for each merged trigger. The same
invariant makes every step of the gate a step of `GateSpec` or a stutter.

*What indexing left open.* The types of the six components need four facts of their
own: a rebuild fails at most once per target (`FailsOnce`), the version of a scan or of
a captioned asset is at most one ahead of the edits (`TextsTyped`, `CaptionsTyped`),
and an asset that the sweep is about to mark has an answer. For the pass over old
faces `PassInv` says that a face still waits in the snapshot, has its score, or is one of
those whose photo could not be read or whose UPDATE failed - also through restarts and
failing queries, which take a new snapshot.

*The stamp.* "The stamp names the running model, so all vectors are its own" is not
inductive: the step that stamps has to know what the whole rebuild did. `StampInv` adds
that a running rebuild still has to visit whatever is of an older model, that no drive
is away meanwhile, that a purged photo brings no old vector and no index row into the
next generation (its writer may still be on its way), and that no stamp is ahead of its
binary. `WriterStampSteps` covers the pool and Backfill, which write beside the rebuild.

*The flags.* In the middle of a tick the flags follow from the loop's progress:
what is behind it agrees with `next`, what is ahead (`todo`) with `last`. Drives
may change at any moment because the loop works on the set it read.

*The prune.* `MissedForGood`: what the stat loop took for gone is gone, or the
drive is unreadable and the loop not yet over; the second interlock then refuses.
The condition on bounces is used only in that last step.

*Trash.* Content alone is far from inductive, since a file is moved before or after
its row and a rollback may fail. `Sound` knows where rows and files can be: a live
row names the gallery, a trashed one the trash directory of its own id
(`RowPlaces`), each trash directory holds files of its id only (`DirsOwned`), and
each handler's locals agree with the step it is at (`HandlersOK`). With `Names` (a
file's content tells its name, unless a newcomer came) a rename meets nothing but
its own copy, so every photo that was not purged stays in its row's directory or in
the gallery. For rows, `Settled` adds that the queue's removal events are about
paths no live row names, and per handler what it owes (`TrashHeld`, `RestoreHeld`,
`PurgeHeld`). The row flip before the rename is what makes `Settled` inductive.

*Uploads.* The name of the upload being moved is reserved and not in the queue
(`ReservedOK`). A second upload of that name cannot reserve it, and one that is in
the queue keeps its mark until a worker takes it; so a rename never hits bytes
that still wait. For the outcome, `Told` follows one upload from the client to the
gallery (`Fresh`, `Coming`, `Moving`, `Dropped`, `Landed`): a cancel or DELETE of an
upload still on its way takes the file its completion would need, and no stage admits an
event that would rewrite the row of a delivered upload whose completion was recorded.

*Sprites.* Who is between the insertion of the entry and the deferred clean-up is
the one the entry names (`LeadersKnown`), so two builders of one video are one.

*Storage.* A walk vouches for its counts only while its generation is the current
one (`CurrentWalkIsSound`): a prune that freed something raises `fsGen` before it
ends, so a walk that counted what was freed is of an older generation and does not
publish.

*Places, bus.* What a geocoder is about to write is the photo's position or its row
is gone (`GeoInv`). Every row without a file is told of by what is on the wire or
in the subscriber's hands, or was heard by nobody; and no file that is there is told
of (`BusInv`), which is where an early refill would break it.

*Watcher.* `NothingMissed` speaks of rest only. `WatchInv` says what is still to
come: a folder without a watch has its event, its goroutine or a walk coming, or
lies in such a folder (`WatchComes`), or is `Served`: watched, refused or lost; a
file nobody was told of lies where a scan
will come by, that of a goroutine that is not covered (`Firm`) or of one that will
not be (`Prospective`), or the rescan. A covered goroutine may skip its scan because
the one above, found by `walkCovered` before the folder registers its own walk,
reaches down to it: folders
are a tree, and a scan that has yet to come by a folder either reads it next or goes
on towards it (`ScanGoesOn`).

*Pipeline.* `StampVouches` speaks of rows; a call carries what it read before it
writes. `CallVouches` says the same of a call after its hash, `OneCall` that no
other call can write the row meanwhile, and `OwnVersions` that a checksum is found
under one path only, so the duplicate check never meets a stranger. An edit gives
the file a stamp that nobody has seen, so it cuts all claims about that path at
once. The types need less and hold without conditions (`PipelineTyped`): every call has
its place, a path and what it read of the file, and no two rows share an id, whatever
the other calls do in between.

*Clusters.* `RowsFill` gives each worker its block of rows and counts what is
filled, which makes the progress climb to the last row whatever the order; `Chains`
says that neighbours of visited faces are in their cluster or wait among the seeds,
so a finished cluster is closed under nearness, hence under chains.

*Persons.* `PeopleInv` adds what a run loaded (`LoadedStay`: an anchored person's
faces are still its own until the rebuild), what a sweep picked (`PickFits`) and
that nobody the user wants awaits a purge (`WantedRest`).

*Smart views, moments.* What an evaluator read before it writes is still what users
placed (`ReadIsFresh`); before a conversion deletes the old holder, the new one has
what the user placed (`ConversionCarries`), through crashes between its steps
because a repeated conversion starts from what is there. A recompute of a moment
replays the edits in one transaction, so `MomentsInv` is the property with types.

*Albums.* What a request found in its check still holds when it writes, as long as no
other request falls between (`RequestFits` in `AlbumsInv`): the title is free, the cover
a member, the order a permutation. Positions then stay distinct, so the three reads
order the same members the same way.

*Places, pages.* What these components compute is stated by sets, where the code walks a
sorted list: a visit begins at a photo with a long gap before it and goes on until the next
one begins, and a page is the hits with so many hits before them. (A walk over a list would
need induction over data; `splitByGap` is kept as the code's loop, and `TripsAreApart`,
which relates its outcome to the photos' times, is TLC's.) `PlacesInv` says what an album in
the making holds: the photos of the visit that was asked for, less those that the end of the
window cuts off (`AtMidnight`). `WindowIsVisit` is the step: within the days from the first
to the last photo of a visit lies no other visit, since a gap is days long. For the pages, `SearchInv` ties a running fetch to its margin
and `ScrollInv` the pages to the slices: a fetch ends with hits enough, at the cap, or
with a raw count that did not grow. In the last case `~DeadRuns` is used: an unchanged
count after a widening inside cap and ranking would be a dead run, and beyond them
nothing is left to find.

*Picks.* A window of shots is what begins at a photo with a long gap before it and lasts
until the next such photo, and two photos share one exactly when no stretch of
`BurstWindow` between them is empty (`WindowsAreNear`). What the union-find puts together
is what no closed set keeps apart; since looking alike is symmetric, the complement of a
closed set is closed, so the groups divide a window (`UnitedDivide`), and the groups of a
window are the bursts of the whole moment (`GroupsAreBursts`). The looks order the photos
strictly, ids breaking ties, so each photo has a place and every place is taken
(`PlacesInOrder`, `RanksInOrder`): the first `MaxFeatured` places are `MaxFeatured` photos
or all there are (`FirstPlaces`), and no photo left out has a lesser place.

*Spots.* The clusters of a town come out of a loop over its photos, a recursive function
in `clusterCity`. Induction over its argument is out of the prover's reach, but a least
counterexample is not: the naturals are well founded (`Least`), so there is a least
length for which the loop has no run (`LoopRuns`), and a least step after which the
clusters would not be `SpotsApart`. The step itself is `PhotoIsAssigned`: each cluster has
as many photos as it counts, no photo is in two, and no two running centroids are the
same point. The last part is why a centroid finds its own cluster again: a photo goes
to the nearest centroid, the points nearer to that one than to another are convex, so the
mean that moves towards the photo never reaches the other (`CentroidsKeepApart`, in
whole numbers because a centroid is a fraction). Without the nearest-first rule two
clusters could come to lie on each other. The largest spot under a key is shown
whenever any spot under that key is, however `sort.Slice` orders equals.

Five things the proofs found in the model that the small instances had hidden, and
that are corrected: a `NoDeadRun` that asked for more than the doubling of a search can
reach, a `MaxK` so small that no search found the ranking exhausted before its cap, the
rows of a trailing empty block in `ClTypeOK` (five faces and four workers), a write of
the geocoder that could have used another photo's position when more than one photo is
in a batch, and a `Trash` in which a rename could undo itself over another row's path.

Only model-checked, and why:

- all liveness (`BatchSettles`, `MarkerReleased`, `OfflineConverges`,
  `PhotosAreEmbedded`, `DerivedSettles`, `FilesSettle`, `EntitiesSettle` and the
  fairness half of the refinement): liveness under fairness and ENABLED are out of
  the prover's reach.

No module declares a RECURSIVE operator: reachability is stated by closed sets
(`Linked` in `Clusters`, `UpTo` in `Watching`, `United` in `Curation`).

## 5. What is not modelled

Contents and metadata: EXIF, thumbnails, embeddings, OCR, faces as numbers,
captions as text, titles and summaries by the AI service, the parser of smart view
conditions. Read-only queries: timeline, views, listings, the metadata search, the
favourite and top tabs of the cover dialog. Pure I/O: the gateway, the HTTP
handlers' decoding, docker, ffmpeg, export streams, the profile file. Generated
data: the geo tables. Schema migrations, except that a new gazetteer clears
`asset_geo`. Inside the modelled components: `EnqueueWithBatch` (no caller outside
tests), `CleanupOrphanTrashDirs` (removes empty directories only), `PairLivePhotos`
(one pass over names), progress of scans, favourites (one flag per user and
asset), the ladder of retry delays (one cooldown stands for each), batching inside a
backfill pass. `EmptyTrash`, `RestoreAllTrash` and `PurgeExpired` are loops over
requests that `Trash` has. A directory is flat in `Trash`: a gallery with
subdirectories loses the one directory the video is in. ML server, Parser, tusd,
the upload GC and docker are external and do what the code here lets them do.

## 6. What is left

1. `AssetLife`: an abstract life cycle of one asset (pending, indexed, trashed,
   offline, gone) that `Pipeline`, `Trash` and `MountScan` implement where they do.
2. `Pipeline` composed with `Ingest`, so that lost markers make overlapping calls
   instead of the constant `Overlap`; `Tasks` composed with the batch tracker.
3. `PairLivePhotos` and the favourites; the retry ladder as a function checked
   against its SQL form.
