----------------------------- MODULE MountScan ------------------------------
(* MountGuard with the scans of the drives (ScanAllRoots, ScanDirectoryOnce,   *)
(* ScanDirectory and pruneMissingUnder in service/indexer.go): a scan inserts  *)
(* rows for the files it finds and then deletes the rows of files it misses,   *)
(* which on a drive that is gone are all of them.                              *)
EXTENDS MountGuard

CONSTANTS
    Full,           \* the scanner of ScanAllRoots; the others are named after their mount
    NoFile,
    MaxFulls, MaxRemovals,  \* bounds: full scans; files the user deletes
    Bounces         \* whether a drive may come back while a prune is looking for its files

ASSUME ScanAssumption == Full \notin Mounts /\ NoFile \notin Files /\ Bounces \in BOOLEAN

VARIABLES
    files,          \* what is on the drives, readable or not
    scan,           \* per scanner: pc, its directory and its local variables
    dirs,           \* the roots ScanAllRoots has still to scan
    fulls, removals

Scanners == Mounts \cup {Full}
scanVars == <<files, scan, dirs, fulls, removals>>
allVars  == <<vars, scanVars>>

NoScan == [pc |-> "off", dir |-> NoFile, todo |-> {}, file |-> NoFile, seen |-> {}, gone |-> {}]
Walking(m) == [NoScan EXCEPT !.pc = "walk", !.dir = m]
Reachable(f) == f \in files /\ MountOf[f] \in readable

ScanInit ==
    /\ Init
    /\ files = Files
    /\ scan = [s \in Scanners |-> NoScan]
    /\ dirs = {} /\ fulls = 0 /\ removals = 0

-----------------------------------------------------------------------------
RemoveFile(f) ==
    /\ Reachable(f) /\ removals < MaxRemovals
    /\ files' = files \ {f}
    /\ removals' = removals + 1
    /\ UNCHANGED <<vars, scan, dirs, fulls>>

\* Who starts a scan.

FullStart ==
    /\ dirs = {} /\ scan[Full].pc = "off" /\ fulls < MaxFulls
    /\ dirs' = mounted
    /\ fulls' = fulls + 1
    /\ UNCHANGED <<vars, files, scan, removals>>

FullDir(m) ==
    /\ m \in dirs /\ scan[Full].pc = "off"
    /\ scan' = [scan EXCEPT ![Full] = Walking(m)]
    /\ dirs' = dirs \ {m}
    /\ UNCHANGED <<vars, files, fulls, removals>>

\* ScanDirectoryOnce skips a directory that is being scanned.
Once(some) == scan' = [s \in Scanners |->
                         IF s \in some /\ scan[s].pc = "off" THEN Walking(s) ELSE scan[s]]

RecoverScanStarts(m) ==
    /\ recovery[m] = "scan"
    /\ recovery' = [recovery EXCEPT ![m] = IF scan[m].pc = "off" THEN "scanning" ELSE "backfill"]
    /\ Once({m})
    /\ UNCHANGED <<drives, assets, offline, guardVars, watching, files, dirs, fulls, removals>>

RecoverScanEnds(m) ==
    /\ recovery[m] = "scanning" /\ scan[m].pc = "off"
    /\ recovery' = [recovery EXCEPT ![m] = "backfill"]
    /\ UNCHANGED <<drives, assets, offline, guardVars, watching, scanVars>>

FollowScans ==
    /\ Follow
    /\ Once(mounted \ roots)
    /\ UNCHANGED <<files, dirs, fulls, removals>>

-----------------------------------------------------------------------------
(* ScanDirectory.                                                              *)

\* The drive is gone: its root cannot be read, or it left an empty directory.
Walk(s) ==
    LET m == scan[s].dir IN
    /\ scan[s].pc = "walk"
    /\ \/ /\ m \in readable
          /\ scan' = [scan EXCEPT ![s].pc = "index", ![s].todo = Under(m) \cap files]
       \/ /\ m \notin mounted
          /\ scan' = [scan EXCEPT ![s].pc = "index"]
       \/ /\ m \notin readable
          /\ scan' = [scan EXCEPT ![s] = NoScan]
    /\ UNCHANGED <<vars, files, dirs, fulls, removals>>

\* processFile: what it read of a new file is inserted in a later step.
ReadFile(s, f) ==
    /\ scan[s].pc = "index" /\ scan[s].file = NoFile /\ f \in scan[s].todo
    /\ scan' = [scan EXCEPT ![s].todo = @ \ {f},
                            ![s].file = IF Reachable(f) /\ f \notin assets THEN f ELSE NoFile]
    /\ UNCHANGED <<vars, files, dirs, fulls, removals>>

\* INSERT ... ON CONFLICT: a new row has offline=0, an old one keeps its flag.
InsertRow(s) ==
    /\ scan[s].file # NoFile
    /\ assets' = assets \cup {scan[s].file}
    /\ scan' = [scan EXCEPT ![s].file = NoFile]
    /\ UNCHANGED <<drives, offline, guardVars, recovery, watching, files, dirs, fulls, removals>>

(* pruneMissingUnder.                                                          *)

\* Interlocks 1 and 2, on the query's snapshot.
PruneQuery(s) ==
    LET m == scan[s].dir IN
    /\ scan[s].pc = "index" /\ scan[s].file = NoFile /\ scan[s].todo = {}
    /\ scan' = [scan EXCEPT ![s] = IF m \notin mounted THEN NoScan
                                   ELSE [@ EXCEPT !.pc = "stat",
                                                  !.seen = (Under(m) \cap assets) \ offline]]
    /\ UNCHANGED <<vars, files, dirs, fulls, removals>>

\* On a dead drive that is still listed os.Stat fails one way or another: only
\* some of its errors say that the file does not exist.
Dead(m) == m \in mounted \ readable

PruneStat(s, f) ==
    /\ scan[s].pc = "stat" /\ f \in scan[s].seen
    /\ \E missing \in IF Dead(MountOf[f]) THEN BOOLEAN ELSE {~Reachable(f)} :
         scan' = [scan EXCEPT ![s].seen = @ \ {f},
                              ![s].gone = IF missing THEN @ \cup {f} ELSE @]
    /\ UNCHANGED <<vars, files, dirs, fulls, removals>>

\* Mutant: the root is not tried.
PruneAllowedListed(m) == m \in mounted

\* pruneDeleteAllowed: the root is listed, and it can be read.
PruneAllowed(m) == m \in mounted /\ m \in readable

PruneCheck(s) ==
    /\ scan[s].pc = "stat" /\ scan[s].seen = {}
    /\ scan' = [scan EXCEPT ![s] = IF scan[s].gone # {} /\ PruneAllowed(scan[s].dir)
                                   THEN [@ EXCEPT !.pc = "delete"] ELSE NoScan]
    /\ UNCHANGED <<vars, files, dirs, fulls, removals>>

PruneDelete(s, f) ==
    /\ scan[s].pc = "delete" /\ f \in scan[s].gone
    /\ assets' = assets \ {f} /\ offline' = offline \ {f}
    /\ scan' = [scan EXCEPT ![s] = IF scan[s].gone = {f} THEN NoScan
                                   ELSE [@ EXCEPT !.gone = scan[s].gone \ {f}]]
    /\ UNCHANGED <<drives, guardVars, recovery, watching, files, dirs, fulls, removals>>

-----------------------------------------------------------------------------
ScanStep(s) ==
    \/ Walk(s) \/ InsertRow(s) \/ PruneQuery(s) \/ PruneCheck(s)
    \/ \E f \in Files : ReadFile(s, f) \/ PruneStat(s, f) \/ PruneDelete(s, f)

\* Between its stat of a file and its last look at the root, this prune sees the
\* drive come back: only if Bounces.
MayPlug(m) == Bounces \/ \A s \in Scanners : scan[s].dir = m => scan[s].pc # "stat"

Undisturbed ==
    \/ GuardStep \/ GuardFailure
    \/ \E m \in Mounts :
         Yank(m) \/ Unlist(m) \/ (MayPlug(m) /\ Plug(m)) \/ RecoverWatch(m) \/ RecoverBackfill(m)

ScanNext ==
    \/ Undisturbed /\ UNCHANGED scanVars
    \/ FollowScans
    \/ \E m \in Mounts : RecoverScanStarts(m) \/ RecoverScanEnds(m) \/ FullDir(m)
    \/ FullStart
    \/ \E f \in Files : RemoveFile(f)
    \/ \E s \in Scanners : ScanStep(s)

ScanSpec == ScanInit /\ [][ScanNext]_allVars

FairScanSpec ==
    /\ ScanSpec
    /\ WF_allVars(GuardStep /\ UNCHANGED scanVars)
    /\ \A m \in Mounts : WF_allVars(Unlist(m) /\ UNCHANGED scanVars)
    /\ \A s \in Scanners : WF_allVars(ScanStep(s))

-----------------------------------------------------------------------------
\* "Two interlocks protect against wiping a removable drive's library": a row is
\* deleted only for a file that is no longer on the drive, whenever the drive is
\* pulled out and put back.
LibraryKept == [][\A f \in assets \ assets' : f \notin files]_allVars
=============================================================================
