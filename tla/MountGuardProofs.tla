-------------------------- MODULE MountGuardProofs --------------------------
(* What MountGuard promises for any drives and files and any number of changes *)
(* and failures, and what the prune of MountScan promises beside it for any    *)
(* number of scanners.                                                         *)
EXTENDS MountScan, TLAPS

-----------------------------------------------------------------------------
(* The type invariant.                                                         *)

LEMMA InitTyped == ASSUME Init PROVE TypeOK
BY MountAssumption DEF Init, TypeOK

LEMMA StepTyped == ASSUME TypeOK, [Next]_vars PROVE TypeOK'
<1> USE MountAssumption DEF TypeOK
<1>1. ASSUME NEW m \in Mounts, Yank(m) \/ Unlist(m) \/ Plug(m) PROVE TypeOK'
  BY <1>1 DEF Yank, Unlist, Plug, guardVars, watching
<1>2. CASE AlignRead
  BY <1>2 DEF AlignRead, drives, watching
<1>3. CASE AlignOutside
  BY <1>3 DEF AlignOutside, AlignEnds, drives, watching
<1>11. CASE AlignOutsideFails
  <2>1. aligned' \in BOOLEAN
    BY <1>11, Zenon DEF AlignOutsideFails
  <2> QED BY <1>11, <2>1 DEF AlignOutsideFails, AlignEnds, drives, watching
<1>4. CASE Tick \/ TurnToOnline \/ EndTick
  BY <1>4 DEF Tick, TurnToOnline, EndTick, drives, watching
<1>5. ASSUME NEW m \in todo, AlignOnline(m) \/ MarkOffline(m) PROVE TypeOK'
  BY <1>5 DEF AlignOnline, MarkOffline, Under, drives, watching
<1>6. ASSUME NEW m \in todo, MarkOnline(m) PROVE TypeOK'
  <2>1. recovery' \in [Mounts -> {"off", "watch", "scan", "scanning", "backfill"}]
    BY <1>6 DEF MarkOnline, Spawn
  <2> QED BY <1>6, <2>1 DEF MarkOnline, Under, drives, watching
<1>7. ASSUME NEW m \in todo, MarkOfflineFails(m) \/ MarkOnlineFails(m) PROVE TypeOK'
  BY <1>7 DEF MarkOfflineFails, MarkOnlineFails, drives, watching
<1>12. ASSUME NEW m \in todo, AlignOnlineFails(m) PROVE TypeOK'
  <2>1. aligned' \in BOOLEAN
    BY <1>12, Zenon DEF AlignOnlineFails
  <2> QED BY <1>12, <2>1 DEF AlignOnlineFails, drives, watching
<1>8. ASSUME NEW m \in Mounts, Recover(m) PROVE TypeOK'
  BY <1>8 DEF Recover, RecoverWatch, RecoverScan, RecoverBackfill, Rewatch, drives, guardVars, watching
<1>9. CASE Follow
  BY <1>9 DEF Follow, Rewatch, drives, guardVars
<1>10. CASE UNCHANGED vars
  BY <1>10 DEF vars, drives, guardVars, watching
<1> QED BY <1>1, <1>2, <1>3, <1>4, <1>5, <1>6, <1>7, <1>8, <1>9, <1>10, <1>11, <1>12
      DEF Next, Drive, GuardStep, GuardFailure

\* Every reachable state has the types of TypeOK; between ticks no mount is left
\* to look at.
THEOREM TypeCorrect == Spec => []TypeOK
<1>1. Init => TypeOK BY InitTyped
<1>2. TypeOK /\ [Next]_vars => TypeOK' BY StepTyped
<1> QED BY <1>1, <1>2, PTL DEF Spec

-----------------------------------------------------------------------------
(* The flags.  In the middle of a tick they follow from what the loop has done *)
(* so far: `todo` are the mounts it has not come to, `next` the snapshot it is *)
(* going to leave.                                                             *)

Flagged(P(_)) == aligned => \A f \in assets : f \in offline <=> P(MountOf[f])

WhileAligning == pc = "align" /\ aligned => \A f \in offline : MountOf[f] \in cur => MountOf[f] \in todo

WhileMarkingOffline == pc = "off" =>
    /\ cur \subseteq next /\ next \ cur \subseteq last
    /\ todo \subseteq last \ next
    /\ Flagged(LAMBDA m : m \notin last \/ (m \notin next /\ m \notin todo))

WhileMarkingOnline == pc = "on" =>
    /\ todo \subseteq next
    /\ Flagged(LAMBDA m : m \notin next \/ m \in todo)

Parts == WhileAligning /\ WhileMarkingOffline /\ WhileMarkingOnline /\ FlagsMatchSnapshot

LEMMA InitParts == ASSUME Init PROVE Parts
BY DEF Init, Parts, WhileAligning, WhileMarkingOffline, WhileMarkingOnline, FlagsMatchSnapshot

LEMMA StepParts == ASSUME TypeOK, Parts, [Next]_vars PROVE Parts'
<1> USE MountAssumption DEF TypeOK, Parts, WhileAligning, WhileMarkingOffline, WhileMarkingOnline,
                            FlagsMatchSnapshot, Flagged
<1>1. CASE UNCHANGED <<assets, offline, guardVars>>
  BY <1>1 DEF guardVars
<1>2. ASSUME NEW m \in Mounts, Yank(m) \/ Unlist(m) \/ Plug(m) \/ Recover(m) PROVE Parts'
  BY <1>1, <1>2 DEF Yank, Unlist, Plug, Recover, RecoverWatch, RecoverScan, RecoverBackfill
<1>3. CASE Follow
  BY <1>1, <1>3 DEF Follow
<1>4. CASE AlignRead
  BY <1>4 DEF AlignRead
<1>5. CASE AlignOutside \/ AlignOutsideFails
  BY <1>5 DEF AlignOutside, AlignOutsideFails, AlignEnds
<1>6. CASE Tick
  BY <1>6 DEF Tick
<1>7. CASE TurnToOnline
  BY <1>7 DEF TurnToOnline
<1>8. CASE EndTick
  BY <1>8 DEF EndTick
<1>9. ASSUME NEW m \in todo, AlignOnline(m) \/ AlignOnlineFails(m) PROVE Parts'
  BY <1>9 DEF AlignOnline, AlignOnlineFails, Under
<1>10. ASSUME NEW m \in todo, MarkOffline(m) PROVE Parts'
  BY <1>10 DEF MarkOffline, Under
<1>11. ASSUME NEW m \in todo, MarkOnline(m) PROVE Parts'
  BY <1>11 DEF MarkOnline, Under
<1>12. ASSUME NEW m \in todo, MarkOfflineFails(m) PROVE Parts'
  BY <1>12 DEF MarkOfflineFails
<1>13. ASSUME NEW m \in todo, MarkOnlineFails(m) PROVE Parts'
  BY <1>13 DEF MarkOnlineFails
<1>14. CASE UNCHANGED vars
  BY <1>1, <1>14 DEF vars
<1> QED BY <1>2, <1>3, <1>4, <1>5, <1>6, <1>7, <1>8, <1>9, <1>10, <1>11, <1>12, <1>13, <1>14
      DEF Next, Drive, GuardStep, GuardFailure

\* Between ticks of MountGuard the offline flags are those of its snapshot, for
\* any drives that come and go at any moment and any UPDATEs that fail after an
\* alignment at startup that did not.
THEOREM FlagsCorrect == Spec => []FlagsMatchSnapshot
<1>1. Init => Parts BY InitParts
<1>2. TypeOK /\ Parts /\ [Next]_vars => Parts' BY StepParts
<1>3. Parts => FlagsMatchSnapshot BY DEF Parts
<1> QED BY <1>1, <1>2, <1>3, TypeCorrect, PTL DEF Spec

-----------------------------------------------------------------------------
(* The prune (MountScan).  A file is missed for good only while its drive can  *)
(* be read: what a prune holds against a file on a drive that is gone is worth *)
(* nothing, and is thrown away by the look at the root before the deletion.    *)

ScanState == [pc : {"off", "walk", "index", "stat", "delete"}, dir : Mounts \cup {NoFile},
              todo : SUBSET Files, file : Files \cup {NoFile}, seen : SUBSET Files, gone : SUBSET Files]

ScanTypeOK ==
    /\ mounted \subseteq Mounts /\ dirs \subseteq Mounts
    /\ scan \in [Scanners -> ScanState]

\* A scanner before its prune has missed nothing, a pruning one looks under its directory.
InItsDirectory == \A s \in Scanners :
    /\ scan[s].pc \in {"walk", "index", "stat", "delete"} => scan[s].dir \in Mounts
    /\ scan[s].seen \cup scan[s].gone \subseteq Under(scan[s].dir)
    /\ scan[s].pc \in {"off", "walk", "index"} => scan[s].gone = {}

MissedForGood == \A s \in Scanners :
    \/ scan[s].gone \cap files = {}
    \/ scan[s].pc = "stat" /\ scan[s].dir \notin readable

Pruning == ScanTypeOK /\ InItsDirectory /\ MissedForGood

LEMMA NoScanState == NoScan \in ScanState /\ \A m \in Mounts : Walking(m) \in ScanState
BY DEF NoScan, ScanState, Walking

LEMMA InitPruning == ASSUME ScanInit PROVE Pruning
BY NoScanState DEF ScanInit, Init, Pruning, ScanTypeOK, InItsDirectory, MissedForGood, NoScan, Scanners

\* The scanners do not notice what leaves their rows, their files and the readable drives alone.
LEMMA WalkingPruning ==
    ASSUME Pruning, NEW some \in SUBSET Mounts, Once(some),
           dirs' \subseteq Mounts, UNCHANGED <<mounted, readable, files>>
    PROVE  Pruning'
<1> USE ScanAssumption
<1>1. scan' \in [Scanners -> ScanState]
  BY NoScanState DEF Once, Pruning, ScanTypeOK, Scanners
<1>2. \A s \in Scanners : scan'[s] = scan[s] \/ (s \in Mounts /\ scan'[s] = Walking(s))
  BY DEF Once, Scanners
<1>5. \A m \in Mounts : /\ Walking(m).dir = m /\ Walking(m).pc = "walk"
                         /\ Walking(m).seen = {} /\ Walking(m).gone = {}
  BY DEF Walking, NoScan
<1>3. InItsDirectory'
  <2> SUFFICES ASSUME NEW s \in Scanners
               PROVE  /\ scan'[s].pc \in {"walk", "index", "stat", "delete"} => scan'[s].dir \in Mounts
                      /\ scan'[s].seen \cup scan'[s].gone \subseteq Under(scan'[s].dir)
                      /\ scan'[s].pc \in {"off", "walk", "index"} => scan'[s].gone = {}
    BY DEF InItsDirectory, Under
  <2> QED BY <1>2, <1>5 DEF Pruning, InItsDirectory
<1>4. MissedForGood'
  BY <1>2, <1>5 DEF Pruning, MissedForGood
<1> QED BY <1>1, <1>3, <1>4 DEF Pruning, ScanTypeOK

\* One scanner moves.
LEMMA OneScans ==
    ASSUME Pruning, UNCHANGED <<mounted, readable, files>>, dirs' \subseteq Mounts,
           NEW s \in Scanners, NEW r \in ScanState, scan' = [scan EXCEPT ![s] = r],
           r.pc \in {"walk", "index", "stat", "delete"} => r.dir \in Mounts,
           r.seen \cup r.gone \subseteq Under(r.dir),
           r.pc \in {"off", "walk", "index"} => r.gone = {},
           r.gone \cap files = {} \/ (r.pc = "stat" /\ r.dir \notin readable)
    PROVE  Pruning'
<1>1. scan' \in [Scanners -> ScanState]
  BY DEF Pruning, ScanTypeOK
<1>2. \A t \in Scanners : scan'[t] = IF t = s THEN r ELSE scan[t]
  BY DEF Pruning, ScanTypeOK
<1>3. InItsDirectory'
  BY <1>2 DEF Pruning, InItsDirectory, Under
<1>4. MissedForGood'
  BY <1>2 DEF Pruning, MissedForGood
<1> QED BY <1>1, <1>3, <1>4 DEF Pruning, ScanTypeOK

LEMMA GuardPruning ==
    ASSUME Pruning, ~Bounces, Undisturbed, UNCHANGED scanVars PROVE Pruning'
<1> USE DEF scanVars, Pruning, ScanTypeOK, InItsDirectory, MissedForGood, Under
<1>1. ASSUME UNCHANGED drives PROVE Pruning'
  BY <1>1 DEF drives
<1>2. CASE GuardStep
  BY <1>1, <1>2 DEF GuardStep, AlignRead, AlignOutside, AlignEnds, Tick, TurnToOnline, EndTick,
                    AlignOnline, MarkOffline, MarkOnline
<1>3. CASE GuardFailure
  BY <1>1, <1>3 DEF GuardFailure, AlignOutsideFails, AlignEnds, AlignOnlineFails, MarkOfflineFails, MarkOnlineFails
<1>4. ASSUME NEW m \in Mounts, Yank(m) \/ Unlist(m) PROVE Pruning'
  BY <1>4 DEF Yank, Unlist
<1>5. ASSUME NEW m \in Mounts, MayPlug(m), Plug(m) PROVE Pruning'
  BY <1>5 DEF MayPlug, Plug
<1>6. ASSUME NEW m \in Mounts, RecoverWatch(m) \/ RecoverBackfill(m) PROVE Pruning'
  BY <1>1, <1>6 DEF RecoverWatch, RecoverBackfill
<1> QED BY <1>2, <1>3, <1>4, <1>5, <1>6 DEF Undisturbed

LEMMA ScannerPruning ==
    ASSUME Pruning, NEW s \in Scanners, ScanStep(s) PROVE Pruning'
<1> DEFINE r == scan[s]
<1>1. r \in ScanState
  BY DEF Pruning, ScanTypeOK
<1>2. /\ r.pc \in {"walk", "index", "stat", "delete"} => r.dir \in Mounts
      /\ r.seen \cup r.gone \subseteq Under(r.dir)
      /\ r.pc \in {"off", "walk", "index"} => r.gone = {}
      /\ r.gone \cap files = {} \/ (r.pc = "stat" /\ r.dir \notin readable)
      /\ dirs \subseteq Mounts
  BY DEF Pruning, InItsDirectory, MissedForGood, ScanTypeOK
<1>3. NoScan \in ScanState /\ NoScan.pc = "off" /\ NoScan.gone = {} /\ NoScan.seen = {}
  BY NoScanState DEF NoScan
<1>4. ASSUME scan' = [scan EXCEPT ![s] = NoScan], UNCHANGED <<mounted, readable, files, dirs>> PROVE Pruning'
  BY <1>2, <1>3, <1>4, OneScans
<1>5. CASE Walk(s)
  <2>1. CASE scan' = [scan EXCEPT ![s].pc = "index", ![s].todo = Under(r.dir) \cap files]
    <3> DEFINE q == [r EXCEPT !.pc = "index", !.todo = Under(r.dir) \cap files]
    <3>1. q \in ScanState /\ q.pc = "index" /\ q.dir = r.dir /\ q.gone = r.gone /\ q.seen = r.seen
      BY <1>1 DEF ScanState, Under
    <3>2. scan' = [scan EXCEPT ![s] = q]
      BY <2>1
    <3> QED BY <1>2, <1>5, <3>1, <3>2, OneScans DEF Walk, vars, drives
  <2>2. CASE scan' = [scan EXCEPT ![s].pc = "index"]
    <3> DEFINE q == [r EXCEPT !.pc = "index"]
    <3>1. q \in ScanState /\ q.pc = "index" /\ q.dir = r.dir /\ q.gone = r.gone /\ q.seen = r.seen
      BY <1>1 DEF ScanState
    <3>2. scan' = [scan EXCEPT ![s] = q]
      BY <2>2
    <3> QED BY <1>2, <1>5, <3>1, <3>2, OneScans DEF Walk, vars, drives
  <2> QED BY <1>4, <1>5, <2>1, <2>2 DEF Walk, vars, drives
<1>6. ASSUME NEW f \in Files, ReadFile(s, f) PROVE Pruning'
  <2> DEFINE g == IF Reachable(f) /\ f \notin assets THEN f ELSE NoFile
             q == [r EXCEPT !.todo = @ \ {f}, !.file = g]
  <2>1. q \in ScanState /\ q.pc = r.pc /\ q.dir = r.dir /\ q.gone = r.gone /\ q.seen = r.seen
    BY <1>1 DEF ScanState
  <2>2. scan' = [scan EXCEPT ![s] = q]
    BY <1>6 DEF ReadFile
  <2>3. UNCHANGED <<mounted, readable, files, dirs>>
    BY <1>6 DEF ReadFile, vars, drives
  <2> HIDE DEF q
  <2> QED BY <1>2, <2>1, <2>2, <2>3, OneScans
<1>7. CASE InsertRow(s)
  <2> DEFINE q == [r EXCEPT !.file = NoFile]
  <2>1. q \in ScanState /\ q.pc = r.pc /\ q.dir = r.dir /\ q.gone = r.gone /\ q.seen = r.seen
    BY <1>1 DEF ScanState
  <2>2. scan' = [scan EXCEPT ![s] = q]
    BY <1>7 DEF InsertRow
  <2> QED BY <1>2, <1>7, <2>1, <2>2, OneScans DEF InsertRow, drives
<1>8. CASE PruneQuery(s)
  <2>1. CASE r.dir \in mounted
    <3> DEFINE q == [r EXCEPT !.pc = "stat", !.seen = (Under(r.dir) \cap assets) \ offline]
    <3>1. /\ q \in ScanState /\ q.pc = "stat" /\ q.dir = r.dir /\ q.gone = r.gone
          /\ q.seen \subseteq Under(r.dir)
      BY <1>1 DEF ScanState, Under
    <3>2. scan' = [scan EXCEPT ![s] = q]
      BY <1>8, <2>1 DEF PruneQuery
    <3>3. r.gone = {} /\ UNCHANGED <<mounted, readable, files, dirs>>
      BY <1>2, <1>8 DEF PruneQuery, vars, drives
    <3>4. q.seen \cup q.gone \subseteq Under(q.dir) /\ q.gone \cap files = {} /\ q.dir \in Mounts
      BY <1>2, <1>8, <3>1, <3>3 DEF PruneQuery
    <3> HIDE DEF q
    <3> QED BY <3>1, <3>2, <3>3, <3>4, <1>2, OneScans
  <2> QED BY <1>4, <1>8, <2>1 DEF PruneQuery, vars, drives
<1>9. ASSUME NEW f \in Files, PruneStat(s, f) PROVE Pruning'
  <2>1. PICK missing \in IF Dead(MountOf[f]) THEN BOOLEAN ELSE {~Reachable(f)} :
           scan' = [scan EXCEPT ![s].seen = @ \ {f}, ![s].gone = IF missing THEN @ \cup {f} ELSE @]
    BY <1>9 DEF PruneStat
  <2> DEFINE h == IF missing THEN r.gone \cup {f} ELSE r.gone
             q == [r EXCEPT !.seen = r.seen \ {f}, !.gone = h]
  <2>2. f \in Under(r.dir) /\ MountOf[f] = r.dir /\ r.pc = "stat"
    BY <1>2, <1>9 DEF PruneStat, Under
  <2>3. h \subseteq Under(r.dir) /\ h \in SUBSET Files
    BY <1>2, <2>2 DEF Under
  <2>4. h \cap files = {} \/ r.dir \notin readable
    BY <1>2, <2>1, <2>2 DEF Dead, Reachable
  <2>5. /\ q \in ScanState /\ q.pc = "stat" /\ q.dir = r.dir /\ q.gone = h
        /\ q.seen \subseteq r.seen
    BY <1>1, <2>2, <2>3 DEF ScanState
  <2>6. scan' = [scan EXCEPT ![s] = q]
    BY <2>1
  <2> HIDE DEF q, h
  <2> QED BY <1>2, <1>9, <2>2, <2>3, <2>4, <2>5, <2>6, OneScans DEF PruneStat, vars, drives
<1>10. CASE PruneCheck(s)
  <2>1. CASE r.gone # {} /\ PruneAllowed(r.dir)
    <3> DEFINE q == [r EXCEPT !.pc = "delete"]
    <3>1. q \in ScanState /\ q.pc = "delete" /\ q.dir = r.dir /\ q.gone = r.gone /\ q.seen = r.seen
      BY <1>1 DEF ScanState
    <3>2. scan' = [scan EXCEPT ![s] = q] /\ r.dir \in readable /\ r.pc = "stat"
      BY <1>10, <2>1 DEF PruneCheck, PruneAllowed
    <3>3. UNCHANGED <<mounted, readable, files, dirs>>
      BY <1>10 DEF PruneCheck, vars, drives
    <3> HIDE DEF q
    <3> QED BY <1>2, <3>1, <3>2, <3>3, OneScans
  <2> QED BY <1>4, <1>10, <2>1 DEF PruneCheck, vars, drives
<1>11. ASSUME NEW f \in Files, PruneDelete(s, f) PROVE Pruning'
  <2>1. CASE r.gone # {f}
    <3> DEFINE q == [r EXCEPT !.gone = @ \ {f}]
    <3>1. q \in ScanState /\ q.pc = r.pc /\ q.dir = r.dir /\ q.gone = r.gone \ {f} /\ q.seen = r.seen
      BY <1>1 DEF ScanState
    <3>2. scan' = [scan EXCEPT ![s] = q]
      BY <1>11, <2>1 DEF PruneDelete
    <3> QED BY <1>2, <1>11, <3>1, <3>2, OneScans DEF PruneDelete, drives
  <2> QED BY <1>4, <1>11, <2>1 DEF PruneDelete, drives
<1> QED BY <1>5, <1>6, <1>7, <1>8, <1>9, <1>10, <1>11 DEF ScanStep

LEMMA StepPruning == ASSUME Pruning, ~Bounces, [ScanNext]_allVars PROVE Pruning'
<1> USE DEF vars, drives, watching, scanVars
<1>1. CASE Undisturbed /\ UNCHANGED scanVars
  BY <1>1, GuardPruning
<1>2. CASE FollowScans
  <2>1. mounted \ roots \in SUBSET Mounts /\ Once(mounted \ roots)
    BY <1>2 DEF FollowScans, Pruning, ScanTypeOK
  <2> QED BY <1>2, <2>1, WalkingPruning DEF FollowScans, Follow, Pruning, ScanTypeOK
<1>3. ASSUME NEW m \in Mounts, RecoverScanStarts(m) PROVE Pruning'
  BY <1>3, WalkingPruning DEF RecoverScanStarts, Pruning, ScanTypeOK
<1>4. ASSUME UNCHANGED <<mounted, readable, files, scan>>, dirs' \subseteq Mounts PROVE Pruning'
  BY <1>4 DEF Pruning, ScanTypeOK, InItsDirectory, MissedForGood, Under
<1>5. ASSUME NEW m \in Mounts, RecoverScanEnds(m) PROVE Pruning'
  BY <1>4, <1>5 DEF RecoverScanEnds, Pruning, ScanTypeOK
<1>6. ASSUME NEW m \in Mounts, FullDir(m) PROVE Pruning'
  <2>1. Full \in Scanners /\ dirs' \subseteq Mounts /\ scan' = [scan EXCEPT ![Full] = Walking(m)]
    BY <1>6 DEF FullDir, Scanners, Pruning, ScanTypeOK
  <2>2. /\ Walking(m) \in ScanState /\ Walking(m).dir = m /\ Walking(m).pc = "walk"
        /\ Walking(m).gone = {} /\ Walking(m).seen = {}
    BY NoScanState DEF Walking, NoScan
  <2> QED BY <1>6, <2>1, <2>2, OneScans DEF FullDir
<1>7. CASE FullStart
  BY <1>4, <1>7 DEF FullStart, Pruning, ScanTypeOK
<1>8. ASSUME NEW f \in Files, RemoveFile(f) PROVE Pruning'
  BY <1>8 DEF RemoveFile, Pruning, ScanTypeOK, InItsDirectory, MissedForGood, Under
<1>9. ASSUME NEW s \in Scanners, ScanStep(s) PROVE Pruning'
  BY <1>9, ScannerPruning
<1>10. CASE UNCHANGED allVars
  BY <1>4, <1>10 DEF allVars, Pruning, ScanTypeOK
<1> QED BY <1>1, <1>2, <1>3, <1>5, <1>6, <1>7, <1>8, <1>9, <1>10 DEF ScanNext

\* Rows go away only in PruneDelete.
LEMMA StepKept ==
    ASSUME Pruning, [ScanNext]_allVars PROVE \A f \in assets \ assets' : f \notin files
<1>1. ASSUME NEW s \in Scanners, NEW f \in Files, PruneDelete(s, f)
      PROVE  \A g \in assets \ assets' : g \notin files
  BY <1>1 DEF PruneDelete, Pruning, MissedForGood
<1>2. CASE \E s \in Scanners : ScanStep(s)
  BY <1>1, <1>2 DEF ScanStep, Walk, InsertRow, PruneQuery, PruneCheck, ReadFile, PruneStat, vars
<1>3. CASE Undisturbed
  BY <1>3 DEF Undisturbed, GuardStep, GuardFailure, AlignRead, AlignOutside, AlignOutsideFails, AlignEnds,
     Tick, TurnToOnline, EndTick, AlignOnline, MarkOffline, MarkOnline, AlignOnlineFails, MarkOfflineFails,
     MarkOnlineFails, Yank, Unlist, Plug, RecoverWatch, RecoverBackfill
<1> QED BY <1>2, <1>3 DEF ScanNext, allVars, vars, FollowScans, Follow, RecoverScanStarts, RecoverScanEnds,
                         FullDir, FullStart, RemoveFile

\* Whatever drives are pulled out and files deleted, by any number of scanners at
\* a time, the prune of pruneMissingUnder deletes no row of a file that is still
\* on its drive, unless the drive comes back in the middle of its looking.
THEOREM LibraryStaysKept == ASSUME ~Bounces PROVE ScanSpec => LibraryKept
<1>1. ScanInit => Pruning BY InitPruning
<1>2. Pruning /\ [ScanNext]_allVars => Pruning' BY StepPruning
<1>3. Pruning /\ [ScanNext]_allVars => [\A f \in assets \ assets' : f \notin files]_allVars BY StepKept
<1> QED BY <1>1, <1>2, <1>3, PTL DEF ScanSpec, LibraryKept
=============================================================================
