----------------------------- MODULE MountGuard -----------------------------
(* The offline flag of the assets on removable drives (service/mountguard.go)  *)
(* and the watches on them (service/watcher.go): the guard polls the mount     *)
(* table and compares it with its last snapshot, one UPDATE per drive that     *)
(* came or went; a drive that came back gets a recovery goroutine.             *)
(*                                                                             *)
(* A drive can be gone before the table says so: it is read from `readable`    *)
(* and listed in `mounted`.  Drives come and go between any two steps.         *)
EXTENDS Integers, FiniteSets

CONSTANTS
    Mounts,         \* mount points of removable drives (excluded ones never get here)
    Files, MountOf, \* media files and the mount point each is under
    Indexed,        \* the files that have an asset row at first
    Follows,        \* no WatchDirs configured: the watcher follows the mounts itself
    MaxChanges, MaxFailures     \* bounds: plugs and unplugs; UPDATEs that fail

ASSUME MountAssumption ==
    /\ MountOf \in [Files -> Mounts]
    /\ Indexed \subseteq Files
    /\ Follows \in BOOLEAN
    /\ MaxChanges \in Nat /\ MaxFailures \in Nat

VARIABLES
    mounted, readable,  \* the mount table; the drives that can be read
    assets,             \* the files that have a row
    offline,            \* those with offline=1
    pc,                 \* of the guard
    last, cur, next,    \* lastMounts, and checkOnce's cur and next
    todo,               \* the mounts its loop has still to look at
    aligned,            \* no UPDATE of the startup alignment has failed
    recovery,           \* spawnRecovery's goroutine per mount
    watched,            \* mounts with inotify watches
    roots,              \* the roots the watcher started with
    changes, failures

drives    == <<mounted, readable, changes>>
guardVars == <<pc, last, cur, next, todo, aligned, failures>>
watching  == <<watched, roots>>
vars      == <<drives, assets, offline, guardVars, recovery, watching>>

Under(m) == {f \in Files : MountOf[f] = m}

\* Flags are what an earlier run of the service left.
Init ==
    /\ mounted \in SUBSET Mounts /\ readable = mounted
    /\ assets = Indexed
    /\ offline \in SUBSET Indexed
    /\ pc = "start"
    /\ last = {} /\ cur = {} /\ next = {} /\ todo = {} /\ aligned = TRUE
    /\ recovery = [m \in Mounts |-> "off"]
    /\ watched = mounted /\ roots = mounted
    /\ changes = 0 /\ failures = 0

-----------------------------------------------------------------------------
(* The drives.                                                                 *)

Yank(m) ==
    /\ m \in readable /\ changes < MaxChanges
    /\ readable' = readable \ {m}
    /\ changes' = changes + 1
    /\ UNCHANGED <<mounted, assets, offline, guardVars, recovery, watching>>

Unlist(m) ==
    /\ m \in mounted \ readable
    /\ mounted' = mounted \ {m}
    /\ watched' = watched \ {m}
    /\ UNCHANGED <<readable, changes, assets, offline, guardVars, recovery, roots>>

Plug(m) ==
    /\ m \notin mounted /\ changes < MaxChanges
    /\ mounted' = mounted \cup {m} /\ readable' = readable \cup {m}
    /\ changes' = changes + 1
    /\ UNCHANGED <<assets, offline, guardVars, recovery, watching>>

-----------------------------------------------------------------------------
(* Run: the startup alignment.  Nobody looks at the errors of its UPDATEs.     *)

AlignRead ==
    /\ pc = "start"
    /\ pc' = "align"
    /\ cur' = mounted /\ todo' = mounted
    /\ UNCHANGED <<drives, assets, offline, last, next, aligned, failures, recovery, watching>>

AlignOnline(m) ==
    /\ pc = "align" /\ m \in todo
    /\ offline' = offline \ Under(m)
    /\ todo' = todo \ {m}
    /\ UNCHANGED <<drives, assets, pc, last, cur, next, aligned, failures, recovery, watching>>

AlignOnlineFails(m) ==
    /\ pc = "align" /\ m \in todo /\ failures < MaxFailures
    /\ failures' = failures + 1
    /\ aligned' = FALSE
    /\ todo' = todo \ {m}
    /\ UNCHANGED <<drives, assets, offline, pc, last, cur, next, recovery, watching>>

\* markOfflineOutside; then the table that was read becomes the snapshot.
AlignEnds ==
    /\ pc = "align" /\ todo = {}
    /\ last' = cur
    /\ pc' = "idle"
    /\ UNCHANGED <<drives, assets, cur, next, todo, recovery, watching>>

AlignOutside ==
    /\ AlignEnds
    /\ offline' = offline \cup {f \in assets : MountOf[f] \notin cur}
    /\ UNCHANGED <<aligned, failures>>

AlignOutsideFails ==
    /\ AlignEnds /\ failures < MaxFailures
    /\ failures' = failures + 1
    /\ aligned' = FALSE
    /\ offline' = offline

(* checkOnce, in the order of its two loops.                                   *)

Tick ==
    /\ pc = "idle"
    /\ pc' = "off"
    /\ cur' = mounted /\ next' = mounted /\ todo' = last \ mounted
    /\ UNCHANGED <<drives, assets, offline, last, aligned, failures, recovery, watching>>

MarkOffline(m) ==
    /\ pc = "off" /\ m \in todo
    /\ offline' = offline \cup (Under(m) \cap assets)
    /\ todo' = todo \ {m}
    /\ UNCHANGED <<drives, assets, pc, last, cur, next, aligned, failures, recovery, watching>>

\* Mutant: the transition is forgotten.
MarkOfflineFailsForgotten(m) ==
    /\ pc = "off" /\ m \in todo /\ failures < MaxFailures
    /\ failures' = failures + 1
    /\ todo' = todo \ {m}
    /\ UNCHANGED <<drives, assets, offline, pc, last, cur, next, aligned, recovery, watching>>

\* The mount stays in the snapshot so that the next tick tries again.
MarkOfflineFails(m) ==
    /\ pc = "off" /\ m \in todo /\ failures < MaxFailures
    /\ failures' = failures + 1
    /\ next' = next \cup {m}
    /\ todo' = todo \ {m}
    /\ UNCHANGED <<drives, assets, offline, pc, last, cur, aligned, recovery, watching>>

TurnToOnline ==
    /\ pc = "off" /\ todo = {}
    /\ pc' = "on"
    /\ todo' = cur \ last
    /\ UNCHANGED <<drives, assets, offline, last, cur, next, aligned, failures, recovery, watching>>

\* spawnRecovery drops the trigger while the mount's recovery is in flight.
Spawn(m) == recovery' = [recovery EXCEPT ![m] = IF @ = "off" THEN "watch" ELSE @]

MarkOnline(m) ==
    /\ pc = "on" /\ m \in todo
    /\ offline' = offline \ Under(m)
    /\ todo' = todo \ {m}
    /\ Spawn(m)
    /\ UNCHANGED <<drives, assets, pc, last, cur, next, aligned, failures, watching>>

MarkOnlineFails(m) ==
    /\ pc = "on" /\ m \in todo /\ failures < MaxFailures
    /\ failures' = failures + 1
    /\ next' = next \ {m}
    /\ todo' = todo \ {m}
    /\ UNCHANGED <<drives, assets, offline, pc, last, cur, aligned, recovery, watching>>

\* Mutant: the snapshot is what the table showed.
EndTickTable ==
    /\ pc = "on" /\ todo = {}
    /\ last' = cur
    /\ pc' = "idle"
    /\ UNCHANGED <<drives, assets, offline, cur, next, todo, aligned, failures, recovery, watching>>

\* Mutant: a mount that was not looked at is left for later.
EndTickEarly ==
    /\ pc = "on"
    /\ last' = next
    /\ pc' = "idle"
    /\ UNCHANGED <<drives, assets, offline, cur, next, todo, aligned, failures, recovery, watching>>

EndTick ==
    /\ pc = "on" /\ todo = {}
    /\ last' = next
    /\ pc' = "idle"
    /\ UNCHANGED <<drives, assets, offline, cur, next, todo, aligned, failures, recovery, watching>>

-----------------------------------------------------------------------------
(* onMountBack: the watcher is restarted, the drive is scanned, and the gaps   *)
(* in what the ML service computed are filled.                                 *)

Rewatch == watched' = mounted /\ roots' = mounted

RecoverWatch(m) ==
    /\ recovery[m] = "watch"
    /\ Rewatch
    /\ recovery' = [recovery EXCEPT ![m] = "scan"]
    /\ UNCHANGED <<drives, assets, offline, guardVars>>

\* The scan of the drive, here without effect on the rows (see MountScan).
RecoverScan(m) ==
    /\ recovery[m] = "scan"
    /\ recovery' = [recovery EXCEPT ![m] = "backfill"]
    /\ UNCHANGED <<drives, assets, offline, guardVars, watching>>

RecoverBackfill(m) ==
    /\ recovery[m] = "backfill"
    /\ recovery' = [recovery EXCEPT ![m] = "off"]
    /\ UNCHANGED <<drives, assets, offline, guardVars, watching>>

\* followMounts.
Follow ==
    /\ Follows /\ roots # mounted
    /\ Rewatch
    /\ UNCHANGED <<drives, assets, offline, guardVars, recovery>>

-----------------------------------------------------------------------------
GuardStep ==
    \/ AlignRead \/ AlignOutside \/ Tick \/ TurnToOnline \/ EndTick
    \/ \E m \in todo : AlignOnline(m) \/ MarkOffline(m) \/ MarkOnline(m)

GuardFailure ==
    \/ AlignOutsideFails
    \/ \E m \in todo : AlignOnlineFails(m) \/ MarkOfflineFails(m) \/ MarkOnlineFails(m)

Drive == \E m \in Mounts : Yank(m) \/ Unlist(m) \/ Plug(m)

Recover(m) == RecoverWatch(m) \/ RecoverScan(m) \/ RecoverBackfill(m)

Next == Drive \/ GuardStep \/ GuardFailure \/ Follow \/ \E m \in Mounts : Recover(m)

Spec == Init /\ [][Next]_vars

\* Goroutines keep running and the kernel ends up dropping a dead mount; nobody
\* has to plug or unplug anything.
Fairness ==
    /\ WF_vars(GuardStep) /\ WF_vars(Follow)
    /\ \A m \in Mounts : WF_vars(Unlist(m)) /\ WF_vars(Recover(m))

FairSpec == Spec /\ Fairness

-----------------------------------------------------------------------------
(* Properties.                                                                 *)

TypeOK ==
    /\ mounted \subseteq Mounts /\ readable \subseteq mounted
    /\ assets \subseteq Files /\ offline \subseteq assets
    /\ pc \in {"start", "align", "idle", "off", "on"} /\ (pc = "idle" => todo = {})
    /\ last \subseteq Mounts /\ cur \subseteq Mounts /\ next \subseteq Mounts /\ todo \subseteq Mounts
    /\ recovery \in [Mounts -> {"off", "watch", "scan", "scanning", "backfill"}]
    /\ watched \subseteq mounted /\ roots \subseteq Mounts
    /\ aligned \in BOOLEAN
    /\ changes \in Nat /\ failures \in Nat

\* checkOnce: "If an UPDATE fails, the affected mount keeps its old snapshot
\* state so the missed transition is retried".  Between ticks the flags say what
\* the snapshot says, whatever failed and whatever came and went meanwhile, so
\* that the next difference finds every drive whose flags are wrong.  The
\* alignment at startup has no such retry: one that failed is left out.
FlagsMatchSnapshot ==
    pc = "idle" /\ aligned => \A f \in assets : f \in offline <=> MountOf[f] \notin last

\* MountGuard "keeps assets.offline in sync with whether the removable drive
\* holding a given asset's file is currently mounted": once the drives are left
\* alone the flags come to agree with the mount table and stay so.
OfflineConverges == <>[](aligned => \A f \in assets : f \in offline <=> MountOf[f] \notin mounted)
=============================================================================
