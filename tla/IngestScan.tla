----------------------------- MODULE IngestScan -----------------------------
(* The ingestion front together with the code that touches the seen map        *)
(* without having taken a marker: ScanDirectory, which indexes a directory     *)
(* synchronously beside the workers, and RemoveByPath and pruneMissingUnder,   *)
(* which drop the row of a file that is gone (service/indexer.go).             *)
EXTENDS Ingest

CONSTANTS
    Scanners,       \* goroutines that may be inside ScanDirectory
    MaxScans,       \* bound: how many scans are started
    MaxRemovals     \* bound: how many rows are removed

ASSUME ScanAssumption == MaxScans \in Nat /\ MaxRemovals \in Nat

VARIABLES
    rows,           \* paths with an asset row
    scan,           \* per scanner: pc, the paths its walk collected, the one in hand
    scans,          \* scans started
    removals        \* rows removed

scanVars == <<rows, scan, scans, removals>>
allVars  == <<vars, scanVars>>

IdleScan == [pc |-> "idle", todo |-> {}, path |-> NoPath]

ScanInit ==
    /\ Init
    /\ rows = {}
    /\ scan = [s \in Scanners |-> IdleScan]
    /\ scans = 0 /\ removals = 0

-----------------------------------------------------------------------------
\* The first pass: walkSupported collects the files that exist now.
ScanStart(s, found) ==
    /\ scan[s].pc = "idle" /\ scans < MaxScans
    /\ scan' = [scan EXCEPT ![s] = [IdleScan EXCEPT !.pc = "next", !.todo = found]]
    /\ scans' = scans + 1
    /\ UNCHANGED <<vars, rows, removals>>

\* Indexing leaves a row unless it failed before the upsert.
RowMayAppear(p) == rows' \in {rows, rows \cup {p}}

\* processFile is called without LoadOrStore: nobody asks whether a worker has
\* the same file in hand.
ScanIndex(s, p) ==
    /\ scan[s].pc = "next" /\ p \in scan[s].todo
    /\ IndexFile(p) /\ RowMayAppear(p)
    /\ scan' = [scan EXCEPT ![s] = [pc |-> "indexed", todo |-> @.todo \ {p}, path |-> p]]
    /\ UNCHANGED <<seen, queue, worker, enqVars, tusVars, trackerVars, echo, scans, removals>>

\* seen.Delete(path), whoever took the marker.
ScanRelease(s) ==
    /\ scan[s].pc = "indexed"
    /\ seen' = seen \ {scan[s].path}
    /\ scan' = [scan EXCEPT ![s].pc = "next", ![s].path = NoPath]
    /\ UNCHANGED <<queue, worker, enqVars, tusVars, albumVars, trackerVars, echo,
                   rows, scans, removals>>

ScanEnd(s) ==
    /\ scan[s].pc = "next" /\ scan[s].todo = {}
    /\ scan' = [scan EXCEPT ![s] = IdleScan]
    /\ UNCHANGED <<vars, rows, scans, removals>>

\* RemoveByPath, and one round of pruneMissingUnder's delete loop: the row goes,
\* and with it a marker that others may hold.
RemoveRow(p) ==
    /\ p \in rows /\ removals < MaxRemovals
    /\ rows' = rows \ {p}
    /\ seen' = seen \ {p}
    /\ removals' = removals + 1
    /\ UNCHANGED <<queue, worker, enqVars, tusVars, albumVars, trackerVars, echo, scan, scans>>

WorkerIndexRow(w) == WorkerIndex(w) /\ RowMayAppear(worker[w].path) /\ UNCHANGED <<scan, scans, removals>>

-----------------------------------------------------------------------------
ScanStep(s) == (\E p \in Paths : ScanIndex(s, p)) \/ ScanRelease(s) \/ ScanEnd(s)

IngestStep ==
    /\ \/ \E e \in Enqueuers, p \in Paths : EnqueueMark(e, p)
       \/ \E e \in Enqueuers : EnqueueStep(e)
       \/ \E u \in Uploads : TusReserve(u) \/ TusRefused(u)
       \/ TusStep
       \/ \E w \in Workers : WorkerTake(w) \/ WorkerNote(w) \/ WorkerRelease(w)
       \/ \E p \in Paths : EchoExpires(p)
       \/ \E b \in Batches : TrackerStep(b)
    /\ UNCHANGED scanVars

ScanNext ==
    \/ IngestStep
    \/ \E w \in Workers : WorkerIndexRow(w)
    \/ \E s \in Scanners, found \in SUBSET Paths : ScanStart(s, found)
    \/ \E s \in Scanners : ScanStep(s)
    \/ \E p \in Paths : RemoveRow(p)

ScanSpec == ScanInit /\ [][ScanNext]_allVars

ScanFairness == Fairness /\ \A s \in Scanners : WF_allVars(ScanStep(s))

FairScanSpec == ScanSpec /\ ScanFairness
=============================================================================
