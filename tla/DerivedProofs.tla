---------------------------- MODULE DerivedProofs ----------------------------
(* The gate's guarantees for any set of chains, that it implements the safety   *)
(* part of GateSpec, and the types of everything that fills in what indexing    *)
(* left open.                                                                   *)
EXTENDS MCDerived, TLAPS, FiniteSetTheorems

\* Inductive as it stands: what excludes a second execution is that a timer and
\* an execution exclude each other, and what keeps a pending run alive is that
\* one of the two is there.
GateInv == TypeOK /\ AtMostOneExecution /\ PendingIsScheduled

LEMMA InitInv == Init => GateInv
BY DEF Init, GateInv, TypeOK, AtMostOneExecution, PendingIsScheduled

LEMMA StepInv == GateInv /\ [Next]_vars => GateInv'
<1> SUFFICES ASSUME GateInv, [Next]_vars PROVE GateInv'
  OBVIOUS
<1> USE DEF GateInv, TypeOK, AtMostOneExecution, PendingIsScheduled
<1>1. ASSUME NEW c \in Chains, RunMerges(c) PROVE GateInv'
  BY <1>1 DEF RunMerges, MustMerge, ArmsOnMerge
<1>2. ASSUME NEW c \in Chains, RunLeads(c) PROVE GateInv'
  <2>1. c \notin inFlight \cup timer \cup pendingFn /\ executing[c] = 0 /\ completing[c] = 0
    BY <1>2 DEF RunLeads, MustMerge
  <2> QED
    BY <1>2, <2>1 DEF RunLeads, StartsRun
<1>3. ASSUME NEW c \in Chains, FnReturns(c) PROVE GateInv'
  <2>1. /\ executing' \in [Chains -> Nat] /\ completing' \in [Chains -> Nat]
        /\ executing'[c] + completing'[c] = executing[c] + completing[c]
        /\ \A d \in Chains \ {c} : executing'[d] = executing[d] /\ completing'[d] = completing[d]
    BY <1>3 DEF FnReturns
  <2> QED
    BY <1>3, <2>1 DEF FnReturns, flags
<1>4. ASSUME NEW c \in Chains, Complete(c) PROVE GateInv'
  <2>1. executing[c] = 0 /\ completing[c] = 1 /\ c \in inFlight
    BY <1>4 DEF Complete
  <2> QED
    BY <1>4, <2>1 DEF Complete
<1>5. ASSUME NEW c \in Chains, FirePending(c) PROVE GateInv'
  <2>1. c \in pendingFn \ inFlight /\ executing[c] = 0 /\ completing[c] = 0
    BY <1>5 DEF FirePending
  <2> QED
    BY <1>5, <2>1 DEF FirePending, StartsRun
<1>6. ASSUME NEW c \in Chains, WindowPasses(c) PROVE GateInv'
  BY <1>6 DEF WindowPasses
<1>7. CASE UNCHANGED vars
  BY <1>7 DEF vars, flags
<1> QED
  BY <1>1, <1>2, <1>3, <1>4, <1>5, <1>6, <1>7 DEF Next, ChainStep

\* The type invariant, at most one execution per chain, and no pending run
\* without a timer or an execution that will arm one.
THEOREM GateCorrect == Spec => [](TypeOK /\ AtMostOneExecution /\ PendingIsScheduled)
BY InitInv, StepInv, PTL DEF Spec, GateInv

\* Every step of the gate is a step of the promise or a stutter.
LEMMA StepRefines == GateInv /\ [Next]_vars => [Abstract!Next]_(Abstract!vars)
<1> SUFFICES ASSUME GateInv, [Next]_vars PROVE [Abstract!Next]_(Abstract!vars)
  OBVIOUS
<1> USE DEF GateInv, TypeOK, AtMostOneExecution, PendingIsScheduled, Abstract!Next, Abstract!vars
<1>1. ASSUME NEW c \in Chains, RunMerges(c) PROVE Abstract!TriggerWaits(c)
  BY <1>1 DEF RunMerges, MustMerge, Abstract!TriggerWaits
<1>2. ASSUME NEW c \in Chains, RunLeads(c) PROVE Abstract!TriggerRuns(c)
  BY <1>2 DEF RunLeads, MustMerge, StartsRun, Abstract!TriggerRuns, Abstract!Start
<1>3. ASSUME NEW c \in Chains, FnReturns(c) PROVE UNCHANGED Abstract!vars
  BY <1>3 DEF FnReturns, flags
<1>4. ASSUME NEW c \in Chains, Complete(c) PROVE Abstract!Ends(c)
  BY <1>4 DEF Complete, Abstract!Ends
<1>5. ASSUME NEW c \in Chains, FirePending(c) PROVE Abstract!DeferredRuns(c)
  BY <1>5 DEF FirePending, StartsRun, Abstract!DeferredRuns, Abstract!Start
<1>6. ASSUME NEW c \in Chains, WindowPasses(c) PROVE Abstract!WindowCloses(c)
  BY <1>6 DEF WindowPasses, Abstract!WindowCloses
<1>7. CASE UNCHANGED vars
  BY <1>7 DEF vars, flags
<1> QED
  BY <1>1, <1>2, <1>3, <1>4, <1>5, <1>6, <1>7 DEF Next, ChainStep

\* The gate implements the promise, fairness aside: no execution starts inside
\* the window or beside another one, and a trigger after quiet runs at once.
THEOREM GateImplements == Spec => Abstract!Spec
<1>1. Init => Abstract!Init
  BY DEF Init, Abstract!Init
<1> QED
  BY <1>1, InitInv, StepInv, StepRefines, PTL DEF Spec, Abstract!Spec

-----------------------------------------------------------------------------
(* The watchdog and the one pass over old faces.                               *)

LEMMA WatchdogSteps == WdTypeOK /\ [WdNext]_wdVars => WdTypeOK'
<1> SUFFICES ASSUME WdTypeOK, [WdNext]_wdVars PROVE WdTypeOK'
  OBVIOUS
<1> USE LimitsArePositive DEF WdTypeOK
<1>1. CASE TickProbes
  BY <1>1 DEF TickProbes, Least
<1>2. CASE InspectFails \/ InspectAnswers \/ RestartAnswers
  BY <1>2 DEF InspectFails, InspectAnswers, RestartAnswers
<1>3. CASE Poll \/ LeftWithoutMl \/ UNCHANGED wdVars
  BY <1>3 DEF Poll, AfterPoll, LeftWithoutMl, wdVars
<1>4. ASSUME NEW to \in {"up", "wedged", "stopped"}, MlEvent(to) PROVE WdTypeOK'
  BY <1>4 DEF MlEvent
<1> QED
  BY <1>1, <1>2, <1>3, <1>4 DEF WdNext, WdRuns

\* Who was "good" all along is still, and the pass has it ahead, scored it, or could not
\* write its score.
PassStates == [pc : {"delay", "rows", "ended", "failed"}, rows : SUBSET Legacy, left : 0..Chunk]

PassInv ==
    /\ backfill \in PassStates
    /\ source \in [Legacy -> {"good", "bad", "offline", "trashed"}]
    /\ \A f \in Legacy \ spoilt : source[f] = "good"
    /\ backfill.pc = "rows" => \A f \in Legacy \ (spoilt \cup unwritten) : f \in backfill.rows \/ score[f] = "scored"

SharpnessInv == QuTypeOK /\ OncePassIsWhole /\ PassInv

LEMMA NoBackfillTyped ==
    ASSUME NEW pc \in {"delay", "rows", "ended", "failed"}
    PROVE  NoBackfill(pc) \in PassStates /\ NoBackfill(pc).pc = pc
BY ChunkSize DEF NoBackfill, PassStates

LEMMA SharpnessStarts == QuInit => SharpnessInv
BY NoBackfillTyped DEF QuInit, SharpnessInv, QuTypeOK, OncePassIsWhole, PassInv, PassStates

\* A row is taken off the list whether its score is written or not.
LEMMA RowTaken ==
    ASSUME backfill \in PassStates, NEW f \in Legacy, backfill.left > 0,
           backfill' = [backfill EXCEPT !.rows = @ \ {f}, !.left = @ - 1]
    PROVE  backfill' \in PassStates /\ backfill'.pc = backfill.pc /\ backfill'.rows = backfill.rows \ {f}
<1>1. backfill.rows \ {f} \in SUBSET Legacy /\ backfill.left - 1 \in 0..Chunk
  BY ChunkSize DEF PassStates
<1>2. backfill' = [backfill EXCEPT !.rows = backfill.rows \ {f}, !.left = backfill.left - 1]
  OBVIOUS
<1> QED
  BY <1>1, <1>2 DEF PassStates

LEMMA SharpnessSteps == SharpnessInv /\ [QuNext]_quVars => SharpnessInv'
<1> SUFFICES ASSUME SharpnessInv, [QuNext]_quVars PROVE SharpnessInv'
  OBVIOUS
<1> USE ChunkSize DEF SharpnessInv, QuTypeOK, OncePassIsWhole, PassInv
<1>1. CASE QueryTargets
  <2>1. CASE marker
    BY <1>1, <2>1, NoBackfillTyped DEF QueryTargets, PassStates
  <2>2. CASE ~marker
    BY <1>1, <2>2 DEF QueryTargets, PassStates
  <2> QED
    BY <2>1, <2>2
<1>2. ASSUME NEW f \in Legacy, ScoreRow(f) PROVE SharpnessInv'
  <2>1. /\ backfill.pc = "rows" /\ f \in backfill.rows /\ backfill.left > 0
        /\ score' = [score EXCEPT ![f] = IF source[f] = "good" THEN "scored" ELSE score[f]]
        /\ UNCHANGED <<source, marker, spoilt, unwritten>>
    BY <1>2 DEF ScoreRow
  <2>2. backfill' \in PassStates /\ backfill'.pc = "rows" /\ backfill'.rows = backfill.rows \ {f}
    BY <1>2, <2>1, RowTaken DEF ScoreRow
  <2>3. /\ score' \in [Legacy -> {"null", "scored"}]
        /\ \A g \in Legacy \ spoilt : score[g] = "scored" => score'[g] = "scored"
        /\ f \notin spoilt => score'[f] = "scored"
    BY <2>1
  <2> QED
    BY <2>1, <2>2, <2>3 DEF PassStates
<1>3. ASSUME NEW f \in Legacy, ScoreFails(f) PROVE SharpnessInv'
  <2>1. /\ backfill.pc = "rows" /\ backfill.left > 0 /\ unwritten' = unwritten \cup {f}
        /\ UNCHANGED <<score, source, marker, spoilt>>
    BY <1>3 DEF ScoreFails
  <2>2. backfill' \in PassStates /\ backfill'.pc = "rows" /\ backfill'.rows = backfill.rows \ {f}
    BY <1>3, <2>1, RowTaken DEF ScoreFails
  <2> QED
    BY <2>1, <2>2 DEF PassStates
<1>4. CASE Pause
  BY <1>4 DEF Pause, PassStates
<1>5. CASE WriteMarker \/ QuRestart \/ QueryFails \/ MarkerFails
  BY <1>5, NoBackfillTyped DEF WriteMarker, QuRestart, QueryFails, MarkerFails, PassStates
<1>6. ASSUME NEW f \in Legacy, NEW to \in {"good", "bad", "offline", "trashed"}, SourceEvent(f, to)
      PROVE SharpnessInv'
  BY <1>6 DEF SourceEvent
<1>7. CASE UNCHANGED quVars
  BY <1>7 DEF quVars
<1> QED
  BY <1>1, <1>2, <1>3, <1>4, <1>5, <1>6, <1>7 DEF QuNext, QuRuns

-----------------------------------------------------------------------------
(* Vectors.                                                                    *)

WriterStates == [pc : {"idle", "embed", "row", "vec"}, on : Photos]
Fills        == [running : BOOLEAN, rerun : BOOLEAN, leaving : BOOLEAN, todo : SUBSET Photos, failed : SUBSET Photos, success : BOOLEAN]

\* A rebuild fails at most once per target.
FailsOnce == rebuild.failed + Cardinality(rebuild.todo) <= rebuild.total

VectorsTyped == VcTypeOK /\ FailsOnce

LEMMA OffTyped == Off \in WriterStates /\ NoFill \in Fills
BY VectorBounds DEF Off, NoFill, WriterStates, Fills

LEMMA TargetsFinite == \A S \in SUBSET Photos : IsFiniteSet(S) /\ Cardinality(S) \in 0..Cardinality(Photos)
BY VectorBounds, FS_Subset, FS_CardinalityType

LEMMA VectorsStart == VcInit => VectorsTyped
<1>1. Cardinality({}) = 0
  BY FS_EmptySet
<1>2. Cardinality(Photos) \in Nat
  BY VectorBounds, FS_CardinalityType
<1> QED
  BY <1>1, <1>2, OffTyped, VectorBounds
  DEF VcInit, VectorsTyped, VcTypeOK, FailsOnce, NoRebuild, WriterStates, Fills

\* A writer moves on, its pass takes note of it.
LEMMA FinishTyped ==
    ASSUME VcTypeOK, NEW w \in Writers, Finishes(w)
    PROVE  writer' \in [Writers -> WriterStates] /\ fill' \in Fills /\ cooling' \subseteq Photos
<1>1. writer \in [Writers -> WriterStates] /\ fill \in Fills /\ cooling \subseteq Photos
  BY DEF VcTypeOK, WriterStates, Fills
<1>2. writer[w].on \in Photos
  BY <1>1 DEF WriterStates
<1>3. /\ [fill EXCEPT !.success = TRUE] \in Fills
      /\ [fill EXCEPT !.failed = fill.failed \cup {writer[w].on}] \in Fills
  BY ONLY <1>1, <1>2 DEF Fills
<1>4. writer' \in [Writers -> WriterStates]
  BY <1>1, OffTyped DEF Finishes
<1> QED
  BY <1>1, <1>3, <1>4 DEF Finishes

LEMMA WriterSteps ==
    ASSUME VectorsTyped, NEW w \in Writers, Embed(w) \/ WriteIdx(w) \/ WriteVec(w) PROVE VectorsTyped'
<1>1. /\ writer \in [Writers -> WriterStates] /\ fill \in Fills /\ cooling \subseteq Photos
      /\ writer[w].on \in Photos
  BY DEF VectorsTyped, VcTypeOK, WriterStates, Fills
<1>2. \A pc \in {"row", "vec"} : [writer EXCEPT ![w].pc = pc] \in [Writers -> WriterStates]
  BY <1>1 DEF WriterStates
<1>3. writer' \in [Writers -> WriterStates] /\ fill' \in Fills /\ cooling' \subseteq Photos
  BY <1>1, <1>2, FinishTyped DEF Embed, WriteIdx, WriteVec, VectorsTyped
<1>4. /\ idx' \subseteq Photos /\ vec' \in [Photos -> 0..MaxGen] /\ scored' \subseteq Photos
      /\ UNCHANGED <<row, rebuild, world>>
  BY <1>1 DEF Embed, WriteIdx, WriteVec, VectorsTyped, VcTypeOK
<1> QED
  BY <1>3, <1>4 DEF VectorsTyped, VcTypeOK, FailsOnce, WriterStates, Fills, world

LEMMA FillSteps ==
    ASSUME VectorsTyped,
           \/ BackfillClip \/ FillNext \/ FillPassEnds \/ FillLeaves
           \/ \E a \in Photos : CooldownEnds(a) \/ PoolEmbeds(a) \/ ScoreOne(a)
    PROVE  VectorsTyped'
<1>1. writer \in [Writers -> WriterStates] /\ fill \in Fills /\ cooling \subseteq Photos /\ scored \subseteq Photos
  BY DEF VectorsTyped, VcTypeOK, WriterStates, Fills
<1>2. \A w \in Writers, a \in Photos : Begins(w, a) => writer' \in [Writers -> WriterStates]
  BY <1>1 DEF Begins, WriterStates
<1>3. /\ writer' \in [Writers -> WriterStates] /\ fill' \in Fills /\ cooling' \subseteq Photos /\ scored' \subseteq Photos
      /\ UNCHANGED <<row, idx, vec, rebuild, world>>
  <2>1. CASE BackfillClip
    BY <1>1, <2>1 DEF BackfillClip, FillRound, NoFill, queryMissing, Fills
  <2>2. CASE FillNext
    BY <1>1, <1>2, <2>2 DEF FillNext, Fills, Writers
  <2>3. CASE FillPassEnds
    <3>1. cooling' \subseteq Photos /\ UNCHANGED <<row, idx, vec, scored, writer, rebuild, world>>
      BY <1>1, <2>3 DEF FillPassEnds, Fills
    <3>2. /\ \A S \in SUBSET Photos : [NoFill EXCEPT !.running = TRUE, !.todo = S] \in Fills
          /\ [NoFill EXCEPT !.running = TRUE, !.leaving = TRUE] \in Fills
      BY DEF NoFill, Fills
    <3>3. queryMissing \ cooling' \in SUBSET Photos
      BY DEF queryMissing
    <3> QED
      BY <1>1, <2>3, <3>1, <3>2, <3>3, OffTyped DEF FillPassEnds
  <2>4. CASE \E a \in Photos : CooldownEnds(a) \/ PoolEmbeds(a) \/ ScoreOne(a)
    BY <1>1, <1>2, <2>4 DEF CooldownEnds, PoolEmbeds, ScoreOne, Writers
  <2>5. CASE FillLeaves
    BY <1>1, <2>5 DEF FillLeaves, NoFill, Fills
  <2> QED
    BY <2>1, <2>2, <2>3, <2>4, <2>5
<1> QED
  BY <1>3 DEF VectorsTyped, VcTypeOK, FailsOnce, WriterStates, Fills, world

LEMMA RebuildSteps ==
    ASSUME VectorsTyped, RebuildStarts \/ RebuildNext \/ RebuildFinalizes PROVE VectorsTyped'
<1> USE DEF VectorsTyped, VcTypeOK, FailsOnce, world
<1>1. CASE RebuildStarts
  <2>1. RebuildTargets \in SUBSET Photos
    BY DEF RebuildTargets
  <2>2. Cardinality(RebuildTargets) \in 0..Cardinality(Photos) /\ Cardinality(Photos) \in Nat
    BY <2>1, TargetsFinite, VectorBounds, FS_CardinalityType
  <2>3. rebuild' = [running |-> TRUE, todo |-> RebuildTargets, total |-> Cardinality(RebuildTargets), failed |-> 0]
    BY <1>1 DEF RebuildStarts
  <2> QED
    BY <1>1, <2>1, <2>2, <2>3 DEF RebuildStarts
<1>2. CASE RebuildNext
  <2>1. PICK a \in rebuild.todo :
          IF row[a] # "indexed"
          THEN /\ rebuild' = [rebuild EXCEPT !.todo = @ \ {a}, !.failed = @ + 1] /\ UNCHANGED <<vec, scored, writer>>
          ELSE /\ rebuild' = [rebuild EXCEPT !.todo = @ \ {a}]
               /\ vec' = [vec EXCEPT ![a] = 0] /\ scored' = scored \ {a} /\ Begins("rebuild", a)
    BY <1>2 DEF RebuildNext
  <2>2. a \in Photos /\ rebuild.todo \in SUBSET Photos
    BY <2>1
  <2>3. /\ Cardinality(rebuild.todo \ {a}) = Cardinality(rebuild.todo) - 1 /\ Cardinality(rebuild.todo) \in Nat
        /\ Cardinality(rebuild.todo \ {a}) \in Nat
    BY <2>1, <2>2, TargetsFinite, FS_RemoveElement, FS_CardinalityType
  <2>4. writer' \in [Writers -> [pc : {"idle", "embed", "row", "vec"}, on : Photos]]
        /\ vec' \in [Photos -> 0..MaxGen] /\ scored' \subseteq Photos
    BY <2>1, <2>2, VectorBounds DEF Begins, Writers
  <2>5. /\ rebuild' \in [running : BOOLEAN, todo : SUBSET Photos, total : 0..Cardinality(Photos), failed : 0..Cardinality(Photos)]
        /\ FailsOnce'
    <3>1. CASE row[a] # "indexed"
      <4>1. rebuild' = [rebuild EXCEPT !.todo = rebuild.todo \ {a}, !.failed = rebuild.failed + 1]
        BY <2>1, <3>1
      <4>2. rebuild.failed \in 0..Cardinality(Photos) /\ rebuild.total \in 0..Cardinality(Photos)
            /\ Cardinality(Photos) \in Nat /\ rebuild.failed + Cardinality(rebuild.todo) <= rebuild.total
        BY VectorBounds, FS_CardinalityType
      <4>3. rebuild.failed + 1 \in 0..Cardinality(Photos)
            /\ (rebuild.failed + 1) + Cardinality(rebuild.todo \ {a}) <= rebuild.total
        BY ONLY <2>3, <4>2
      <4>4. rebuild \in [running : BOOLEAN, todo : SUBSET Photos, total : 0..Cardinality(Photos), failed : 0..Cardinality(Photos)]
            /\ rebuild.todo \ {a} \in SUBSET Photos
        OBVIOUS
      <4> QED
        BY ONLY <4>1, <4>3, <4>4 DEF FailsOnce
    <3>2. CASE row[a] = "indexed"
      <4>1. rebuild' = [rebuild EXCEPT !.todo = rebuild.todo \ {a}]
        BY <2>1, <3>2
      <4> QED
        BY <2>2, <2>3, <4>1
    <3> QED
      BY <3>1, <3>2
  <2> QED
    BY <1>2, <2>4, <2>5 DEF RebuildNext
<1>3. CASE RebuildFinalizes
  <2>1. NoRebuild \in [running : BOOLEAN, todo : SUBSET Photos, total : 0..Cardinality(Photos), failed : 0..Cardinality(Photos)]
        /\ NoRebuild.failed + Cardinality(NoRebuild.todo) <= NoRebuild.total
    BY FS_EmptySet, VectorBounds, FS_CardinalityType DEF NoRebuild
  <2> QED
    BY <1>3, <2>1, VectorBounds DEF RebuildFinalizes
<1> QED
  BY <1>1, <1>2, <1>3

LEMMA WorldSteps ==
    ASSUME VectorsTyped,
           MlGoes \/ MlReturns \/ Restart \/ \E a \in Photos : DriveLeaves(a) \/ DriveReturns(a) \/ PurgePhoto(a)
    PROVE  VectorsTyped'
<1> USE VectorBounds DEF VectorsTyped, VcTypeOK, FailsOnce, world
<1>1. CASE MlGoes \/ MlReturns
  <2>0. mlReady \in BOOLEAN /\ mlOutages \in 0..MaxMlOutages /\ MaxMlOutages \in Nat
    OBVIOUS
  <2>1. /\ mlReady' \in BOOLEAN
        /\ mlOutages' = mlOutages \/ (mlOutages < MaxMlOutages /\ mlOutages' = mlOutages + 1)
    BY ONLY <1>1 DEF MlGoes, MlReturns
  <2>2. UNCHANGED <<row, idx, vec, scored, writer, fill, cooling, rebuild, binGen, metaGen, trips, restarts>>
    BY <1>1 DEF MlGoes, MlReturns
  <2>3. mlOutages' \in 0..MaxMlOutages
    BY ONLY <2>0, <2>1
  <2> QED
    BY <2>1, <2>2, <2>3
<1>2. CASE Restart
  <2>1. NoRebuild \in [running : BOOLEAN, todo : SUBSET Photos, total : 0..Cardinality(Photos), failed : 0..Cardinality(Photos)]
        /\ NoRebuild.failed + Cardinality(NoRebuild.todo) <= NoRebuild.total
    BY FS_EmptySet, FS_CardinalityType DEF NoRebuild
  <2>2. NoFill \in Fills /\ Off \in WriterStates
    BY OffTyped
  <2>3. binGen' \in 1..MaxGen /\ scored' \subseteq Photos /\ restarts' \in 0..MaxVcRestarts
    BY <1>2 DEF Restart
  <2> QED
    BY <1>2, <2>1, <2>2, <2>3 DEF Restart, Fills, WriterStates
<1>3. ASSUME NEW a \in Photos, DriveLeaves(a) \/ DriveReturns(a) \/ PurgePhoto(a) PROVE VectorsTyped'
  BY <1>3 DEF DriveLeaves, DriveReturns, PurgePhoto
<1> QED
  BY <1>1, <1>2, <1>3

LEMMA VectorSteps == VectorsTyped /\ [VcNext]_vcVars => VectorsTyped'
<1>1. CASE UNCHANGED vcVars
  BY <1>1 DEF vcVars, VectorsTyped, VcTypeOK, FailsOnce
<1> QED
  BY <1>1, WriterSteps, FillSteps, RebuildSteps, WorldSteps DEF VcNext, VcRuns, Writers

\* A vector the running model made, or none.
OfThisModel(a) == vec[a] \in {0, binGen}

\* Once a new model generation is stamped, no photo keeps a vector of an older one
\* (rebuild.go, shouldStampModelGen): the safety half of SameGeneration.
OneModelUnderStamp == metaGen = binGen => \A a \in Photos : OfThisModel(a)

\* What the rebuild needs for it: no stamp is ahead of its binary, a photo that
\* left the library has nothing of an older model to bring into the next one, and
\* what a running rebuild did not replace it still has to visit.
StampInv ==
    /\ metaGen <= binGen
    /\ \A a \in Photos : row[a] = "gone" => a \notin idx /\ OfThisModel(a)
    /\ rebuild.running => \A a \in Photos : row[a] # "offline" /\ (OfThisModel(a) \/ a \in rebuild.todo)
    /\ OneModelUnderStamp

LEMMA StampStarts == VcInit => StampInv
BY DEF VcInit, StampInv, OneModelUnderStamp, OfThisModel, NoRebuild

\* Outside the rebuild a step leaves the stamp, the targets and the model alone,
\* and the vectors it touches it makes anew or drops.
LEMMA StampKept ==
    ASSUME VectorsTyped, StampInv,
           UNCHANGED <<row, rebuild, binGen, metaGen>>, vec' \in [Photos -> 0..MaxGen],
           \A a \in Photos : vec'[a] = vec[a] \/ OfThisModel(a)',
           \A a \in Photos : row[a] = "gone" => a \notin idx'
    PROVE  StampInv'
<1>1. \A a \in Photos : OfThisModel(a) => OfThisModel(a)'
  BY DEF OfThisModel
<1> QED
  BY <1>1 DEF StampInv, OneModelUnderStamp

LEMMA WriterStampSteps ==
    ASSUME VectorsTyped, VectorsTyped', StampInv, NEW w \in Writers, Embed(w) \/ WriteIdx(w) \/ WriteVec(w)
    PROVE  StampInv'
<1>1. vec \in [Photos -> 0..MaxGen] /\ vec' \in [Photos -> 0..MaxGen]
  BY DEF VectorsTyped, VcTypeOK
<1>2. UNCHANGED <<row, rebuild, binGen, metaGen>>
  BY DEF Embed, WriteIdx, WriteVec, world
<1>3. \A a \in Photos : row[a] = "gone" => a \notin idx'
  BY DEF Embed, WriteIdx, WriteVec, StampInv
<1>4. \A a \in Photos : vec'[a] = vec[a] \/ vec'[a] = binGen
  BY <1>1 DEF Embed, WriteIdx, WriteVec
<1> QED
  BY <1>1, <1>2, <1>3, <1>4, StampKept DEF OfThisModel

LEMMA FillStampSteps ==
    ASSUME VectorsTyped, StampInv,
           \/ BackfillClip \/ FillNext \/ FillPassEnds \/ FillLeaves \/ MlGoes \/ MlReturns
           \/ \E a \in Photos : CooldownEnds(a) \/ PoolEmbeds(a) \/ ScoreOne(a)
    PROVE  StampInv'
<1>1. UNCHANGED <<row, idx, vec, rebuild, binGen, metaGen>>
  BY DEF BackfillClip, FillNext, FillPassEnds, FillLeaves, MlGoes, MlReturns, CooldownEnds, PoolEmbeds, ScoreOne, world
<1>2. vec' \in [Photos -> 0..MaxGen]
  BY <1>1 DEF VectorsTyped, VcTypeOK
<1> QED
  BY <1>1, <1>2, StampKept DEF StampInv

LEMMA RebuildStampSteps ==
    ASSUME ~AwayInRebuild, VectorsTyped, StampInv, RebuildStarts \/ RebuildNext \/ RebuildFinalizes
    PROVE  StampInv'
<1>1. /\ vec \in [Photos -> 0..MaxGen] /\ binGen \in 1..MaxGen /\ metaGen \in 1..MaxGen /\ idx \subseteq Photos
      /\ rebuild.todo \subseteq Photos /\ row \in [Photos -> {"indexed", "offline", "gone"}]
      /\ rebuild \in [running : BOOLEAN, todo : SUBSET Photos, total : 0..Cardinality(Photos), failed : 0..Cardinality(Photos)]
  BY DEF VectorsTyped, VcTypeOK
<1>2. CASE RebuildStarts
  <2>1. /\ UNCHANGED <<row, idx, vec, binGen, metaGen>> /\ \A a \in Photos : row[a] # "offline"
        /\ rebuild'.running /\ rebuild'.todo = RebuildTargets
    BY <1>2 DEF RebuildStarts, world
  <2>2. \A a \in Photos : OfThisModel(a) => OfThisModel(a)'
    BY <2>1 DEF OfThisModel
  <2>3. \A a \in Photos : row[a] # "gone" => a \in rebuild'.todo
    BY <1>1, <2>1 DEF RebuildTargets
  <2> QED
    BY <2>1, <2>2, <2>3 DEF StampInv, OneModelUnderStamp
<1>3. CASE RebuildNext
  <2>1. PICK a \in rebuild.todo :
            IF row[a] # "indexed"
            THEN /\ rebuild' = [rebuild EXCEPT !.todo = @ \ {a}, !.failed = @ + 1]
                 /\ UNCHANGED <<vec, scored, writer>>
            ELSE /\ rebuild' = [rebuild EXCEPT !.todo = @ \ {a}]
                 /\ vec' = [vec EXCEPT ![a] = 0] /\ scored' = scored \ {a}
                 /\ Begins("rebuild", a)
    BY <1>3 DEF RebuildNext
  <2>2. UNCHANGED <<row, idx, binGen, metaGen>> /\ rebuild.running /\ a \in Photos
    BY <1>1, <1>3 DEF RebuildNext, world
  <2>3. rebuild'.running /\ rebuild'.todo = rebuild.todo \ {a}
    BY <1>1, <2>1, <2>2
  <2>4. \A b \in Photos : vec'[b] = vec[b] \/ vec'[b] = 0
    BY <1>1, <2>1, <2>2
  <2>5. \A b \in Photos : OfThisModel(b) => OfThisModel(b)'
    BY <2>2, <2>4 DEF OfThisModel
  <2>6. OfThisModel(a)'
    <3>1. CASE row[a] = "indexed"
      BY <1>1, <2>1, <2>2, <3>1 DEF OfThisModel
    <3>2. CASE row[a] # "indexed"
      BY <1>1, <2>2, <2>5, <3>2 DEF StampInv
    <3> QED
      BY <3>1, <3>2
  <2> QED
    BY <2>2, <2>3, <2>5, <2>6 DEF StampInv, OneModelUnderStamp
<1>4. CASE RebuildFinalizes
  <2>1. /\ UNCHANGED <<row, idx, binGen>> /\ rebuild.running /\ rebuild.todo = {} /\ ~rebuild'.running
        /\ metaGen' \in {metaGen, binGen}
    BY <1>4 DEF RebuildFinalizes, NoRebuild
  <2>2. \A a \in Photos : vec'[a] = vec[a] \/ vec'[a] = 0
    BY <1>1, <1>4 DEF RebuildFinalizes
  <2>3. \A a \in Photos : OfThisModel(a)
    BY <2>1 DEF StampInv
  <2>4. \A a \in Photos : OfThisModel(a)'
    BY <2>1, <2>2, <2>3 DEF OfThisModel
  <2>5. metaGen' <= binGen'
    BY <1>1, <2>1 DEF StampInv
  <2> QED
    BY <2>1, <2>4, <2>5 DEF StampInv, OneModelUnderStamp
<1> QED
  BY <1>2, <1>3, <1>4

LEMMA WorldStampSteps ==
    ASSUME ~AwayInRebuild, VectorsTyped, StampInv,
           Restart \/ \E a \in Photos : DriveLeaves(a) \/ DriveReturns(a) \/ PurgePhoto(a)
    PROVE  StampInv'
<1>1. /\ vec \in [Photos -> 0..MaxGen] /\ binGen \in 1..MaxGen /\ metaGen \in 1..MaxGen /\ idx \subseteq Photos
      /\ row \in [Photos -> {"indexed", "offline", "gone"}]
  BY DEF VectorsTyped, VcTypeOK
<1>2. CASE Restart
  <2>1. /\ UNCHANGED <<row, idx, metaGen>> /\ ~rebuild'.running /\ (binGen' = binGen \/ binGen' = binGen + 1)
    BY <1>2 DEF Restart, NoRebuild
  <2>2. \A a \in Photos : vec'[a] = IF a \in idx THEN vec[a] ELSE 0
    BY <1>2 DEF Restart
  <2>3. \A a \in Photos : row[a] = "gone" => vec'[a] = 0
    BY <2>2 DEF StampInv
  <2>4. metaGen' <= binGen'
    BY <1>1, <2>1 DEF StampInv
  <2>5. metaGen' = binGen' => binGen' = binGen /\ \A a \in Photos : OfThisModel(a)
    BY <1>1, <2>1 DEF StampInv, OneModelUnderStamp
  <2>6. OneModelUnderStamp'
    BY <2>2, <2>5 DEF OneModelUnderStamp, OfThisModel
  <2>7. \A a \in Photos : row'[a] = "gone" => a \notin idx' /\ OfThisModel(a)'
    BY <2>1, <2>3 DEF StampInv, OfThisModel
  <2> QED
    BY <2>1, <2>4, <2>6, <2>7 DEF StampInv
<1>3. ASSUME NEW a \in Photos, DriveLeaves(a) \/ DriveReturns(a) PROVE StampInv'
  <2>1. /\ UNCHANGED <<idx, vec, rebuild, binGen, metaGen>>
        /\ \E s \in {"indexed", "offline"} : row' = [row EXCEPT ![a] = s]
        /\ ~rebuild.running
    BY <1>3 DEF DriveLeaves, DriveReturns, StampInv, world
  <2>2. \A b \in Photos : row'[b] = "gone" => row[b] = "gone"
    BY <1>1, <2>1
  <2>3. \A b \in Photos : OfThisModel(b) => OfThisModel(b)'
    BY <2>1 DEF OfThisModel
  <2> QED
    BY <2>1, <2>2, <2>3 DEF StampInv, OneModelUnderStamp
<1>4. ASSUME NEW a \in Photos, PurgePhoto(a) PROVE StampInv'
  <2>1. /\ row' = [row EXCEPT ![a] = "gone"] /\ idx' = idx \ {a} /\ vec' = [vec EXCEPT ![a] = 0]
        /\ UNCHANGED <<rebuild, binGen, metaGen>>
    BY <1>4 DEF PurgePhoto
  <2>2. \A b \in Photos : OfThisModel(b) \/ b = a => OfThisModel(b)'
    BY <1>1, <2>1 DEF OfThisModel
  <2>3. \A b \in Photos : b # a => row'[b] = row[b]
    BY <1>1, <2>1
  <2>4. row'[a] = "gone" /\ a \notin idx'
    BY <1>1, <2>1
  <2> QED
    BY <2>1, <2>2, <2>3, <2>4 DEF StampInv, OneModelUnderStamp
<1> QED
  BY <1>2, <1>3, <1>4

LEMMA StampSteps == ASSUME ~AwayInRebuild PROVE VectorsTyped /\ StampInv /\ [VcNext]_vcVars => StampInv'
<1>1. CASE UNCHANGED vcVars
  BY <1>1 DEF vcVars, StampInv, OneModelUnderStamp, OfThisModel
<1> QED
  BY <1>1, VectorSteps, WriterStampSteps, FillStampSteps, RebuildStampSteps, WorldStampSteps
  DEF VcNext, VcRuns, Writers

-----------------------------------------------------------------------------
(* Texts.                                                                      *)

Versions    == 0..(MaxScanEdits + 1)
JudgeStates == [pc : {"idle", "ocr", "read", "write"}, on : Scans, read : Versions]
OcrPasses   == [running : BOOLEAN, rerun : BOOLEAN, leaving : BOOLEAN, second : BOOLEAN, todo : SUBSET Scans,
                failed : SUBSET Scans, done : SUBSET Scans]

\* A version is an edit.
TextsTyped == TxTypeOK /\ \A a \in Scans : content[a] <= scanEdits + 1

LEMMA JudgesTyped ==
    /\ NoJudge \in JudgeStates /\ NoPass \in OcrPasses
    /\ \A pc \in {"idle", "ocr", "read", "write"}, a \in Scans : [NoJudge EXCEPT !.pc = pc, !.on = a] \in JudgeStates
<1>1. (CHOOSE a \in Scans : TRUE) \in Scans /\ 0 \in Versions
  BY TextBounds DEF Versions
<1>2. NoPass \in OcrPasses
  BY DEF NoPass, OcrPasses
<1>3. NoJudge \in JudgeStates
  BY <1>1 DEF NoJudge, JudgeStates
<1> QED
  BY <1>2, <1>3 DEF JudgeStates

LEMMA TextsStart == TxInit => TextsTyped
<1>1. SUFFICES ASSUME TxInit PROVE TextsTyped
  OBVIOUS
<1>2. judge \in [Judges -> JudgeStates] /\ ocrPass \in OcrPasses
  BY <1>1, JudgesTyped DEF TxInit
<1>3. 0 \in Versions /\ 1 \in Versions /\ 0 \in 0..MaxOcrOutages /\ 0 \in 0..MaxScanEdits
  BY TextBounds DEF Versions
<1>4. /\ content \in [Scans -> Versions] /\ lines \in [Scans -> Versions] /\ verdict \in [Scans -> Versions]
      /\ \A a \in Scans : content[a] <= scanEdits + 1
  BY <1>1, <1>3 DEF TxInit
<1> QED
  BY <1>1, <1>2, <1>3, <1>4 DEF TxInit, TextsTyped, TxTypeOK, JudgeStates, OcrPasses, Versions

\* The lines are written, and the verdict is due.
LEMMA RecognizedTyped ==
    ASSUME judge \in [Judges -> JudgeStates], lines \in [Scans -> Versions], verdict \in [Scans -> Versions],
           content \in [Scans -> Versions], NEW w \in Judges, NEW a \in Scans, Recognized(w, a)
    PROVE  judge' \in [Judges -> JudgeStates] /\ lines' \in [Scans -> Versions] /\ verdict' \in [Scans -> Versions]
<1>1. 0 \in Versions /\ content[a] \in Versions
  BY TextBounds DEF Versions
<1> QED
  BY <1>1, JudgesTyped DEF Recognized

LEMMA RoundTyped == OcrRound \in OcrPasses /\ OcrRound.todo = queryMissingOCR
BY DEF OcrRound, NoPass, queryMissingOCR, OcrPasses

LEMMA JudgeSteps ==
    ASSUME TextsTyped,
           \/ PoolOcr \/ \E w \in Judges : JudgeReads(w) \/ JudgeWrites(w)
           \/ \E a \in Scans : VerdictNext(a)
    PROVE  TextsTyped'
<1>1. /\ judge \in [Judges -> JudgeStates] /\ lines \in [Scans -> Versions] /\ verdict \in [Scans -> Versions]
      /\ content \in [Scans -> Versions]
  BY DEF TextsTyped, TxTypeOK, JudgeStates, Versions
<1>2. \A w \in Judges, j \in JudgeStates : [judge EXCEPT ![w] = j] \in [Judges -> JudgeStates]
  BY <1>1
<1>3. /\ judge' \in [Judges -> JudgeStates] /\ lines' \in [Scans -> Versions] /\ verdict' \in [Scans -> Versions]
      /\ prompts' \in BOOLEAN /\ UNCHANGED <<content, ocrPass, resting, embedded, mlUp, ocrOutages, scanEdits>>
  <2>0. prompts \in BOOLEAN /\ Versions # {} /\ 0 \in Versions /\ \A w \in Judges : judge[w].on \in Scans /\ judge[w].read \in Versions
    BY <1>1, TextBounds DEF TextsTyped, TxTypeOK, JudgeStates, Versions
  <2>1. CASE PoolOcr
    <3>1. "pool" \in Judges
      BY DEF Judges
    <3>2. \/ Recognized("pool", judge["pool"].on)
          \/ judge' = [judge EXCEPT !["pool"] = NoJudge] /\ UNCHANGED <<lines, verdict>>
      BY <2>1 DEF PoolOcr
    <3>3. UNCHANGED <<content, ocrPass, resting, around>>
      BY <2>1 DEF PoolOcr
    <3>4. judge' \in [Judges -> JudgeStates] /\ lines' \in [Scans -> Versions] /\ verdict' \in [Scans -> Versions]
      BY <1>1, <1>2, <2>0, <3>1, <3>2, JudgesTyped, RecognizedTyped
    <3> QED
      BY <2>0, <3>3, <3>4 DEF around
  <2>2. ASSUME NEW w \in Judges, JudgeReads(w)
        PROVE  judge' \in [Judges -> JudgeStates] /\ prompts' \in BOOLEAN
               /\ UNCHANGED <<lines, verdict, content, ocrPass, resting, embedded, mlUp, ocrOutages, scanEdits>>
    <3>1. [judge EXCEPT ![w].pc = "write", ![w].read = lines[judge[w].on]] \in [Judges -> JudgeStates]
      BY <1>1, <2>0 DEF JudgeStates
    <3> QED
      BY <1>2, <2>0, <2>2, <3>1, JudgesTyped DEF JudgeReads
  <2>3. ASSUME NEW w \in Judges, JudgeWrites(w)
        PROVE  judge' \in [Judges -> JudgeStates] /\ verdict' \in [Scans -> Versions]
               /\ UNCHANGED <<lines, prompts, content, ocrPass, resting, embedded, mlUp, ocrOutages, scanEdits>>
    BY <1>1, <1>2, <2>0, <2>3, JudgesTyped DEF JudgeWrites, around
  <2>4. ASSUME NEW a \in Scans, VerdictNext(a)
        PROVE  judge' \in [Judges -> JudgeStates]
               /\ UNCHANGED <<lines, verdict, prompts, content, ocrPass, resting, embedded, mlUp, ocrOutages, scanEdits>>
    BY <1>2, <2>4, JudgesTyped DEF VerdictNext, around, Judges
  <2> QED
    BY <1>1, <2>0, <2>1, <2>2, <2>3, <2>4
<1> QED
  BY <1>3 DEF TextsTyped, TxTypeOK, JudgeStates, Versions

LEMMA OcrSteps ==
    ASSUME TextsTyped, BackfillOCR \/ OcrNext \/ OcrRetries \/ OcrPassEnds \/ OcrLeaves PROVE TextsTyped'
<1>1. /\ judge \in [Judges -> JudgeStates] /\ lines \in [Scans -> Versions] /\ verdict \in [Scans -> Versions]
      /\ content \in [Scans -> Versions] /\ ocrPass \in OcrPasses /\ resting \subseteq Scans /\ 0 \in Versions
  BY TextBounds DEF TextsTyped, TxTypeOK, JudgeStates, Versions, OcrPasses
<1>2. /\ \A r \in {TRUE} : [ocrPass EXCEPT !.rerun = r] \in OcrPasses /\ [ocrPass EXCEPT !.second = r] \in OcrPasses
      /\ [OcrRound EXCEPT !.second = TRUE, !.rerun = ocrPass.rerun] \in OcrPasses
      /\ [OcrRound EXCEPT !.rerun = ocrPass.rerun] \in OcrPasses
      /\ \A S \in SUBSET Scans : [OcrRound EXCEPT !.todo = OcrRound.todo \ S] \in OcrPasses
      /\ \A a \in Scans :
           /\ [ocrPass EXCEPT !.todo = ocrPass.todo \ {a}, !.done = ocrPass.done \cup {a}] \in OcrPasses
           /\ [ocrPass EXCEPT !.todo = ocrPass.todo \ {a}, !.failed = ocrPass.failed \cup {a}] \in OcrPasses
  BY <1>1, RoundTyped DEF OcrPasses
<1>3. /\ judge' \in [Judges -> JudgeStates] /\ lines' \in [Scans -> Versions] /\ verdict' \in [Scans -> Versions]
      /\ ocrPass' \in OcrPasses /\ resting' \subseteq Scans /\ UNCHANGED <<content, around>>
  <2>1. CASE BackfillOCR
    BY <1>1, <1>2, <2>1, RoundTyped DEF BackfillOCR
  <2>2. CASE OcrNext
    <3>1. PICK a \in ocrPass.todo :
            \/ Recognized("ocr", a) /\ ocrPass' = [ocrPass EXCEPT !.todo = ocrPass.todo \ {a}, !.done = ocrPass.done \cup {a}]
            \/ /\ ocrPass' = [ocrPass EXCEPT !.todo = ocrPass.todo \ {a}, !.failed = ocrPass.failed \cup {a}]
               /\ UNCHANGED <<lines, verdict, judge>>
      BY <2>2 DEF OcrNext
    <3>2. a \in Scans /\ UNCHANGED <<content, resting, around>>
      BY <1>1, <2>2 DEF OcrNext, OcrPasses
    <3>3. ASSUME Recognized("ocr", a)
          PROVE  judge' \in [Judges -> JudgeStates] /\ lines' \in [Scans -> Versions] /\ verdict' \in [Scans -> Versions]
      BY <1>1, <3>2, <3>3, RecognizedTyped DEF Judges
    <3> QED
      BY <1>1, <1>2, <3>1, <3>2, <3>3
  <2>3. CASE OcrRetries
    BY <1>1, <1>2, <2>3 DEF OcrRetries
  <2>4. CASE OcrPassEnds
    <3>1. resting' \in SUBSET Scans /\ UNCHANGED <<content, lines, verdict, judge, around>>
      BY <1>1, <2>4 DEF OcrPassEnds, OcrPasses
    <3>2. \/ ocrPass' = [NoPass EXCEPT !.running = TRUE, !.leaving = TRUE]
          \/ ocrPass' = [OcrRound EXCEPT !.todo = OcrRound.todo \ resting']
      BY <2>4 DEF OcrPassEnds
    <3>3. [NoPass EXCEPT !.running = TRUE, !.leaving = TRUE] \in OcrPasses
      BY DEF NoPass, OcrPasses
    <3> QED
      BY <1>1, <1>2, <3>1, <3>2, <3>3, JudgesTyped
  <2>5. CASE OcrLeaves
    BY <1>1, <2>5 DEF OcrLeaves, NoPass, OcrPasses
  <2> QED
    BY <2>1, <2>2, <2>3, <2>4, <2>5
<1> QED
  BY <1>3 DEF TextsTyped, TxTypeOK, JudgeStates, Versions, OcrPasses, around

LEMMA ScanSteps ==
    ASSUME TextsTyped,
           OcrGoes \/ OcrReturns \/ \E a \in Scans : RestEnds(a) \/ ScanEdited(a) \/ ScanDeleted(a) \/ Embedded(a)
    PROVE  TextsTyped'
<1> USE TextBounds DEF TextsTyped, TxTypeOK
<1>1. CASE OcrGoes \/ OcrReturns
  <2>1. UNCHANGED <<content, lines, verdict, judge, ocrPass, resting, embedded, prompts, scanEdits>> /\ mlUp' \in BOOLEAN
    BY <1>1 DEF OcrGoes, OcrReturns
  <2>2. ocrOutages' = ocrOutages \/ (ocrOutages < MaxOcrOutages /\ ocrOutages' = ocrOutages + 1)
    BY ONLY <1>1 DEF OcrGoes, OcrReturns
  <2>3. ocrOutages' \in 0..MaxOcrOutages
    BY <2>2
  <2> QED
    BY <2>1, <2>3
<1>2. ASSUME NEW a \in Scans, RestEnds(a) \/ Embedded(a) PROVE TextsTyped'
  BY <1>2 DEF RestEnds, Embedded, around
<1>3. ASSUME NEW a \in Scans, ScanEdited(a) PROVE TextsTyped'
  <2>1. judge' \in [Judges -> JudgeStates]
    BY <1>3, JudgesTyped DEF ScanEdited, Judges, JudgeStates, Versions
  <2>2. content' \in [Scans -> Versions] /\ scanEdits' \in 0..MaxScanEdits
        /\ \A b \in Scans : content'[b] <= scanEdits' + 1
    <3>1. scanEdits \in 0..MaxScanEdits /\ scanEdits < MaxScanEdits /\ scanEdits' = scanEdits + 1
          /\ content' = [content EXCEPT ![a] = content[a] + 1] /\ content \in [Scans -> Versions]
          /\ \A b \in Scans : content[b] <= scanEdits + 1
      BY <1>3 DEF ScanEdited, Versions
    <3>2. \A b \in Scans : content[b] \in Nat /\ content'[b] = IF b = a THEN content[b] + 1 ELSE content[b]
      BY <3>1 DEF Versions
    <3>3. \A b \in Scans : content'[b] \in Nat /\ content'[b] <= scanEdits' + 1
      BY <3>1, <3>2
    <3>4. content' \in [Scans -> Nat]
      BY <3>1, <3>3
    <3> QED
      BY <3>1, <3>3, <3>4 DEF Versions
  <2> QED
    BY <1>3, <2>1, <2>2 DEF ScanEdited, JudgeStates, Versions
<1>4. ASSUME NEW a \in Scans, ScanDeleted(a) PROVE TextsTyped'
  BY <1>4 DEF ScanDeleted
<1> QED
  BY <1>1, <1>2, <1>3, <1>4

LEMMA TextSteps == TextsTyped /\ [TxNext]_txVars => TextsTyped'
<1>1. CASE UNCHANGED txVars
  BY <1>1 DEF txVars, TextsTyped, TxTypeOK
<1> QED
  BY <1>1, JudgeSteps, OcrSteps, ScanSteps DEF TxNext, TxRuns, Judges

-----------------------------------------------------------------------------
(* Captions.                                                                   *)

CaptionVersions == 0..(MaxCaptionEdits + 1)
CaptionRows     == [state : {"live", "trashed", "gone"}, ver : 1..(MaxCaptionEdits + 1),
                    synced : BOOLEAN, handed : {"never", "fresh", "old"}, attempts : Nat]
Hooks           == {"none", "ask", "handed", "rejected"}
Sweeps          == [running : BOOLEAN, rerun : BOOLEAN, todo : SUBSET Assets,
                    answer : {"none", "handed", "rejected"}, on : SUBSET Assets]

\* A version is an act of the user, and an asset being marked has its answer.
CaptionsTyped ==
    /\ CpTypeOK /\ \A a \in Assets : asset[a].ver <= userActs + 1
    /\ sweep.on # {} => sweep.answer \in {"handed", "rejected"}

LEMMA FreshTyped == Fresh \in CaptionRows /\ Fresh.ver = 1 /\ NoSweep \in Sweeps /\ NoSweep.on = {}
BY CaptionBounds DEF Fresh, CaptionRows, NoSweep, Sweeps, NoCall

LEMMA CaptionsStart == CpInit => CaptionsTyped
<1>1. SUFFICES ASSUME CpInit PROVE CaptionsTyped
  OBVIOUS
<1>2. asset \in [Assets -> CaptionRows] /\ sweep \in Sweeps /\ sweep.on = {} /\ \A a \in Assets : asset[a].ver = 1
  BY <1>1, FreshTyped DEF CpInit
<1>3. /\ text \in [Assets -> CaptionVersions] /\ remote \in [Assets -> CaptionVersions] /\ inline \in [Assets -> Hooks]
      /\ asked = {} /\ deletes = {} /\ parserUp = TRUE /\ outages \in 0..MaxOutages /\ userActs \in 0..MaxCaptionEdits
  BY <1>1, CaptionBounds DEF CpInit, CaptionVersions, Hooks
<1> QED
  BY <1>2, <1>3 DEF CaptionsTyped, CpTypeOK, CaptionRows, CaptionVersions, Hooks, Sweeps

\* Marking a hand-off changes no version, and neither does the sweep.
SameVersions(rows) == rows \in [Assets -> CaptionRows] /\ \A a \in Assets : rows[a].ver = asset[a].ver

LEMMA MarkedTyped ==
    ASSUME asset \in [Assets -> CaptionRows], NEW a \in Assets, NEW answer PROVE SameVersions(Marked(a, answer))
<1> DEFINE r == [asset[a] EXCEPT !.attempts = @ + 1]
           s == [r EXCEPT !.synced = TRUE, !.handed = "fresh"]
<1>1. asset[a] \in CaptionRows
  OBVIOUS
<1>2. r \in CaptionRows /\ r.ver = asset[a].ver
  BY <1>1 DEF CaptionRows
<1>3. s \in CaptionRows /\ s.ver = r.ver
  BY ONLY <1>2 DEF CaptionRows
<1>4. Marked(a, answer) \in {asset, [asset EXCEPT ![a] = r], [asset EXCEPT ![a] = s]}
  BY DEF Marked
<1> HIDE DEF r, s
<1> QED
  BY <1>2, <1>3, <1>4 DEF SameVersions

LEMMA RequeuedTyped == ASSUME asset \in [Assets -> CaptionRows] PROVE SameVersions(requeueStale)
<1>1. \A a \in Assets : [asset[a] EXCEPT !.synced = FALSE] \in CaptionRows /\ [asset[a] EXCEPT !.synced = FALSE].ver = asset[a].ver
  BY DEF CaptionRows
<1> QED
  BY <1>1 DEF requeueStale, SameVersions

LEMMA SweepRoundTyped ==
    ASSUME asset \in [Assets -> CaptionRows], SweepRound
    PROVE  SameVersions(asset') /\ sweep' \in Sweeps /\ sweep'.on = {}
<1>1. queryPending(requeueStale) \in SUBSET Assets
  BY DEF queryPending
<1>2. \A S \in SUBSET Assets : /\ [NoSweep EXCEPT !.running = TRUE, !.todo = S] \in Sweeps
                               /\ [NoSweep EXCEPT !.running = TRUE, !.todo = S].on = {}
  BY DEF NoSweep, Sweeps, NoCall
<1> QED
  BY <1>1, <1>2, RequeuedTyped DEF SweepRound

LEMMA HookSteps ==
    ASSUME CaptionsTyped, NEW a \in Assets, FeedOneSkips(a) \/ FeedOneAsks(a) \/ FeedOneMarks(a) PROVE CaptionsTyped'
<1>1. asset \in [Assets -> CaptionRows] /\ inline \in [Assets -> Hooks] /\ asked \subseteq Assets
  BY DEF CaptionsTyped, CpTypeOK, CaptionRows, Hooks
<1>2. /\ inline' \in [Assets -> Hooks] /\ asked' \subseteq Assets /\ SameVersions(asset')
      /\ UNCHANGED <<text, remote, deletes, sweep, parserUp, outages, userActs>>
  <2>1. CASE FeedOneSkips(a)
    BY <1>1, <2>1 DEF FeedOneSkips, Hooks, NoCall, SameVersions
  <2>2. CASE FeedOneAsks(a)
    BY <1>1, <2>2 DEF FeedOneAsks, Answers, Hooks, SameVersions
  <2>3. CASE FeedOneMarks(a)
    BY <1>1, <2>3, MarkedTyped DEF FeedOneMarks, Hooks, NoCall
  <2> QED
    BY <2>1, <2>2, <2>3
<1> QED
  BY <1>1, <1>2 DEF CaptionsTyped, CpTypeOK, CaptionRows, Hooks, SameVersions

LEMMA SweepSteps ==
    ASSUME CaptionsTyped, BackfillCaptions \/ FeedNext \/ FeedMarks \/ SweepEnds PROVE CaptionsTyped'
<1>1. /\ asset \in [Assets -> CaptionRows] /\ sweep \in Sweeps /\ asked \subseteq Assets
      /\ sweep.on # {} => sweep.answer \in {"handed", "rejected"}
  BY DEF CaptionsTyped, CpTypeOK, CaptionRows, Sweeps
<1>2. SameVersions(asset)
  BY <1>1 DEF SameVersions
<1>3. /\ sweep' \in Sweeps /\ asked' \subseteq Assets /\ SameVersions(asset')
      /\ sweep'.on # {} => sweep'.answer \in {"handed", "rejected"}
      /\ UNCHANGED <<text, remote, deletes, inline, parserUp, outages, userActs>>
  <2>1. CASE BackfillCaptions
    <3>1. [sweep EXCEPT !.rerun = TRUE] \in Sweeps /\ [sweep EXCEPT !.rerun = TRUE].on = sweep.on
          /\ [sweep EXCEPT !.rerun = TRUE].answer = sweep.answer
      BY <1>1 DEF Sweeps
    <3> QED
      BY <1>1, <1>2, <2>1, <3>1, SweepRoundTyped DEF BackfillCaptions
  <2>2. CASE FeedNext
    <3>1. PICK a \in sweep.todo :
            \/ sweep' = [sweep EXCEPT !.todo = sweep.todo \ {a}] /\ asked' = asked
            \/ sweep' = [sweep EXCEPT !.todo = {}] /\ asked' \in {asked, asked \cup {a}}
            \/ \E answer \in {"handed", "rejected"} :
                 /\ sweep' = [sweep EXCEPT !.todo = sweep.todo \ {a}, !.answer = answer, !.on = {a}]
                 /\ asked' \in {asked, asked \cup {a}}
      <4>1. PICK a \in sweep.todo :
             IF asset[a].state = "gone"
             THEN sweep' = [sweep EXCEPT !.todo = sweep.todo \ {a}] /\ UNCHANGED asked
             ELSE \E answer \in Answers :
                    /\ sweep' = IF answer = "unavailable" THEN [sweep EXCEPT !.todo = {}]
                                ELSE [sweep EXCEPT !.todo = sweep.todo \ {a}, !.answer = answer, !.on = {a}]
                    /\ asked' = IF answer = "handed" THEN asked \cup {a} ELSE asked
        BY <2>2 DEF FeedNext
      <4> QED
        BY <4>1 DEF Answers
    <3>2. a \in Assets /\ sweep.on = {} /\ UNCHANGED <<asset, text, remote, deletes, inline, parserUp, outages, userActs>>
      BY <1>1, <2>2 DEF FeedNext, Sweeps
    <3>3. sweep' \in Sweeps /\ (sweep'.on # {} => sweep'.answer \in {"handed", "rejected"})
      <4>1. /\ [sweep EXCEPT !.todo = sweep.todo \ {a}] \in Sweeps /\ [sweep EXCEPT !.todo = sweep.todo \ {a}].on = {}
            /\ [sweep EXCEPT !.todo = {}] \in Sweeps /\ [sweep EXCEPT !.todo = {}].on = {}
        BY ONLY <1>1, <3>2 DEF Sweeps
      <4>2. ASSUME NEW answer \in {"handed", "rejected"}
            PROVE  /\ [sweep EXCEPT !.todo = sweep.todo \ {a}, !.answer = answer, !.on = {a}] \in Sweeps
                   /\ [sweep EXCEPT !.todo = sweep.todo \ {a}, !.answer = answer, !.on = {a}].answer = answer
        BY ONLY <1>1, <3>2, <4>2 DEF Sweeps
      <4> QED
        BY <3>1, <4>1, <4>2
    <3> QED
      BY <1>1, <1>2, <3>1, <3>2, <3>3 DEF SameVersions
  <2>3. CASE FeedMarks
    <3>1. PICK a \in sweep.on : asset' = Marked(a, sweep.answer)
      BY <2>3 DEF FeedMarks
    <3>2. a \in Assets
      BY <1>1 DEF Sweeps
    <3>3. [sweep EXCEPT !.on = {}, !.answer = NoCall] \in Sweeps /\ [sweep EXCEPT !.on = {}, !.answer = NoCall].on = {}
      BY ONLY <1>1 DEF Sweeps, NoCall
    <3> QED
      BY <1>1, <2>3, <3>1, <3>2, <3>3, MarkedTyped DEF FeedMarks
  <2>4. CASE SweepEnds
    BY <1>1, <1>2, <2>4, SweepRoundTyped, FreshTyped DEF SweepEnds
  <2> QED
    BY <2>1, <2>2, <2>3, <2>4
<1> QED
  BY <1>1, <1>3 DEF CaptionsTyped, CpTypeOK, CaptionRows, Sweeps, SameVersions

LEMMA ParserSteps ==
    ASSUME CaptionsTyped,
           \/ ParserGoes \/ ParserReturns
           \/ \E a \in Assets : PullOne(a) \/ DeleteRemote(a) \/ ParserDone(a) \/ HandoffAges(a)
    PROVE  CaptionsTyped'
<1>1. /\ asset \in [Assets -> CaptionRows] /\ text \in [Assets -> CaptionVersions] /\ remote \in [Assets -> CaptionVersions]
      /\ asked \subseteq Assets /\ deletes \subseteq Assets /\ 0 \in CaptionVersions /\ SameVersions(asset)
      /\ \A a \in Assets : asset[a].ver \in CaptionVersions
  BY CaptionBounds DEF CaptionsTyped, CpTypeOK, CaptionRows, CaptionVersions, SameVersions
<1>2. /\ text' \in [Assets -> CaptionVersions] /\ remote' \in [Assets -> CaptionVersions] /\ SameVersions(asset')
      /\ asked' \subseteq Assets /\ deletes' \subseteq Assets /\ parserUp' \in BOOLEAN /\ outages' \in 0..MaxOutages
      /\ UNCHANGED <<inline, sweep, userActs>>
  <2>0. parserUp \in BOOLEAN /\ outages \in 0..MaxOutages /\ MaxOutages \in Nat
    BY CaptionBounds DEF CaptionsTyped, CpTypeOK
  <2>1. CASE ParserGoes
    <3>1. parserUp' = FALSE /\ outages' \in 0..MaxOutages /\ UNCHANGED <<asset, text, remote, asked, deletes, inline, sweep, userActs>>
      BY <2>0, <2>1 DEF ParserGoes
    <3> QED
      BY <1>1, <3>1 DEF SameVersions
  <2>2. CASE ParserReturns
    <3>1. parserUp' = TRUE /\ UNCHANGED <<asset, text, remote, asked, deletes, inline, sweep, userActs, outages>>
      BY <2>2 DEF ParserReturns
    <3> QED
      BY <1>1, <2>0, <3>1 DEF SameVersions
  <2>3. ASSUME NEW a \in Assets, PullOne(a) \/ DeleteRemote(a) \/ ParserDone(a)
        PROVE  /\ text' \in [Assets -> CaptionVersions] /\ remote' \in [Assets -> CaptionVersions]
               /\ asked' \subseteq Assets /\ deletes' \subseteq Assets /\ UNCHANGED <<asset, inline, sweep, parserUp, outages, userActs>>
    BY <1>1, <2>3 DEF PullOne, DeleteRemote, ParserDone
  <2>4. ASSUME NEW a \in Assets, HandoffAges(a)
        PROVE  SameVersions(asset') /\ UNCHANGED <<text, remote, asked, deletes, inline, sweep, parserUp, outages, userActs>>
    <3>1. asset' = [asset EXCEPT ![a] = [asset[a] EXCEPT !.handed = "old"]]
      BY <2>4 DEF HandoffAges
    <3>2. [asset[a] EXCEPT !.handed = "old"] \in CaptionRows /\ [asset[a] EXCEPT !.handed = "old"].ver = asset[a].ver
      BY <1>1 DEF CaptionRows
    <3> QED
      BY <1>1, <2>4, <3>1, <3>2 DEF HandoffAges, SameVersions
  <2> QED
    BY <1>1, <2>0, <2>1, <2>2, <2>3, <2>4 DEF SameVersions
<1> QED
  BY <1>1, <1>2 DEF CaptionsTyped, CpTypeOK, CaptionRows, CaptionVersions, SameVersions

LEMMA UserSteps ==
    ASSUME CaptionsTyped, NEW a \in Assets, Reindexed(a) \/ CaptionTrash(a) \/ OnRestore(a) \/ CaptionPurge(a)
    PROVE  CaptionsTyped'
<1>1. /\ asset \in [Assets -> CaptionRows] /\ text \in [Assets -> CaptionVersions] /\ inline \in [Assets -> Hooks]
      /\ userActs \in Nat /\ userActs < MaxCaptionEdits /\ userActs' = userActs + 1
      /\ \A b \in Assets : asset[b].ver \in Nat /\ asset[b].ver >= 1 /\ asset[b].ver <= userActs + 1
  BY CaptionBounds DEF CaptionsTyped, CpTypeOK, CaptionRows, CaptionVersions, Hooks,
                       Reindexed, CaptionTrash, OnRestore, CaptionPurge, UserActs
<1>2. /\ UNCHANGED <<remote, asked, sweep, parserUp, outages>> /\ deletes' \subseteq Assets
      /\ text' \in [Assets -> CaptionVersions] /\ inline' \in [Assets -> Hooks]
  BY <1>1, CaptionBounds DEF CaptionsTyped, CpTypeOK, CaptionVersions, Hooks, Reindexed, CaptionTrash, OnRestore, CaptionPurge
<1>3. PICK rec \in CaptionRows : /\ asset' = [asset EXCEPT ![a] = rec] \/ asset' = asset
                                 /\ rec.ver <= userActs' + 1
  <2>1. asset[a] \in CaptionRows /\ asset[a].ver \in 1..(MaxCaptionEdits + 1) /\ asset[a].ver + 1 \in 1..(MaxCaptionEdits + 1)
    BY <1>1, CaptionBounds DEF CaptionRows
  <2>2. \A v \in 1..(MaxCaptionEdits + 1) : [Fresh EXCEPT !.ver = v] \in CaptionRows /\ [Fresh EXCEPT !.ver = v].ver = v
    BY DEF Fresh, CaptionRows
  <2>3. \A st \in {"live", "trashed", "gone"} :
          [asset[a] EXCEPT !.state = st] \in CaptionRows /\ [asset[a] EXCEPT !.state = st].ver = asset[a].ver
    BY <2>1 DEF CaptionRows
  <2>4. \/ asset' = asset \/ \E v \in {asset[a].ver, asset[a].ver + 1} : asset' = [asset EXCEPT ![a] = [Fresh EXCEPT !.ver = v]]
        \/ \E st \in {"live", "trashed", "gone"} : asset' = [asset EXCEPT ![a] = [asset[a] EXCEPT !.state = st]]
    BY DEF Reindexed, CaptionTrash, OnRestore, CaptionPurge
  <2>5. CASE asset' = asset
    BY <1>1, <2>1, <2>5
  <2>6. ASSUME NEW v \in {asset[a].ver, asset[a].ver + 1}, asset' = [asset EXCEPT ![a] = [Fresh EXCEPT !.ver = v]]
        PROVE  \E rec \in CaptionRows : (asset' = [asset EXCEPT ![a] = rec] \/ asset' = asset) /\ rec.ver <= userActs' + 1
    <3>1. v \in 1..(MaxCaptionEdits + 1) /\ v <= userActs' + 1
      BY <1>1, <2>1
    <3> QED
      BY <2>2, <2>6, <3>1
  <2>7. ASSUME NEW st \in {"live", "trashed", "gone"}, asset' = [asset EXCEPT ![a] = [asset[a] EXCEPT !.state = st]]
        PROVE  \E rec \in CaptionRows : (asset' = [asset EXCEPT ![a] = rec] \/ asset' = asset) /\ rec.ver <= userActs' + 1
    <3>1. asset[a].ver <= userActs' + 1
      BY <1>1
    <3> QED
      BY <2>3, <2>7, <3>1
  <2> QED
    BY <2>4, <2>5, <2>6, <2>7
<1>4. asset' \in [Assets -> CaptionRows] /\ \A b \in Assets : asset'[b].ver <= userActs' + 1
  BY <1>1, <1>3
<1>5. userActs' \in 0..MaxCaptionEdits
  BY <1>1, CaptionBounds
<1> QED
  BY <1>2, <1>4, <1>5 DEF CaptionsTyped, CpTypeOK, CaptionRows, CaptionVersions, Hooks

LEMMA CaptionSteps == CaptionsTyped /\ [CpNext]_cpVars => CaptionsTyped'
<1>1. CASE UNCHANGED cpVars
  BY <1>1 DEF cpVars, CaptionsTyped, CpTypeOK
<1> QED
  BY <1>1, HookSteps, SweepSteps, ParserSteps, UserSteps DEF CpNext, CpRuns

-----------------------------------------------------------------------------
(* Side by side.                                                               *)

LEMMA WatchdogStarts == WdInit => WdTypeOK
<1> SUFFICES ASSUME WdInit PROVE WdTypeOK
  OBVIOUS
<1>1. lastReady \in BOOLEAN /\ backlog \in {"none", "unseen", "left"}
  BY Zenon DEF WdInit
<1>2. /\ ml \in {"up", "wedged", "stopped"} /\ probe \in {"wait", "inspect", "restart"}
      /\ fails \in 0..FailLimit /\ since \in 0..CooldownTicks
  BY LimitsArePositive DEF WdInit
<1> QED
  BY <1>1, <1>2 DEF WdTypeOK

LEMMA StartSideBySide == MCInit => Init /\ VcInit /\ TxInit /\ CpInit /\ QuInit /\ WdInit
BY DEF MCInit

LEMMA StepSideBySide ==
    [MCNext]_derivedVars => /\ [Next]_vars /\ [VcNext]_vcVars /\ [TxNext]_txVars
                            /\ [CpNext]_cpVars /\ [QuNext]_quVars /\ [WdNext]_wdVars
<1>1. SUFFICES ASSUME [MCNext]_derivedVars
               PROVE  /\ [Next]_vars /\ [VcNext]_vcVars /\ [TxNext]_txVars
                      /\ [CpNext]_cpVars /\ [QuNext]_quVars /\ [WdNext]_wdVars
  OBVIOUS
<1>2. CASE MCNext
  BY <1>2 DEF MCNext
<1>3. CASE UNCHANGED derivedVars
  BY <1>3 DEF derivedVars
<1> QED
  BY <1>1, <1>2, <1>3

DerivedInv == GateInv /\ VectorsTyped /\ TextsTyped /\ CaptionsTyped /\ SharpnessInv /\ WdTypeOK

LEMMA DerivedStarts == MCInit => DerivedInv
BY StartSideBySide, InitInv, VectorsStart, TextsStart, CaptionsStart, SharpnessStarts, WatchdogStarts DEF DerivedInv

LEMMA DerivedSteps == DerivedInv /\ [MCNext]_derivedVars => DerivedInv'
BY StepSideBySide, StepInv, VectorSteps, TextSteps, CaptionSteps, SharpnessSteps, WatchdogSteps DEF DerivedInv

\* Every part of the machinery keeps its types, the numbers of the rebuild, of the
\* versions and of the counters of the watchdog included.
THEOREM DerivedTypesCorrect == MCSpec => []DerivedTypesOK
<1>1. DerivedInv => DerivedTypesOK
  BY DEF DerivedInv, DerivedTypesOK, GateInv, VectorsTyped, TextsTyped, CaptionsTyped, SharpnessInv
<1> QED
  BY <1>1, DerivedStarts, DerivedSteps, PTL DEF MCSpec

\* The marker that forbids another pass over old faces stands for a whole pass.
THEOREM PassIsWhole == MCSpec => []OncePassIsWhole
<1>1. DerivedInv => OncePassIsWhole
  BY DEF DerivedInv, SharpnessInv
<1> QED
  BY <1>1, DerivedStarts, DerivedSteps, PTL DEF MCSpec

\* Where no drive is away while a new generation is rebuilt, the stamp says of every
\* vector which model made it, whatever failed, restarted or was trashed on the way
\* (rebuild.go, run): no search compares the vectors of two models.
THEOREM StampIsTrue == ASSUME ~AwayInRebuild PROVE MCSpec => []OneModelUnderStamp
<1>1. MCInit => DerivedInv /\ StampInv
  BY DerivedStarts, StartSideBySide, StampStarts
<1>2. DerivedInv /\ StampInv /\ [MCNext]_derivedVars => (DerivedInv /\ StampInv)'
  <2>1. ASSUME DerivedInv, StampInv, [MCNext]_derivedVars PROVE DerivedInv' /\ StampInv'
    <3>1. [VcNext]_vcVars /\ VectorsTyped
      BY <2>1, StepSideBySide DEF DerivedInv
    <3>2. StampInv'
      BY <2>1, <3>1, StampSteps
    <3> QED
      BY <2>1, <3>2, DerivedSteps
  <2> QED
    BY <2>1
<1>3. StampInv => OneModelUnderStamp
  BY DEF StampInv
<1> QED
  BY <1>1, <1>2, <1>3, PTL DEF MCSpec
=============================================================================
