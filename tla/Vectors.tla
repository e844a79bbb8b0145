------------------------------ MODULE Vectors -------------------------------
(* CLIP vectors and aesthetic scores: writeClipEmbedding (service/indexer.go), *)
(* Embedder.Backfill with its failure ledger (service/embedder.go,             *)
(* service/backfillretry.go), BackfillAesthetic, and the rebuild after a new   *)
(* model generation (service/rebuild.go).  The ML backend is external; an      *)
(* asset's image is its thumbnail, which is there.                             *)
EXTENDS Integers, FiniteSets

CONSTANTS
    Photos,
    Broken,         \* photos whose image the model cannot embed
    MaxGen,         \* model generations of the binaries that run, from 1
    MaxMlOutages, MaxTrips, MaxVcRestarts,
    HalfWrites,     \* may a vector be missing below its asset_clip_idx row: a stop
                    \* between the two INSERTs, an embedding that fails after the
                    \* rebuild dropped the old one
    AwayInRebuild   \* may a drive be away while a new generation is rebuilt

ASSUME VectorBounds ==
    /\ Photos # {} /\ IsFiniteSet(Photos)
    /\ MaxGen \in Nat \ {0} /\ MaxMlOutages \in Nat /\ MaxTrips \in Nat /\ MaxVcRestarts \in Nat

VARIABLES
    row,        \* per photo: "indexed", "offline" or "gone"
    idx,        \* photos with a row in asset_clip_idx
    vec,        \* per photo: the generation of its vector in clip_embeddings, or 0
    scored,     \* photos with an aesthetic_score
    writer,     \* per writer: the photo it embeds, and the step
    fill,       \* Backfill: running, rerunPending, past its last look at it, targets, outcomes
    cooling,    \* photos whose next_retry_at is in the future
    rebuild,    \* the rebuild: its targets and its failures
    binGen, metaGen,  \* common.MLModelGen, and photos_meta.ml_model_gen
    mlReady, mlOutages, trips, restarts

vcVars == <<row, idx, vec, scored, writer, fill, cooling, rebuild, binGen, metaGen, mlReady, mlOutages, trips, restarts>>
world  == <<binGen, metaGen, mlReady, mlOutages, trips, restarts>>

Writers   == {"pool", "fill", "rebuild"}
Off       == [pc |-> "idle", on |-> CHOOSE a \in Photos : TRUE]
NoFill    == [running |-> FALSE, rerun |-> FALSE, leaving |-> FALSE, todo |-> {}, failed |-> {}, success |-> FALSE]
NoRebuild == [running |-> FALSE, todo |-> {}, total |-> 0, failed |-> 0]

VcInit ==
    /\ row = [a \in Photos |-> "indexed"] /\ idx = {} /\ vec = [a \in Photos |-> 0] /\ scored = {}
    /\ writer = [w \in Writers |-> Off] /\ fill = NoFill /\ cooling = {} /\ rebuild = NoRebuild
    /\ binGen = 1 /\ metaGen = 1 /\ mlReady = TRUE /\ mlOutages = 0 /\ trips = 0 /\ restarts = 0

Begins(w, a) == writer' = [writer EXCEPT ![w] = [pc |-> "embed", on |-> a]]

\* The caller goes on.  The pool and ForceReprocess ignore the outcome; embedOne
\* asks hasEmbeddingForPath for the asset_clip_idx row, and a success clears the
\* ledger.
Finishes(w) ==
    LET a == writer[w].on IN
    /\ writer' = [writer EXCEPT ![w] = Off]
    /\ IF w # "fill" THEN UNCHANGED <<fill, cooling>>
       ELSE IF a \in idx
       THEN fill' = [fill EXCEPT !.success = TRUE] /\ cooling' = cooling \ {a}
       ELSE fill' = [fill EXCEPT !.failed = @ \cup {a}] /\ UNCHANGED cooling

-----------------------------------------------------------------------------
(* embedClip and writeClipEmbedding, by one writer.                            *)

Embed(w) ==
    LET a == writer[w].on IN
    /\ writer[w].pc = "embed"
    /\ LET ok == mlReady /\ a \notin Broken /\ row[a] # "gone" IN
       /\ ok \/ w # "rebuild" \/ HalfWrites \/ a \in Broken \/ row[a] = "gone"
       /\ IF ok THEN writer' = [writer EXCEPT ![w].pc = "row"] /\ UNCHANGED <<fill, cooling>>
          ELSE Finishes(w)
    /\ UNCHANGED <<row, idx, vec, scored, rebuild, world>>

\* SELECT rowid, or INSERT; the foreign key refuses an asset that is gone.
WriteIdx(w) ==
    LET a == writer[w].on IN
    /\ writer[w].pc = "row"
    /\ IF row[a] = "gone" THEN Finishes(w) /\ UNCHANGED idx
       ELSE /\ idx' = idx \cup {a} /\ writer' = [writer EXCEPT ![w].pc = "vec"]
            /\ UNCHANGED <<fill, cooling>>
    /\ UNCHANGED <<row, vec, scored, rebuild, world>>

\* UPDATE, or INSERT, then scoreAesthetic.
WriteVec(w) ==
    LET a == writer[w].on IN
    /\ writer[w].pc = "vec"
    /\ vec' = [vec EXCEPT ![a] = binGen]
    /\ scored' = IF row[a] = "gone" THEN scored ELSE scored \cup {a}
    /\ Finishes(w)
    /\ UNCHANGED <<row, idx, rebuild, world>>

\* The pool embeds a file it indexed; a failure is left to Backfill.
PoolEmbeds(a) ==
    /\ writer["pool"].pc = "idle" /\ row[a] = "indexed" /\ a \notin idx /\ mlReady
    /\ Begins("pool", a)
    /\ UNCHANGED <<row, idx, vec, scored, fill, cooling, rebuild, world>>
-----------------------------------------------------------------------------
(* Embedder.Backfill.                                                          *)

queryMissing == {a \in Photos : row[a] = "indexed" /\ a \notin idx /\ a \notin cooling}

FillRound == fill' = [NoFill EXCEPT !.running = TRUE, !.rerun = fill.rerun, !.todo = queryMissing]

\* Called by the recovery chain, the post-batch chain and MountGuard.
BackfillClip ==
    /\ IF fill.running THEN fill' = [fill EXCEPT !.rerun = TRUE] ELSE FillRound
    /\ UNCHANGED <<row, idx, vec, scored, writer, cooling, rebuild, world>>

\* embedOne, with a thumbnail.
FillNext ==
    /\ fill.running /\ writer["fill"].pc = "idle"          \* leaving: todo is empty
    /\ \E a \in fill.todo : Begins("fill", a) /\ fill' = [fill EXCEPT !.todo = @ \ {a}]
    /\ UNCHANGED <<row, idx, vec, scored, cooling, rebuild, world>>

\* The pass ends: failures enter the ledger unless ML itself was away, and a
\* trigger that came meanwhile runs one more round.
FillPassEnds ==
    /\ fill.running /\ ~fill.leaving /\ fill.todo = {} /\ writer["fill"].pc = "idle"
    /\ cooling' = IF fill.success \/ mlReady THEN cooling \cup {a \in fill.failed : row[a] # "gone"} ELSE cooling
    /\ fill' = IF fill.rerun THEN [NoFill EXCEPT !.running = TRUE, !.todo = queryMissing \ cooling']
               ELSE [NoFill EXCEPT !.running = TRUE, !.leaving = TRUE]
    /\ UNCHANGED <<row, idx, vec, scored, writer, rebuild, world>>

\* The deferred running.Store(false): a trigger that came since the last look is kept for
\* the next call.
FillLeaves ==
    /\ fill.leaving
    /\ fill' = [NoFill EXCEPT !.rerun = fill.rerun]
    /\ UNCHANGED <<row, idx, vec, scored, writer, cooling, rebuild, world>>

\* Mutant: a permanent blacklist.
NeverAgain(a) == a \in cooling /\ row[a] = "gone" /\ cooling' = cooling \ {a}
                 /\ UNCHANGED <<row, idx, vec, scored, writer, fill, rebuild, world>>

\* The delays of the ladder are finite: 5 min to 24 h.
CooldownEnds(a) ==
    /\ a \in cooling
    /\ cooling' = cooling \ {a}
    /\ UNCHANGED <<row, idx, vec, scored, writer, fill, rebuild, world>>

\* backfillAestheticOnce, for one photo: no ML, but the vector has to be there.
ScoreOne(a) ==
    /\ row[a] # "gone" /\ a \in idx /\ a \notin scored /\ vec[a] # 0
    /\ scored' = scored \cup {a}
    /\ UNCHANGED <<row, idx, vec, writer, fill, cooling, rebuild, world>>

-----------------------------------------------------------------------------
(* The rebuild.                                                                *)

RebuildTargets == {a \in Photos : row[a] = "indexed"}

\* Mutant: the generation is stamped when the rebuild starts.
RebuildStampsFirst ==
    /\ ~rebuild.running /\ mlReady /\ metaGen # binGen
    /\ AwayInRebuild \/ \A a \in Photos : row[a] # "offline"
    /\ rebuild' = [running |-> TRUE, todo |-> RebuildTargets, total |-> Cardinality(RebuildTargets), failed |-> 0]
    /\ metaGen' = binGen
    /\ UNCHANGED <<row, idx, vec, scored, writer, fill, cooling, binGen, mlReady, mlOutages, trips, restarts>>

\* MaybeAutoRebuild, at a start with a stale generation and once ML is ready.
RebuildStarts ==
    /\ ~rebuild.running /\ mlReady /\ metaGen # binGen
    /\ AwayInRebuild \/ \A a \in Photos : row[a] # "offline"
    /\ rebuild' = [running |-> TRUE, todo |-> RebuildTargets, total |-> Cardinality(RebuildTargets), failed |-> 0]
    /\ UNCHANGED <<row, idx, vec, scored, writer, fill, cooling, world>>

\* A worker takes a target: the stat, dropClipVector (the vector, not its idx
\* row) and the reset of the score; ForceReprocess follows, and reports the row,
\* not the embedding.
RebuildNext ==
    /\ rebuild.running /\ writer["rebuild"].pc = "idle"
    /\ \E a \in rebuild.todo :
         IF row[a] # "indexed"
         THEN /\ rebuild' = [rebuild EXCEPT !.todo = @ \ {a}, !.failed = @ + 1]
              /\ UNCHANGED <<vec, scored, writer>>
         ELSE /\ rebuild' = [rebuild EXCEPT !.todo = @ \ {a}]
              /\ vec' = [vec EXCEPT ![a] = 0] /\ scored' = scored \ {a}
              /\ Begins("rebuild", a)
    /\ UNCHANGED <<row, idx, fill, cooling, world>>

shouldStampModelGen(total, failed) == total = 0 \/ failed < total

RebuildFinalizes ==
    /\ rebuild.running /\ rebuild.todo = {} /\ writer["rebuild"].pc = "idle"
    /\ vec' = [a \in Photos |-> IF a \in idx THEN vec[a] ELSE 0]     \* pruneOrphanClipVectors
    /\ metaGen' = IF shouldStampModelGen(rebuild.total, rebuild.failed) THEN binGen ELSE metaGen
    /\ rebuild' = NoRebuild
    /\ UNCHANGED <<row, idx, scored, writer, fill, cooling, binGen, mlReady, mlOutages, trips, restarts>>

-----------------------------------------------------------------------------
(* Around them.                                                                *)

MlGoes == /\ mlReady /\ mlOutages < MaxMlOutages
          /\ mlReady' = FALSE /\ mlOutages' = mlOutages + 1
          /\ UNCHANGED <<row, idx, vec, scored, writer, fill, cooling, rebuild, binGen, metaGen, trips, restarts>>

MlReturns == /\ ~mlReady /\ mlReady' = TRUE
             /\ UNCHANGED <<row, idx, vec, scored, writer, fill, cooling, rebuild, binGen, metaGen, mlOutages, trips, restarts>>

\* MountGuard marks the drive's rows.
DriveLeaves(a) ==
    /\ row[a] = "indexed" /\ trips < MaxTrips
    /\ AwayInRebuild \/ ~rebuild.running
    /\ row' = [row EXCEPT ![a] = "offline"] /\ trips' = trips + 1
    /\ UNCHANGED <<idx, vec, scored, writer, fill, cooling, rebuild, binGen, metaGen, mlReady, mlOutages, restarts>>

DriveReturns(a) ==
    /\ row[a] = "offline"
    /\ row' = [row EXCEPT ![a] = "indexed"]
    /\ UNCHANGED <<idx, vec, scored, writer, fill, cooling, rebuild, world>>

\* dropClipVector, then the row goes and its idx and ledger rows with it.
PurgePhoto(a) ==
    /\ row[a] # "gone" /\ trips < MaxTrips /\ trips' = trips + 1
    /\ row' = [row EXCEPT ![a] = "gone"] /\ idx' = idx \ {a} /\ vec' = [vec EXCEPT ![a] = 0]
    /\ scored' = scored \ {a} /\ cooling' = cooling \ {a}
    /\ UNCHANGED <<writer, fill, rebuild, binGen, metaGen, mlReady, mlOutages, restarts>>

\* Restart, as the same version or a new one: EnsureAestheticHeadVer and
\* pruneOrphanClipVectors.
Restart ==
    /\ restarts < MaxVcRestarts /\ restarts' = restarts + 1
    /\ HalfWrites \/ (writer["rebuild"] = Off /\ \A w \in Writers : writer[w].pc # "vec")
    /\ \/ UNCHANGED <<binGen, scored>>
       \/ binGen < MaxGen /\ binGen' = binGen + 1 /\ scored' = {}
    /\ writer' = [w \in Writers |-> Off] /\ fill' = NoFill /\ rebuild' = NoRebuild
    /\ vec' = [a \in Photos |-> IF a \in idx THEN vec[a] ELSE 0]
    /\ UNCHANGED <<row, idx, cooling, metaGen, mlReady, mlOutages, trips>>

VcRuns(g) ==
    \/ g = "pool"    /\ (Embed("pool") \/ WriteIdx("pool") \/ WriteVec("pool"))
    \/ g = "chain"   /\ \/ ~fill.running /\ queryMissing # {} /\ BackfillClip
                        \/ FillNext \/ Embed("fill") \/ WriteIdx("fill") \/ WriteVec("fill") \/ FillPassEnds
                        \/ FillLeaves
    \/ g = "score"   /\ \E a \in Photos : ScoreOne(a)
    \/ g = "rebuild" /\ \/ RebuildStarts \/ RebuildNext \/ RebuildFinalizes
                        \/ Embed("rebuild") \/ WriteIdx("rebuild") \/ WriteVec("rebuild")
    \/ g = "ml"      /\ MlReturns
    \/ g = "drive"   /\ \E a \in Photos : DriveReturns(a)

VcGoroutines == {"pool", "chain", "score", "rebuild", "ml", "drive"}

VcNext ==
    \/ \E g \in VcGoroutines : VcRuns(g)
    \/ BackfillClip \/ MlGoes \/ Restart
    \/ \E a \in Photos : CooldownEnds(a) \/ PoolEmbeds(a) \/ DriveLeaves(a) \/ PurgePhoto(a)

VcSpec == /\ VcInit /\ [][VcNext]_vcVars
          /\ \A g \in VcGoroutines : WF_vcVars(VcRuns(g))
          /\ \A a \in Photos : WF_vcVars(CooldownEnds(a))

-----------------------------------------------------------------------------
VcTypeOK ==
    /\ row \in [Photos -> {"indexed", "offline", "gone"}] /\ idx \subseteq Photos
    /\ vec \in [Photos -> 0..MaxGen] /\ scored \subseteq Photos /\ cooling \subseteq Photos
    /\ writer \in [Writers -> [pc : {"idle", "embed", "row", "vec"}, on : Photos]]
    /\ fill \in [running : BOOLEAN, rerun : BOOLEAN, leaving : BOOLEAN, todo : SUBSET Photos,
                 failed : SUBSET Photos, success : BOOLEAN]
    /\ rebuild \in [running : BOOLEAN, todo : SUBSET Photos, total : 0..Cardinality(Photos),
                    failed : 0..Cardinality(Photos)]
    /\ binGen \in 1..MaxGen /\ metaGen \in 1..MaxGen /\ mlReady \in BOOLEAN
    /\ mlOutages \in 0..MaxMlOutages /\ trips \in 0..MaxTrips /\ restarts \in 0..MaxVcRestarts

\* Whatever failed on the way, an asset that stays in the library and whose
\* image can be embedded ends with a vector and a score: Backfill makes up for
\* the pool, for ML outages and for drives that were away.
VectorSettled == \A a \in Photos \ Broken : row[a] # "gone" => vec[a] # 0 /\ a \in scored
VectorSettles == <>[]VectorSettled

\* Vectors of two generations cannot be compared: when the rebuild is over, the
\* stamp says of every vector which model made it.
SameGeneration == \A a \in Photos \ Broken : row[a] # "gone" /\ metaGen = binGen => vec[a] = binGen
OneGeneration == <>[]SameGeneration
=============================================================================
