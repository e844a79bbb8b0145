----------------------------- MODULE MCDerived -----------------------------
(* The machinery that fills in what indexing left open: the backfill gate, the *)
(* vectors, the text, the captions, the sharpness of old faces and the         *)
(* watchdog of the ML backend.  The components share no state, so each is      *)
(* explored on its own: part names the one that runs in a behaviour.           *)
EXTENDS BackfillGate, Vectors, Texts, Captions, Sharpness, Watchdog

VARIABLE part

Parts == {"gate", "vectors", "texts", "captions", "sharpness", "watchdog"}

derivedVars == <<vars, vcVars, txVars, cpVars, quVars, wdVars, part>>

\* A component that does not run keeps one of its initial states.
MCInit ==
    /\ part \in Parts /\ Init /\ VcInit /\ TxInit /\ CpInit /\ QuInit /\ WdInit
    /\ part = "sharpness" \/ spoilt = {}

MCNext ==
    /\ UNCHANGED part
    /\ \/ part = "gate"     /\ Next   /\ UNCHANGED <<vcVars, txVars, cpVars, wdVars, quVars>>
       \/ part = "vectors"  /\ VcNext /\ UNCHANGED <<vars, txVars, cpVars, wdVars, quVars>>
       \/ part = "texts"    /\ TxNext /\ UNCHANGED <<vars, vcVars, cpVars, wdVars, quVars>>
       \/ part = "captions" /\ CpNext /\ UNCHANGED <<vars, vcVars, txVars, wdVars, quVars>>
       \/ part = "sharpness" /\ QuNext /\ UNCHANGED <<vars, vcVars, txVars, cpVars, wdVars>>
       \/ part = "watchdog" /\ WdNext /\ UNCHANGED <<vars, vcVars, txVars, cpVars, quVars>>

\* The fairness of each component's own specification.
MCFairness ==
    /\ \A c \in Chains : /\ WF_vars(part = "gate" /\ FnReturns(c)) /\ WF_vars(part = "gate" /\ Complete(c))
                         /\ WF_vars(part = "gate" /\ FirePending(c)) /\ WF_vars(part = "gate" /\ WindowPasses(c))
    /\ \A g \in VcGoroutines : WF_vcVars(part = "vectors" /\ VcRuns(g))
    /\ \A a \in Photos : WF_vcVars(part = "vectors" /\ CooldownEnds(a))
    /\ \A g \in TxGoroutines : WF_txVars(part = "texts" /\ TxRuns(g))
    /\ \A a \in Scans : WF_txVars(part = "texts" /\ RestEnds(a))
    /\ \A w \in CpWorkers : WF_cpVars(part = "captions" /\ CpRuns(w))
    /\ WF_quVars(part = "sharpness" /\ QuRuns)
    /\ \A g \in WdGoroutines : WF_wdVars(part = "watchdog" /\ WdRuns(g))

MCSpec == MCInit /\ [][MCNext]_derivedVars /\ MCFairness

\* The type invariants of the components.
DerivedTypesOK == TypeOK /\ VcTypeOK /\ TxTypeOK /\ CpTypeOK /\ QuTypeOK /\ WdTypeOK

\* Every photo that stays gets its vector and its scores, through outages, cooldowns,
\* restarts and batch ends that find a pass running (embedder.go:201); and when a new
\* model generation has been stamped, every vector is of that generation.
PhotosAreEmbedded == <>[](part = "vectors" => VectorSettled /\ SameGeneration)

\* Likewise its text and its verdict, and its caption although Parser loses requests; what
\* is gone here is in the end gone at Parser too; the one pass over the faces without a
\* score ends, and its marker covers every face it could score and write; a wedged ML
\* backend is replaced by one that answers, and then the work of every absence that the
\* poll saw is caught up.
DerivedSettles ==
    /\ <>[](/\ part = "texts"     => TextSettled
            /\ part = "captions"  => CaptionSettled /\ NoGhost
            /\ part = "sharpness" => PassEnds /\ OncePassIsWhole)
    /\ part = "watchdog" => WedgedRecovers
=============================================================================
