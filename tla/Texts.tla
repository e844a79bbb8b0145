-------------------------------- MODULE Texts -------------------------------
(* Text in images and the document verdict: ocrAsset (service/indexer.go) by   *)
(* the pool and by BackfillOCR (service/embedder.go), computeDocVerdict        *)
(* (service/docverdict.go) after each OCR and by BackfillDocVerdicts.          *)
EXTENDS Integers, FiniteSets

CONSTANTS
    Scans,          \* assets, none of them a video
    MaxScanEdits,
    MaxOcrOutages,
    EditsWithoutMl, \* may a file change while ML is away
    VerdictRaces    \* may an asset be recognized again while its verdict is computed

ASSUME TextBounds == Scans # {} /\ MaxScanEdits \in Nat /\ MaxOcrOutages \in Nat

VARIABLES
    content,    \* per asset: the version of its content, 0 once deleted
    lines,      \* asset_ocr and asset_ocr_lines: the version they tell of, or 0
    verdict,    \* the version the verdict was computed from, or 0 for doc_ver = 0
    embedded,   \* assets with a CLIP vector
    prompts,    \* are the prompt vectors cached
    judge,      \* per caller: the asset it is at, and what it read
    ocrPass,    \* BackfillOCR: running, rerun, past its last look at it, second try, targets, outcomes
    resting,    \* assets in the cooldown of kind 'ocr'
    mlUp, ocrOutages, scanEdits

txVars == <<content, lines, verdict, embedded, prompts, judge, ocrPass, resting, mlUp, ocrOutages, scanEdits>>
around == <<embedded, prompts, mlUp, ocrOutages, scanEdits>>

\* Who recognizes or judges: a pool worker, BackfillOCR, BackfillDocVerdicts.
Judges == {"pool", "ocr", "verdicts"}
NoJudge == [pc |-> "idle", on |-> CHOOSE a \in Scans : TRUE, read |-> 0]
NoPass  == [running |-> FALSE, rerun |-> FALSE, leaving |-> FALSE, second |-> FALSE, todo |-> {},
            failed |-> {}, done |-> {}]

TxInit ==
    /\ content = [a \in Scans |-> 1] /\ lines = [a \in Scans |-> 0] /\ verdict = [a \in Scans |-> 0]
    /\ embedded = {} /\ prompts = FALSE /\ judge = [w \in Judges |-> NoJudge]
    /\ ocrPass = NoPass /\ resting = {} /\ mlUp = TRUE /\ ocrOutages = 0 /\ scanEdits = 0

-----------------------------------------------------------------------------
(* ocrAsset: one transaction, then the verdict.                                *)

Judging(a) == \E w \in Judges : judge[w].pc = "write" /\ judge[w].on = a

Recognized(w, a) ==
    /\ lines' = [lines EXCEPT ![a] = content[a]] /\ verdict' = [verdict EXCEPT ![a] = 0]
    /\ judge' = [judge EXCEPT ![w] = [NoJudge EXCEPT !.pc = "read", !.on = a]]

\* The pool, for new content; the failure of a recognition is only logged.
PoolOcr ==
    LET a == judge["pool"].on IN
    /\ judge["pool"].pc = "ocr" /\ (VerdictRaces \/ ~Judging(a))
    /\ IF mlUp /\ content[a] # 0 THEN Recognized("pool", a)
       ELSE judge' = [judge EXCEPT !["pool"] = NoJudge] /\ UNCHANGED <<lines, verdict>>
    /\ UNCHANGED <<content, ocrPass, resting, around>>

\* The lines and the vector are read; without a vector, or without prompt
\* vectors, only the geometry is stored.
JudgeReads(w) ==
    LET a == judge[w].on IN
    /\ judge[w].pc = "read"
    /\ IF a \in embedded /\ (prompts \/ mlUp)
       THEN judge' = [judge EXCEPT ![w].pc = "write", ![w].read = lines[a]] /\ prompts' = TRUE
       ELSE judge' = [judge EXCEPT ![w] = NoJudge] /\ UNCHANGED prompts
    /\ UNCHANGED <<content, lines, verdict, ocrPass, resting, embedded, mlUp, ocrOutages, scanEdits>>

JudgeWrites(w) ==
    LET a == judge[w].on IN
    /\ judge[w].pc = "write"
    /\ verdict' = IF content[a] = 0 THEN verdict ELSE [verdict EXCEPT ![a] = judge[w].read]
    /\ judge' = [judge EXCEPT ![w] = NoJudge]
    /\ UNCHANGED <<content, lines, ocrPass, resting, around>>

\* BackfillDocVerdicts, for one of its candidates.
VerdictNext(a) ==
    /\ judge["verdicts"] = NoJudge
    /\ content[a] # 0 /\ lines[a] # 0 /\ verdict[a] = 0 /\ a \in embedded
    /\ judge' = [judge EXCEPT !["verdicts"] = [NoJudge EXCEPT !.pc = "read", !.on = a]]
    /\ UNCHANGED <<content, lines, verdict, ocrPass, resting, around>>

-----------------------------------------------------------------------------
(* BackfillOCR.                                                                *)

queryMissingOCR == {a \in Scans : content[a] # 0 /\ lines[a] = 0 /\ a \notin resting}
OcrRound == [NoPass EXCEPT !.running = TRUE, !.todo = queryMissingOCR]

BackfillOCR ==
    /\ ocrPass' = IF ocrPass.running THEN [ocrPass EXCEPT !.rerun = TRUE]
                  ELSE [OcrRound EXCEPT !.rerun = ocrPass.rerun]
    /\ UNCHANGED <<content, lines, verdict, judge, resting, around>>

\* One target.  The asset may be deleted since the query: the INSERT fails.
OcrNext ==
    /\ ocrPass.running /\ judge["ocr"] = NoJudge
    /\ \E a \in ocrPass.todo :
         /\ VerdictRaces \/ ~Judging(a)
         /\ IF mlUp /\ content[a] # 0
            THEN Recognized("ocr", a) /\ ocrPass' = [ocrPass EXCEPT !.todo = @ \ {a}, !.done = @ \cup {a}]
            ELSE ocrPass' = [ocrPass EXCEPT !.todo = @ \ {a}, !.failed = @ \cup {a}]
                 /\ UNCHANGED <<lines, verdict, judge>>
    /\ UNCHANGED <<content, resting, around>>

AllFailed == ocrPass.failed # {} /\ ocrPass.done = {}

\* A first pass that failed entirely is tried once more after a pause.
OcrRetries ==
    /\ ocrPass.running /\ ocrPass.todo = {} /\ judge["ocr"] = NoJudge /\ AllFailed /\ ~ocrPass.second
    /\ ocrPass' = IF queryMissingOCR = {} THEN [ocrPass EXCEPT !.second = TRUE]
                  ELSE [OcrRound EXCEPT !.second = TRUE, !.rerun = ocrPass.rerun]
    /\ UNCHANGED <<content, lines, verdict, judge, resting, around>>

\* The ledger, unless ML itself is away; then the round that was asked for.
OcrPassEnds ==
    LET rest == IF AllFailed /\ ~mlUp THEN resting
                ELSE (resting \cup {a \in ocrPass.failed : content[a] # 0}) \ ocrPass.done IN
    /\ ocrPass.running /\ ~ocrPass.leaving /\ ocrPass.todo = {} /\ judge["ocr"] = NoJudge
    /\ AllFailed => ocrPass.second
    /\ resting' = rest
    /\ ocrPass' = IF ocrPass.rerun THEN [OcrRound EXCEPT !.todo = @ \ rest]
                  ELSE [NoPass EXCEPT !.running = TRUE, !.leaving = TRUE]
    /\ UNCHANGED <<content, lines, verdict, judge, around>>

\* The deferred ocrRunning.Store(false), as in Vectors.
OcrLeaves ==
    /\ ocrPass.leaving
    /\ ocrPass' = [NoPass EXCEPT !.rerun = ocrPass.rerun]
    /\ UNCHANGED <<content, lines, verdict, judge, resting, around>>

-----------------------------------------------------------------------------
\* Mutant: a permanent blacklist.
RestForever(a) == a \in resting /\ content[a] = 0 /\ resting' = resting \ {a}
                  /\ UNCHANGED <<content, lines, verdict, judge, ocrPass, around>>

\* next_retry_at passes.
RestEnds(a) == a \in resting /\ resting' = resting \ {a}
               /\ UNCHANGED <<content, lines, verdict, judge, ocrPass, around>>

\* The upsert of changed content: nothing of the old text is touched.
ScanEdited(a) ==
    /\ content[a] # 0 /\ scanEdits < MaxScanEdits /\ judge["pool"] = NoJudge /\ (mlUp \/ EditsWithoutMl)
    /\ content' = [content EXCEPT ![a] = @ + 1] /\ scanEdits' = scanEdits + 1
    /\ judge' = [judge EXCEPT !["pool"] = [NoJudge EXCEPT !.pc = "ocr", !.on = a]]
    /\ UNCHANGED <<lines, verdict, ocrPass, resting, embedded, prompts, mlUp, ocrOutages>>

ScanDeleted(a) ==
    /\ content[a] # 0 /\ scanEdits < MaxScanEdits /\ scanEdits' = scanEdits + 1
    /\ content' = [content EXCEPT ![a] = 0] /\ lines' = [lines EXCEPT ![a] = 0]
    /\ verdict' = [verdict EXCEPT ![a] = 0] /\ resting' = resting \ {a} /\ embedded' = embedded \ {a}
    /\ UNCHANGED <<judge, ocrPass, prompts, mlUp, ocrOutages>>

\* Module Vectors: the asset gets its vector in the end.
Embedded(a) ==
    /\ content[a] # 0 /\ a \notin embedded /\ embedded' = embedded \cup {a}
    /\ UNCHANGED <<content, lines, verdict, judge, ocrPass, resting, prompts, mlUp, ocrOutages, scanEdits>>

OcrGoes ==
    /\ mlUp /\ ocrOutages < MaxOcrOutages /\ mlUp' = FALSE /\ ocrOutages' = ocrOutages + 1
    /\ EditsWithoutMl \/ judge["pool"].pc # "ocr"
    /\ UNCHANGED <<content, lines, verdict, judge, ocrPass, resting, embedded, prompts, scanEdits>>

OcrReturns ==
    /\ ~mlUp /\ mlUp' = TRUE
    /\ UNCHANGED <<content, lines, verdict, judge, ocrPass, resting, embedded, prompts, ocrOutages, scanEdits>>

TxRuns(g) ==
    \/ g = "pool"     /\ (PoolOcr \/ JudgeReads("pool") \/ JudgeWrites("pool"))
    \/ g = "ocr"      /\ \/ ~ocrPass.running /\ queryMissingOCR # {} /\ BackfillOCR
                         \/ OcrNext \/ OcrRetries \/ OcrPassEnds \/ OcrLeaves
                         \/ JudgeReads("ocr") \/ JudgeWrites("ocr")
    \/ g = "verdicts" /\ ((\E a \in Scans : VerdictNext(a)) \/ JudgeReads("verdicts") \/ JudgeWrites("verdicts"))
    \/ g = "vectors"  /\ \E a \in Scans : Embedded(a)
    \/ g = "ml"       /\ OcrReturns

TxGoroutines == {"pool", "ocr", "verdicts", "vectors", "ml"}

TxNext ==
    \/ \E g \in TxGoroutines : TxRuns(g)
    \/ BackfillOCR \/ OcrGoes
    \/ \E a \in Scans : RestEnds(a) \/ ScanEdited(a) \/ ScanDeleted(a)

TxSpec == /\ TxInit /\ [][TxNext]_txVars
          /\ \A g \in TxGoroutines : WF_txVars(TxRuns(g))
          /\ \A a \in Scans : WF_txVars(RestEnds(a))

-----------------------------------------------------------------------------
TxTypeOK ==
    /\ content \in [Scans -> 0..(MaxScanEdits + 1)] /\ lines \in [Scans -> 0..(MaxScanEdits + 1)]
    /\ verdict \in [Scans -> 0..(MaxScanEdits + 1)] /\ embedded \subseteq Scans /\ prompts \in BOOLEAN
    /\ judge \in [Judges -> [pc : {"idle", "ocr", "read", "write"}, on : Scans, read : 0..(MaxScanEdits + 1)]]
    /\ ocrPass \in [running : BOOLEAN, rerun : BOOLEAN, leaving : BOOLEAN, second : BOOLEAN, todo : SUBSET Scans,
                    failed : SUBSET Scans, done : SUBSET Scans]
    /\ resting \subseteq Scans /\ mlUp \in BOOLEAN /\ ocrOutages \in 0..MaxOcrOutages
    /\ scanEdits \in 0..MaxScanEdits

\* An asset that stays ends with the text of its content, and with the verdict
\* on that text: whoever recognized it, and whichever of text and vector came
\* first.
TextSettled == \A a \in Scans : content[a] # 0 => lines[a] = content[a] /\ verdict[a] = content[a]
TextSettles == <>[]TextSettled
=============================================================================
