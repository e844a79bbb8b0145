-------------------------------- MODULE Search --------------------------------
(* Smart search (service/search.go, searchcut.go): a page is cut from the       *)
(* nearest neighbours of the query, which are fetched with a margin because     *)
(* sqlite-vec counts k before the other filters drop rows; the margin doubles   *)
(* until the page is full.  A client scrolls; exact text hits lead page one,    *)
(* and the tail of the page is folded below a cut in the scores.                *)
EXTENDS Integers, Sequences, FiniteSets, FiniteSetsExt

CONSTANTS
    Vectors,        \* stored vectors, nearest first: rank 1..Vectors
    Limit,          \* page size of the client
    Slack, MaxK,    \* defaultSmartSearchSlack and maxSmartSearchK, scaled down
    Alpha,          \* searchCutAlpha, in percent
    ScoreSeqs,      \* possible scores by rank, in percent and falling
    DeadRuns        \* may a whole widening of k hold only rows that the filters drop

ASSUME SearchSizes == {Vectors, Limit, Slack, MaxK} \subseteq Nat \ {0} /\ MaxK > Limit + Slack /\ Alpha \in Nat

ASSUME ScoresFall ==
    \A s \in ScoreSeqs : \A r, q \in 1..Vectors : s[r] \in Nat /\ (r <= q => s[r] >= s[q])

VARIABLES
    live,       \* the ranks that the structural filters keep
    clear,      \* how many ranks reach photos.MinMatchSimilarity
    text,       \* the ranks whose recognised text holds the query
    score,      \* display score by rank
    fetch,      \* the running search: its offset, k, slack, and the last raw count
    pages       \* what the client got, page by page: the text hits on top, the semantic
                \* hits (shown by rank), which of them are folded, and how many it had of them

seVars == <<live, clear, text, score, fetch, pages>>

Ranks == 1..Vectors
NoFetch == [on |-> FALSE, offset |-> 0, k |-> 0, slack |-> 0, prevRaw |-> -1]
Capped(k) == Min({k, MaxK})

\* The hits of S from the offset on, up to the end: those with that many hits before them.
Position(S, r) == Cardinality({q \in S : q < r})
Slice(S, from, to) == {r \in S : from <= Position(S, r) /\ Position(S, r) < to}

\* The margins that the doubling reaches: the least set that holds the first one.
Margins == {s \in 1..MaxK : \A D \in SUBSET (1..MaxK) :
               Slack \in D /\ (\A t \in D : 2 * t <= MaxK => 2 * t \in D) => s \in D}

\* Every widening that stays inside the ranking finds a row that the filters keep.
NoDeadRun ==
    \A page \in 1..MaxK, s \in Margins :
        LET need == page * Limit IN
        need + 2 * s < MaxK /\ need + 2 * s < Vectors => \E r \in live : need + s < r /\ r <= need + 2 * s

SeInit ==
    /\ live \in SUBSET Ranks /\ clear \in {0, Vectors \div 2, Vectors} /\ text \in {{}, {1}, {Vectors}, {2, Vectors}}
    /\ score \in ScoreSeqs
    /\ DeadRuns \/ NoDeadRun
    /\ fetch = NoFetch /\ pages = <<>>

\* knnSemanticFetch: the rows among the k nearest that the WHERE clause keeps, and
\* those of them over the similarity floor (0: no floor).
Raw(k) == {r \in live : r <= k}
Filtered(k) == {r \in Raw(k) : clear = 0 \/ r <= clear}

\* ocrSearch: of the rows with the query in their text a page, the newest.
ocrSearch == {S \in SUBSET (text \cap live) : Cardinality(S) = Min({Limit, Cardinality(text \cap live)})}

\* Mutant: the merged page is trimmed to the limit again.
MergeTrimmed(ocr, clip) == Slice(clip \ ocr, 0, Limit - Cardinality(ocr))

\* What is left of the semantic hits below the text hits.
mergeOCRFirst(ocr, clip) == clip \ ocr

-------------------------------------------------------------------------------
(* The cut.                                                                    *)

Steps(S) == {r \in S : \E q \in S : q > r}
Gap(S, r) == score[r] - score[Min({q \in S : q > r})]
Widest(S) == CHOOSE r \in Steps(S) : \A q \in Steps(S) : Gap(S, r) > Gap(S, q) \/ (Gap(S, r) = Gap(S, q) /\ r <= q)

\* The widest gap is at least 0.10 and twice the mean.
Significant(S) ==
    LET gaps == Cardinality(Steps(S)) IN
    Gap(S, Widest(S)) * gaps >= Max({10 * gaps, 2 * (score[Min(S)] - score[Max(S)])})

Relevant(S, r) == \A q \in S : q <= r /\ q # Min(S) => 100 * score[q] >= Alpha * score[Min(S)]

\* Mutant: the cut falls before the cliff.
CutBefore(S) ==
    IF Cardinality(S) < 3 THEN S
    ELSE IF Significant(S) THEN {r \in S : r < Widest(S) \/ r = Min(S)}
    ELSE {r \in S : Relevant(S, r)}

\* The best matches of the semantic hits S: those up to the first widest gap, if it is
\* significant, and else those before the first that falls below alpha of the top score.
semanticCutIndex(S) ==
    IF Cardinality(S) < 3 THEN S
    ELSE IF Significant(S) THEN {r \in S : r <= Widest(S)}
    ELSE {r \in S : Relevant(S, r)}

\* applyCutTiering: the semantic hits of the page that are below the cut.
BelowCut(hits) == hits \ semanticCutIndex(hits)

-------------------------------------------------------------------------------
(* SmartSearch.                                                                *)

\* The client asks for the page after those it has.
SearchStarts ==
    /\ ~fetch.on /\ (pages # <<>> => pages[Len(pages)].size = Limit)
    /\ LET need == (Len(pages) + 1) * Limit IN
       fetch' = [on |-> TRUE, offset |-> Len(pages) * Limit, k |-> Capped(need + Slack), slack |-> Slack, prevRaw |-> -1]
    /\ UNCHANGED <<live, clear, text, score, pages>>

\* Mutant: the first fetch is taken for the whole library.
EnoughAtOnce == TRUE

Enough ==
    \/ Cardinality(Filtered(fetch.k)) >= fetch.offset + Limit \/ fetch.k >= MaxK
    \/ Cardinality(Raw(fetch.k)) = fetch.prevRaw

SearchWidens ==
    /\ fetch.on /\ ~Enough
    /\ fetch' = [fetch EXCEPT !.prevRaw = Cardinality(Raw(fetch.k)), !.slack = 2 * @,
                              !.k = Capped(fetch.offset + Limit + 2 * fetch.slack)]
    /\ UNCHANGED <<live, clear, text, score, pages>>

\* The page, and on the first one the text hits and the cut; deeper pages are all below it.
SearchAnswers ==
    /\ fetch.on /\ Enough
    /\ LET slice == Slice(Filtered(fetch.k), fetch.offset, fetch.offset + Limit) IN
       IF fetch.offset = 0
       THEN \E ocr \in ocrSearch :
            LET hits == mergeOCRFirst(ocr, slice) IN
            pages' = Append(pages, [exact |-> ocr, hits |-> hits, below |-> BelowCut(hits), size |-> Cardinality(slice)])
       ELSE pages' = Append(pages, [exact |-> {}, hits |-> slice, below |-> slice, size |-> Cardinality(slice)])
    /\ fetch' = NoFetch
    /\ UNCHANGED <<live, clear, text, score>>

SeNext == SearchStarts \/ SearchWidens \/ SearchAnswers

SeSpec == SeInit /\ [][SeNext]_seVars

-------------------------------------------------------------------------------

SeTypeOK ==
    /\ fetch.k \in 0..MaxK
    /\ \A p \in DOMAIN pages : pages[p].exact \cup pages[p].hits \subseteq live /\ pages[p].below \subseteq pages[p].hits

\* The live hits within the cap.
Hits == Filtered(MaxK)

\* Scrolling neither repeats a hit nor skips one: "every page is filled to limit as long
\* as enough live candidates exist anywhere in the ranking ... pages never gap or
\* overlap" (search.go:155); a text hit is on top of page one instead of among its semantic
\* hits, and never pushes one of them out.
ScrollIsComplete ==
    \A p \in DOMAIN pages :
        /\ pages[p].hits = Slice(Hits, (p - 1) * Limit, p * Limit) \ pages[p].exact
        /\ pages[p].exact \subseteq (IF p = 1 THEN text ELSE {})

\* What is folded away never outranks what is shown: the text hits are best matches, the
\* rest of the first page is split once, at its widest gap or where the scores fall below
\* the share of the top one, and something is always shown.
TiersAreSound ==
    \A p \in DOMAIN pages : p = 1 =>
        LET hits == pages[p].hits  below == pages[p].below  shown == hits \ below IN
        /\ below \cap pages[p].exact = {}
        /\ hits # {} => shown # {}
        /\ \A r \in shown, q \in below : r < q
        /\ below # {} =>
             \/ \E r \in shown : /\ \A q \in shown : q <= r
                                 /\ \A q \in Steps(hits) : Gap(hits, q) <= Gap(hits, r)
             \/ \A r \in hits : r \in shown <=> r = Min(hits) \/ 100 * score[r] >= Alpha * score[Min(hits)]
===============================================================================
