----------------------------- MODULE MCEntities -----------------------------
(* What the service makes of an indexed library: clusters and persons, albums, *)
(* smart views, moments and their curation, the search and the places page.  The *)
(* components share no state, so each is explored on its own: part names the   *)
(* one that runs in a behaviour.                                               *)
EXTENDS Clusters, People, Albums, SmartViews, Moments, Search, Curation, Places

VARIABLE part

\* Faces 1 and 2 are on one photo; 1 and 3 are of one kind.
McAssetOf == <<1, 1, 2>>
McKind    == <<1, 2, 1>>

\* One photo is the worst of all, one matches the view.
McScore    == [x \in Pics |-> IF x = CHOOSE y \in Pics : TRUE THEN 0 ELSE 1]
McMatching == {CHOOSE x \in Items : TRUE}

\* Similarities in percent: even, close together, down to nothing, with one cliff.
McScores == { <<95, 90, 66, 60, 13, 10, 9>>, <<50, 48, 46, 44, 42, 40, 38>>,
              <<90, 70, 50, 33, 20, 10, 0>>, <<90, 90, 30, 29, 28, 27, 26>> }

\* Libraries of four photos, for bursts, for trips and for family moments.
Every(v) == [x \in 1..4 |-> v]
Plain == [recipe |-> "trip", taken |-> <<1, 2, 3, 4>>, city |-> Every("A"), faces |-> Every({}),
          status |-> Every("shown"), look |-> Every(0), plain |-> Every(FALSE), alike |-> {},
          vectorless |-> {}, named |-> <<TRUE, FALSE>>, hidden |-> <<FALSE, FALSE>>]

McBursts == {[Plain EXCEPT !.taken = t, !.alike = a, !.look = l, !.vectorless = v, !.plain = p] :
    t \in {<<7, 5, 3, 1>>, <<1, 4, 4, 6>>}, a \in SUBSET {{1,2}, {1,3}, {1,4}, {2,3}, {2,4}, {3,4}},
    l \in {<<0, 1, 2, 3>>, <<3, 3, -1, 2>>}, v \in {{}, {2}}, p \in {Every(TRUE), <<TRUE, FALSE, TRUE, FALSE>>}}

McTrips == {[Plain EXCEPT !.taken = t, !.city = c, !.status[3] = s] :
    t \in [1..4 -> {0, 1, 7, 8, 15}], c \in {Every("A"), <<"A", "B", "B", "A">>, <<"B", "A", "nowhere", "B">>},
    s \in {"shown", "trashed"}}

McFamily == {[Plain EXCEPT !.recipe = "family", !.faces = f, !.status[2] = s, !.hidden = h, !.named = n] :
    f \in [1..4 -> SUBSET {1, 2}], s \in {"shown", "trashed"}, h \in {<<FALSE, FALSE>>, <<FALSE, TRUE>>},
    n \in {<<TRUE, FALSE>>, <<TRUE, TRUE>>}}

McLibraries == McBursts \cup McTrips \cup McFamily

\* Spots close to each other in one town, newest photo first, and trips of three photos.
Shot(town, date, spot) == [town |-> town, taken |-> date, at |-> spot]
McAtlases ==
    {<<Shot("A", 4, 3), Shot("A", 3, p), Shot("A", 2, q), Shot("A", 1, r)>> : p, q \in {0, 4, 6, 8}, r \in {6, 8}}
    \cup {[x \in 1..3 |-> Shot(t[x], d[x], 0)] :
            t \in {<<"A", "A", "B">>, <<"A", "nowhere", "A">>}, d \in {e \in [1..3 -> {0, 2, 3, 7}] : e[1] \in {0, 2}}}

Parts == {"clusters", "people", "albums", "views", "moments", "search", "curation", "places"}

\* A component that does not run keeps one of its initial states.
MCInit ==
    /\ part \in Parts
    /\ PpInit /\ AbInit /\ SvInit /\ MoInit
    /\ IF part = "clusters" THEN ClInit ELSE ClInit /\ near = {}
    /\ IF part = "curation" THEN CuInit ELSE lib = Plain /\ drafts = {} /\ curated = <<>>
    /\ IF part = "search" THEN SeInit
       ELSE live = {} /\ clear = 0 /\ text = {} /\ score \in {<<>>} /\ fetch = NoFetch /\ pages = <<>>
    /\ IF part = "places" THEN PaInit
       ELSE /\ snaps = <<>> /\ inView = {} /\ deleted = {} /\ covers = <<>> /\ spotNames = {}
            /\ making = NotMaking /\ made = {} /\ placeActs = 0 /\ snapEvents = 0

MCNext ==
    /\ UNCHANGED part
    /\ \/ part = "clusters" /\ ClNext /\ UNCHANGED <<ppVars, abVars, svVars, moVars, seVars, cuVars, paVars>>
       \/ part = "people"   /\ PpNext /\ UNCHANGED <<clVars, abVars, svVars, moVars, seVars, cuVars, paVars>>
       \/ part = "albums"   /\ AbNext /\ UNCHANGED <<clVars, ppVars, svVars, moVars, seVars, cuVars, paVars>>
       \/ part = "views"    /\ SvNext /\ UNCHANGED <<clVars, ppVars, abVars, moVars, seVars, cuVars, paVars>>
       \/ part = "moments"  /\ MoNext /\ UNCHANGED <<clVars, ppVars, abVars, svVars, seVars, cuVars, paVars>>
       \/ part = "search"   /\ SeNext /\ UNCHANGED <<clVars, ppVars, abVars, svVars, moVars, cuVars, paVars>>
       \/ part = "curation" /\ CuNext /\ UNCHANGED <<clVars, ppVars, abVars, svVars, moVars, seVars, paVars>>
       \/ part = "places"   /\ PaNext /\ UNCHANGED <<clVars, ppVars, abVars, svVars, moVars, seVars, cuVars>>

\* The fairness of each component's own specification.
MCFairness ==
    /\ \A g \in PpGoroutines : WF_ppVars(part = "people" /\ PpRuns(g))
    /\ \A g \in SvGoroutines : WF_svVars(part = "views" /\ SvRuns(g))
    /\ WF_moVars(part = "moments" /\ MoRuns)

MCSpec ==
    /\ MCInit /\ [][MCNext]_<<clVars, ppVars, abVars, svVars, moVars, seVars, cuVars, paVars, part>>
    /\ MCFairness

\* The type invariants of the components.
EntityTypesOK == ClTypeOK /\ PpTypeOK /\ AbTypeOK /\ SvTypeOK /\ MoTypeOK /\ SeTypeOK /\ CuTypeOK /\ PaTypeOK

\* The clusters are the chains of near faces, reported once done (faces.go:176, 258).
ClustersSound == ProgressClimbs /\ LabelsAreChains

\* What the user decided about persons outlives clustering, sweeps and purges: an
\* excluded face stays out, a named person stays, a cover is a face of its person.
PeopleSound == ExcludedStayOut /\ NamedSurvive /\ CoverIsMember

\* No recompute takes a face from an anchored person, nor makes an old member of a moment
\* look added this week.
RecomputesKeep == AnchorsKeepFaces /\ AddedAtKept

\* The tables of the albums stay sound, what three reads say of one album agrees, and an
\* album made of a place or of a trip holds its photos.
AlbumsAgree == AlbumsSound /\ ReadsAgree /\ PlaceAlbumsAreWhole

\* What the user placed, excluded or pinned stays so: evaluations and conversions of smart
\* views and recomputes of moments replay the user's edits and never undo them.
UserEditsStay == ExclusionsStay /\ PlacedIsKept /\ EditsRespected

\* Pages neither gap nor overlap, nothing shown ranks below what is folded away, the
\* places page tells one story of trips, and a spot opens to the photos it was listed with.
AnswersSound == ScrollIsComplete /\ TiersAreSound /\ PlacesAgree /\ SpotsArePinned

\* While batches keep ending, persons, live views and moments become what the library,
\* the recipes and the edits of the user ask for.
EntitiesSettle ==
    <>[](/\ part = "people"  => PeopleSettled
         /\ part = "views"   => ViewSettled
         /\ part = "moments" => MomentsSettled)
=============================================================================
