-------------------------------- MODULE Curation --------------------------------
(* How a moment is made from the library (service/moments_trip.go,                 *)
(* moments_family.go, moments_pick.go): the trip engine cuts the photos with a     *)
(* place where the time between them is long, the family engine mines the persons  *)
(* seen most, and the curation picks featured photos and a cover.  The windows,    *)
(* weeks and gaps are whole numbers of the unit that time is counted in.           *)
EXTENDS Integers, Sequences, FiniteSets, FiniteSetsExt

CONSTANTS
    Libraries,      \* the libraries to curate, each for one recipe
    LibrarySize,    \* number of photos, 1..LibrarySize in the order of their ids
    Week, GapDays,  \* an ISO week, and the gap that separates trips
    BurstWindow,    \* burstWindowSeconds: shots no further apart belong together
    MinAssets, MaxFeatured, MinPersonPhotos, MinTogetherPersons, TopPersons

ASSUME CurationSizes ==
    {LibrarySize, Week, GapDays, BurstWindow, MinAssets, MaxFeatured, MinPersonPhotos, MinTogetherPersons, TopPersons} \subseteq Nat \ {0}

\* The photos of a library have a time (0: none), a look and a city, its persons are numbered.
ASSUME LibrariesFit ==
    \A l \in Libraries : /\ l.recipe \in {"trip", "family"} /\ DOMAIN l.named \subseteq Nat \ {0}
                          /\ \A x \in 1..LibrarySize : l.taken[x] \in Nat /\ l.look[x] \in Int /\ l.city[x] \in {"A", "B", "", "nowhere"}

VARIABLES
    lib,        \* recipe, and per photo: taken (0: unknown), city, faces, status, look
                \* (aesthetic_score, -1: none), plain (fails the cover's brightness gate);
                \* the pairs that look alike, the photos without a vector; per person
                \* whether it is hidden and named
    drafts,     \* what the engine proposes: id, members, the place of a trip
    curated     \* per draft that was curated: the featured photos and the cover

cuVars == <<lib, drafts, curated>>

AllShots == 1..LibrarySize

CuInit == lib \in Libraries /\ drafts = {} /\ curated = <<>>

\* loadThemeCandidatePool and loadTripCandidates agree on what may be shown.
Pool == {x \in AllShots : lib.status[x] = "shown" /\ lib.taken[x] # 0}

---------------------------------------------------------------------------------
(* The trip engine.                                                              *)

\* loadTripCandidates: by time, then by id.
Candidates == {x \in Pool : lib.city[x] # "nowhere"}
Rank(x) == Cardinality({y \in Candidates : lib.taken[y] < lib.taken[x] \/ (lib.taken[y] = lib.taken[x] /\ y <= x)})
ByTime == [i \in 1..Cardinality(Candidates) |-> CHOOSE x \in Candidates : Rank(x) = i]

\* Mutant: a photo is compared with the first one of the segment.
BeginsFar(segs, i) == lib.taken[ByTime[i]] - lib.taken[ByTime[segs[Len(segs)].start]] > GapDays

Begins(segs, i) == lib.taken[ByTime[i]] - lib.taken[ByTime[i - 1]] > GapDays

\* One photo after the other begins a segment or extends the last one.
splitByGap ==
    LET n == Cardinality(Candidates)
        after[i \in 0..n] ==
            IF i = 0 THEN <<>>
            ELSE IF i = 1 \/ Begins(after[i - 1], i) THEN Append(after[i - 1], [start |-> i, end |-> i])
            ELSE [after[i - 1] EXCEPT ![Len(after[i - 1])].end = i]
    IN after[n]

SegItems(seg) == {x \in Candidates : Rank(x) \in seg.start..seg.end}

CountIn(S, c) == Cardinality({x \in S : lib.city[x] = c})

\* The most frequent city, the lesser name on a tie, with a second one seen on more
\* than 30% of the photos.
dominantPlace(S) ==
    LET cities == {lib.city[x] : x \in S} \ {""}
        First(C) == CHOOSE c \in C : \A d \in C : CountIn(S, c) > CountIn(S, d) \/ (CountIn(S, c) = CountIn(S, d) /\ (c = "A" \/ d # "A"))
        second == First(cities \ {First(cities)})
    IN IF cities = {} THEN <<>>
       ELSE IF Cardinality(cities) > 1 /\ 10 * CountIn(S, second) > 3 * Cardinality(S) THEN <<First(cities), second>>
       ELSE <<First(cities)>>

\* The recipe and the ISO week of the first photo.
TripMomentID(from) == <<"trip", (from - 1) \div Week>>

BuildTripMoments ==
    LET segs  == splitByGap
        trips == {SegItems(segs[i]) : i \in DOMAIN segs}
    IN {[id |-> TripMomentID(Min({lib.taken[x] : x \in trip})), members |-> trip, place |-> dominantPlace(trip)] :
            trip \in {t \in trips : Cardinality(t) >= MinAssets}}

---------------------------------------------------------------------------------
(* The family engine.                                                            *)

People == DOMAIN lib.named
PhotosOf(p) == {x \in AllShots : p \in lib.faces[x]}

\* The photos that count for a person are those of the pool.
Mined(p) == PhotosOf(p) \cap Pool

\* MinePersonEntities: those not hidden, seen often enough, the most frequent first.
MinePersonEntities ==
    LET seen == {p \in People : ~lib.hidden[p] /\ Cardinality(Mined(p)) >= MinPersonPhotos} IN
    {p \in seen : Cardinality({q \in seen : \/ Cardinality(Mined(q)) > Cardinality(Mined(p))
                                            \/ Cardinality(Mined(q)) = Cardinality(Mined(p)) /\ q < p}) < TopPersons}

\* buildTogetherDraft.
Together == {x \in Pool : Cardinality(lib.faces[x] \cap MinePersonEntities) >= MinTogetherPersons}

\* buildNamedPersonDraft: not for a person without a name.
BuildFamilyMoments ==
    LET proposals == {[id |-> <<"family", 0>>, members |-> Together, place |-> <<>>]}
                     \cup {[id |-> <<"person", p>>, members |-> PhotosOf(p) \cap Pool, place |-> <<>>] :
                              p \in {q \in MinePersonEntities : lib.named[q]}}
    IN {d \in proposals : MinePersonEntities # {} /\ Cardinality(d.members) >= MinAssets}

---------------------------------------------------------------------------------
(* PickFeaturedAndCover.                                                         *)

Timed(S) == {x \in S : lib.taken[x] # 0}

\* A window opens at a photo when the one before it is further away than the burst window.
Opens(S, x) == \A y \in Timed(S) : lib.taken[y] < lib.taken[x] => lib.taken[x] - lib.taken[y] > BurstWindow

\* It lasts until the next one opens.
Window(S, x) ==
    {y \in Timed(S) : /\ lib.taken[y] >= lib.taken[x]
                      /\ \A z \in Timed(S) : Opens(S, z) /\ lib.taken[z] > lib.taken[x] => lib.taken[y] < lib.taken[z]}

\* A photo without a time is alone.
clusterByTimeWindow(S) == {Window(S, x) : x \in {y \in Timed(S) : Opens(S, y)}} \cup {{x} : x \in S \ Timed(S)}

\* Mutant: only what looks like the first photo of a group joins it.
GroupsByFirst(S) ==
    {{x} \cup {y \in S \ lib.vectorless : x < y /\ {x, y} \in lib.alike} : x \in {z \in S : \A w \in S : w < z => {w, z} \notin lib.alike}}

Alike(x, y) == {x, y} \in lib.alike /\ {x, y} \cap lib.vectorless = {}

\* What the union-find has put together: what no closed set keeps apart from x.
United(S, x) ==
    {y \in S : \A R \in SUBSET S : x \in R /\ (\A u \in R, v \in S : Alike(u, v) => v \in R) => y \in R}

\* A photo without a vector is alone.
groupByCosine(S) == {United(S, x) : x \in S}

Better(x, y) == lib.look[x] > lib.look[y] \/ (lib.look[x] = lib.look[y] /\ x < y)

bestByAestheticInGroup(g) == CHOOSE x \in g : \A y \in g \ {x} : Better(x, y)

\* Mutant: the cover is the best photo, the gate or not.
FirstFeatured(featured) == bestByAestheticInGroup(featured)

\* By topic score (none here), then by look: the first that the gate lets through or
\* that cannot be read; else the first featured.
pickCover(featured) ==
    LET passing == {x \in featured : ~lib.plain[x]} IN
    bestByAestheticInGroup(IF passing # {} THEN passing ELSE featured)

PickFeaturedAndCover(S) ==
    LET groups   == UNION {groupByCosine(c) : c \in clusterByTimeWindow(S)}
        best     == {bestByAestheticInGroup(g) : g \in groups}
        featured == {x \in best : Cardinality({y \in best : Better(y, x)}) < MaxFeatured}
    IN [featured |-> featured, cover |-> pickCover(featured)]

---------------------------------------------------------------------------------
(* recomputeRecipe: the drafts, then the curation of each.                       *)

MineTrips ==
    /\ drafts = {} /\ lib.recipe = "trip"
    /\ drafts' = BuildTripMoments
    /\ UNCHANGED <<lib, curated>>

MineFamily ==
    /\ drafts = {} /\ lib.recipe = "family"
    /\ drafts' = BuildFamilyMoments
    /\ UNCHANGED <<lib, curated>>

Curate(d) ==
    /\ d \in drafts \ DOMAIN curated
    /\ curated' = [e \in DOMAIN curated \cup {d} |-> IF e = d THEN PickFeaturedAndCover(d.members) ELSE curated[e]]
    /\ UNCHANGED <<lib, drafts>>

CuNext == MineTrips \/ MineFamily \/ \E d \in drafts : Curate(d)

CuSpec == CuInit /\ [][CuNext]_cuVars

---------------------------------------------------------------------------------
CuTypeOK == \A d \in drafts : d.members # {} /\ d.members \subseteq Pool

\* Every journey is told once, by walking the photos in order of time: trips share no photo,
\* a photo near in time to one of a trip is in it, two neighbours in a trip are no further
\* apart than GapDays; and where GapDays is a week or more (two weeks by default) no two
\* trips are one moment, which goes by the ISO week of its first photo.
TripsAreApart ==
    lib.recipe = "trip" =>
        /\ \A d, e \in drafts : d # e => d.members \cap e.members = {} /\ (GapDays >= Week => d.id # e.id)
        /\ \A d \in drafts : \A y \in Candidates \ d.members, x \in d.members :
             lib.taken[x] - lib.taken[y] \notin (-GapDays)..GapDays
        /\ \A d \in drafts : \A x \in d.members :
             \/ \E y \in d.members : lib.taken[y] - lib.taken[x] \in 1..GapDays
             \/ \A y \in d.members : lib.taken[y] <= lib.taken[x]

\* Two photos of one burst: a chain of photos of the moment that look alike, all within
\* the same run of shots no further apart than the window.
Near(S, x, y) ==
    /\ lib.taken[x] # 0 /\ lib.taken[y] # 0
    /\ \A t \in (lib.taken[x]..(lib.taken[y] - 1)) \cup (lib.taken[y]..(lib.taken[x] - 1)) :
         \E z \in S : lib.taken[z] \in (t + 1)..(t + BurstWindow)
Burst(S, x) ==
    {y \in S : \A R \in SUBSET S : x \in R /\ (\A u \in R, v \in S : Alike(u, v) /\ Near(S, u, v) => v \in R) => y \in R}

\* A burst is shown by its best photo only, no photo that is left out beats one that is
\* featured, and a cover that fails the gate means that all the featured fail it.
CurationIsFair ==
    \A d \in DOMAIN curated :
        LET S == d.members  f == curated[d].featured  c == curated[d].cover IN
        /\ f # {} /\ f \subseteq S
        /\ \A x \in f : \A y \in Burst(S, x) \ {x} : y \notin f /\ Better(x, y)
        /\ \A y \in S \ f : \/ \E z \in Burst(S, y) : Better(z, y)
                            \/ Cardinality(f) = MaxFeatured /\ \A x \in f : Better(x, y)
        /\ c \in f /\ (lib.plain[c] => \A x \in f : lib.plain[x])
=================================================================================
