--------------------------------- MODULE Places ---------------------------------
(* The places page (service/places.go, route/v1/places.go): the cities of the      *)
(* photos, the trips to each city, the spots inside it, the user's covers and spot *)
(* names, and the album made of a place or of one trip.  A position is a point on  *)
(* a line, in hundreds of metres; a day has Day seconds.                           *)
EXTENDS Integers, Sequences, FiniteSets, SequencesExt, FiniteSetsExt

CONSTANTS
    Atlases,        \* the libraries to start from: per photo its town, taken (0: unknown), at
    Day,            \* seconds in a day
    TripGap,        \* tripGapDays
    SpotRadius, SpotGrid, SpotMin, SpotMax,     \* spotRadiusKm, spotGrid, spotMinPhotos, spotMaxCount
    MaxPlaceActs, MaxSnapEvents

ASSUME PlaceSizes == {Day, TripGap, SpotRadius, SpotGrid, SpotMin, SpotMax} \subseteq Nat \ {0}
ASSUME AtlasesFit == \A a \in Atlases : IsFiniteSet(DOMAIN a) /\ DOMAIN a \subseteq Nat /\ \A x \in DOMAIN a : a[x].taken \in Nat /\ a[x].at \in Int

VARIABLES
    snaps,          \* assets and asset_geo: the photos, as an atlas gives them
    inView,           \* those neither trashed, nor offline, nor deleted
    deleted,        \* those whose row is gone
    covers,         \* place_cover_overrides: town -> photo
    spotNames,      \* spot_name_overrides: the keys with a name of the user's
    making,         \* CreateAlbumFromPlace: step, ids read, photos of the place or visit it is made of
    made,           \* albums made of a place: photos, and what they were asked to hold
    placeActs, snapEvents

paVars == <<snaps, inView, deleted, covers, spotNames, making, made, placeActs, snapEvents>>

Towns == {"A", "B"}
NotMaking == [pc |-> "idle", ids |-> {}, asked |-> {}, visit |-> FALSE]

PaInit ==
    /\ snaps \in Atlases /\ inView = DOMAIN snaps /\ deleted = {}
    /\ covers = <<>> /\ spotNames = {} /\ making = NotMaking /\ made = {}
    /\ placeActs = 0 /\ snapEvents = 0

---------------------------------------------------------------------------------
(* The queries.  SQLite answers ties of an ORDER BY in the order of the rows.     *)

In(c) == {x \in inView : snaps[x].town = c}
Dated(c) == {x \in In(c) : snaps[x].taken # 0}

Newer(x, y) == snaps[x].taken > snaps[y].taken \/ (snaps[x].taken = snaps[y].taken /\ x < y)
NewestFirst(S) == [i \in 1..Cardinality(S) |-> CHOOSE x \in S : Cardinality({y \in S : Newer(y, x)}) = i - 1]

Taken(S) == {snaps[x].taken : x \in S}

\* A photo starts a trip when the one taken before it, and with it every earlier one, is
\* more than the gap away.
StartsTrip(S, x) == \A t \in Taken(S) : t < snaps[x].taken => snaps[x].taken - t > Day * TripGap

\* A trip goes on until the next one starts.
TripFrom(S, x) ==
    {y \in S : /\ snaps[y].taken >= snaps[x].taken
               /\ \A z \in S : StartsTrip(S, z) /\ snaps[z].taken > snaps[x].taken => snaps[y].taken < snaps[z].taken}

\* The trips of the photos S, each the set of its photos.
splitTrips(S) == {TripFrom(S, x) : x \in {y \in S : StartsTrip(S, y)}}

\* The town of the latest photo of all, {} when none has a town and a date.
currentTripCity ==
    LET all == UNION {Dated(c) : c \in Towns}
        NoNewer(x) == \A y \in all : snaps[y].taken < snaps[x].taken \/ (snaps[y].taken = snaps[x].taken /\ x <= y)
    IN {snaps[x].town : x \in {y \in all : NoNewer(y)}}

tripCount(c) == Max({1, Cardinality(splitTrips(Dated(c)))})

Latest(c, trip) == \A t \in Taken(Dated(c)) : t <= Max(Taken(trip))

\* Mutant: the last trip to every town is the current one.
EveryLastIsCurrent(c) ==
    {[from |-> Min(Taken(trip)) \div Day, to |-> Max(Taken(trip)) \div Day, shots |-> trip, current |-> Latest(c, trip)] :
        trip \in splitTrips(Dated(c))}

\* The trips to a town (shown most recent first); from and to are days.
Visits(c) ==
    {[from |-> Min(Taken(trip)) \div Day, to |-> Max(Taken(trip)) \div Day, shots |-> trip,
      current |-> c \in currentTripCity /\ Latest(c, trip)] : trip \in splitTrips(Dated(c))}

ListPlaces ==
    LET listed == {c \in Towns : In(c) # {}}
        most   == Max({0} \cup {tripCount(c) : c \in listed}) IN
    [c \in listed |-> [count |-> Cardinality(In(c)), trips |-> tripCount(c),
                       recent |-> c \in currentTripCity, home |-> tripCount(c) = most /\ most >= 2]]

---------------------------------------------------------------------------------
(* The spots of a town: clusters around a running centroid, sum / count.          *)

\* The distance of a centroid to the point s / n, times both denominators.
Off(k, s, n) == LET d == k.sum * n - s * k.count IN IF d < 0 THEN -d ELSE d
WithinRadius(k, s, n) == Off(k, s, n) <= SpotRadius * n * k.count

NoFarther(k, m, s, n) == Off(k, s, n) * m.count <= Off(m, s, n) * k.count

\* Of the clusters within the radius of s / n the nearest, the later one on a tie; or none.
Nearest(clusters, s, n) ==
    LET near == {i \in DOMAIN clusters : WithinRadius(clusters[i], s, n)} IN
    {i \in near : \A j \in near \ {i} : NoFarther(clusters[i], clusters[j], s, n)
                                          /\ (NoFarther(clusters[j], clusters[i], s, n) => j < i)}

\* A photo goes into the nearest cluster within the radius, else into a new one.
Assigned(clusters, x) ==
    LET at == snaps[x].at  best == Nearest(clusters, at, 1) IN
    IF best = {} THEN Append(clusters, [count |-> 1, sum |-> at, ids |-> {x}])
    ELSE [i \in DOMAIN clusters |->
            IF i \notin best THEN clusters[i]
            ELSE [count |-> clusters[i].count + 1, sum |-> clusters[i].sum + at, ids |-> clusters[i].ids \cup {x}]]

\* One photo after the other, the newest first.
clusterCity(c) ==
    LET after[i \in 0..Cardinality(In(c))] == IF i = 0 THEN <<>> ELSE Assigned(after[i - 1], NewestFirst(In(c))[i])
    IN after[Cardinality(In(c))]

\* int() cuts towards zero.
spotKeyForCentroid(c, k) ==
    LET cell == SpotGrid * k.count IN <<c, IF k.sum >= 0 THEN k.sum \div cell ELSE -(-k.sum \div cell)>>

\* What may be shown: of the clusters with photos enough SpotMax that no other one is larger
\* than (sort.Slice leaves the order of equals open).
spots(c) ==
    LET all   == clusterCity(c)
        large == {i \in DOMAIN all : all[i].count >= SpotMin}
    IN {shown \in SUBSET large : /\ Cardinality(shown) = Min({SpotMax, Cardinality(large)})
                                 /\ \A i \in shown, j \in large \ shown : all[i].count >= all[j].count}

\* The photos of the largest cluster with that key, the earlier one on a tie.
SpotMemberIDs(key) ==
    LET all   == clusterCity(key[1])
        under == {i \in DOMAIN all : spotKeyForCentroid(key[1], all[i]) = key}
    IN UNION {all[i].ids : i \in {j \in under : \A m \in under : all[j].count > all[m].count
                                                            \/ (all[j].count = all[m].count /\ j <= m)}}

\* Mutant: the first cluster within the radius.
FirstMemberIDsAt(c, s, n) ==
    LET all  == clusterCity(c)
        near == {i \in DOMAIN all : WithinRadius(all[i], s, n)}
    IN UNION {all[i].ids : i \in {j \in near : \A m \in near : j <= m}}

\* The photos of the cluster nearest to a point: the client sends the centroid that the
\* dialog showed.
SpotMemberIDsAt(c, s, n) == UNION {clusterCity(c)[i].ids : i \in Nearest(clusterCity(c), s, n)}

---------------------------------------------------------------------------------
(* The user's overrides, and the album made of a place.                           *)

Asked == placeActs < MaxPlaceActs /\ placeActs' = placeActs + 1

SetCover(c, x) ==
    /\ Asked /\ In(c) # {} /\ x \in inView /\ covers' = [t \in DOMAIN covers \cup {c} |-> IF t = c THEN x ELSE covers[t]]
    /\ UNCHANGED <<snaps, inView, deleted, spotNames, making, made, snapEvents>>

ResetCover(c) ==
    /\ Asked /\ c \in DOMAIN covers /\ covers' = [t \in DOMAIN covers \ {c} |-> covers[t]]
    /\ UNCHANGED <<snaps, inView, deleted, spotNames, making, made, snapEvents>>

\* CoverOverrides drops what is not shown, and the client takes the first thumb then.
CoverOf(c) ==
    IF c \in DOMAIN covers /\ covers[c] \in inView THEN {covers[c]}
    ELSE IF In(c) = {} THEN {} ELSE {Head(NewestFirst(In(c)))}

SetSpotName(key) ==
    /\ Asked /\ spotNames' = spotNames \cup {key}
    /\ UNCHANGED <<snaps, inView, deleted, covers, making, made, snapEvents>>

ResetSpotName(key) ==
    /\ Asked /\ key \in spotNames /\ spotNames' = spotNames \ {key}
    /\ UNCHANGED <<snaps, inView, deleted, covers, making, made, snapEvents>>

\* Mutant: the window ends where its last day begins.
WindowCutShort(c, from, to) == {x \in Dated(c) : snaps[x].taken >= Day * from /\ snaps[x].taken < Day * to}

\* placeAssetIDs with a window of days.  The bounds are compared as texts, and
\* "... 23:59:59+00:00", as the driver writes a time, is greater than "... 23:59:59":
\* the last second of the last day falls out.
InWindow(c, from, to) == {x \in Dated(c) : snaps[x].taken >= Day * from /\ snaps[x].taken < Day * to + Day - 1}

\* CreateAlbumFromPlace, of a whole town or of one visit; refused when there is no photo.
MakeReads(c) ==
    /\ Asked /\ making.pc = "idle"
    /\ \/ making' = [pc |-> "create", ids |-> In(c), asked |-> In(c), visit |-> FALSE]
       \/ \E v \in Visits(c) : making' = [pc |-> "create", ids |-> InWindow(c, v.from, v.to), asked |-> v.shots, visit |-> TRUE]
    /\ making'.ids # {}
    /\ UNCHANGED <<snaps, inView, deleted, covers, spotNames, made, snapEvents>>

AlbumOf(photos, filled) == [photos |-> photos, asked |-> making.asked, visit |-> making.visit, filled |-> filled]

MakeCreates ==
    /\ making.pc = "create"
    /\ making' = [making EXCEPT !.pc = "add"] /\ made' = made \cup {AlbumOf({}, FALSE)}
    /\ UNCHANGED <<snaps, inView, deleted, covers, spotNames, placeActs, snapEvents>>

Filled == AlbumOf(making.ids, TRUE)

\* Mutant: an album that could not be filled stays.
MakeAddsOrFails ==
    /\ making.pc = "add" /\ making' = NotMaking
    /\ made' = IF making.ids \cap deleted # {} THEN made ELSE {m \in made : m.filled} \cup {Filled}
    /\ UNCHANGED <<snaps, inView, deleted, covers, spotNames, placeActs, snapEvents>>

\* One transaction: a photo deleted meanwhile fails it, and the album is deleted again.
MakeAdds ==
    /\ making.pc = "add" /\ making' = NotMaking
    /\ made' = {m \in made : m.filled} \cup (IF making.ids \cap deleted = {} THEN {Filled} ELSE {})
    /\ UNCHANGED <<snaps, inView, deleted, covers, spotNames, placeActs, snapEvents>>

\* Elsewhere a photo is trashed or restored, its drive goes or comes back, or its row is deleted.
Happens == snapEvents < MaxSnapEvents /\ snapEvents' = snapEvents + 1

Appears(x) ==
    /\ Happens /\ x \notin inView \cup deleted /\ inView' = inView \cup {x}
    /\ UNCHANGED <<snaps, deleted, covers, spotNames, making, made, placeActs>>
Disappears(x) ==
    /\ Happens /\ x \in inView /\ inView' = inView \ {x}
    /\ UNCHANGED <<snaps, deleted, covers, spotNames, making, made, placeActs>>
RowDeleted(x) ==
    /\ Happens /\ x \notin deleted /\ inView' = inView \ {x} /\ deleted' = deleted \cup {x}
    /\ made' = {[m EXCEPT !.photos = @ \ {x}] : m \in made}
    /\ UNCHANGED <<snaps, covers, spotNames, making, placeActs>>

PaNext ==
    \/ \E c \in Towns : ResetCover(c) \/ MakeReads(c) \/ \E x \in DOMAIN snaps : SetCover(c, x)
    \/ \E c \in Towns : \E shown \in spots(c) : \E i \in shown : SetSpotName(spotKeyForCentroid(c, clusterCity(c)[i]))
    \/ \E key \in spotNames : ResetSpotName(key)
    \/ MakeCreates \/ MakeAdds
    \/ \E x \in DOMAIN snaps : Appears(x) \/ Disappears(x) \/ RowDeleted(x)

PaSpec == PaInit /\ [][PaNext]_paVars

---------------------------------------------------------------------------------
PaTypeOK ==
    /\ inView \subseteq DOMAIN snaps \ deleted /\ DOMAIN covers \subseteq Towns
    /\ making.pc \in {"idle", "create", "add"} /\ \A m \in made : m.photos \cap deleted = {}

\* Two photos of a town belong to one trip: no gap between them is too long.
OneTrip(c, x, y) ==
    \A u \in Dated(c) : snaps[u].taken >= snaps[x].taken /\ snaps[u].taken < snaps[y].taken =>
        \E v \in Dated(c) : snaps[v].taken - snaps[u].taken \in 1..(Day * TripGap)

\* What the places page says fits together: the trips to a town divide its dated photos
\* where a gap is too long, the list counts as many trips as the detail shows, and one
\* place and one visit are current, those of the latest photo ("exactly one green dot",
\* places.go:212).
PlacesAgree ==
    LET dated  == UNION {Dated(c) : c \in Towns}
        visits == UNION {{c} \X Visits(c) : c \in Towns}
        now    == {v \in visits : v[2].current}
    IN /\ \A c \in Towns : \A x, y \in Dated(c) : snaps[x].taken <= snaps[y].taken =>
            (OneTrip(c, x, y) <=> \E v \in visits : {x, y} \subseteq v[2].shots)
       /\ \A v, w \in visits : v # w => v[2].shots \cap w[2].shots = {}
       /\ Cardinality(now) = (IF dated = {} THEN 0 ELSE 1)
       /\ \A v \in now : \E x \in v[2].shots : \A y \in dated : snaps[y].taken <= snaps[x].taken
       /\ {c \in DOMAIN ListPlaces : ListPlaces[c].recent} = {v[1] : v \in now}
       /\ \A c \in DOMAIN ListPlaces : ListPlaces[c].trips = Max({1, Cardinality(Visits(c))})

\* What the library shows of a spot is what the dialog showed: by its centroid exactly its
\* photos and as many as were counted (places.go:477), by its key as many as the largest
\* spot shown under that key (places.go:451); no photo is in two spots.
SpotsArePinned ==
    \A c \in Towns : \A shown \in spots(c) : \A i \in shown :
        LET all == clusterCity(c)  s == all[i]  key == spotKeyForCentroid(c, s)
            alike == {j \in shown : spotKeyForCentroid(c, all[j]) = key}
        IN /\ SpotMemberIDsAt(c, s.sum, s.count) = s.ids /\ Cardinality(s.ids) = s.count
           /\ \E j \in alike : Cardinality(SpotMemberIDs(key)) = all[j].count /\ \A m \in alike : all[m].count <= all[j].count
           /\ \A j \in shown \ {i} : s.ids \cap all[j].ids = {}

\* The photos of a visit that were taken last, in the last second of a day.
AtMidnight(m) ==
    {x \in m.asked : m.visit /\ snaps[x].taken % Day = Day - 1 /\ \A y \in m.asked : snaps[y].taken <= snaps[x].taken}

\* An album made of a place or of a trip holds its photos and no others, all but those
\* deleted since and those of a trip's last second where that ends a day; and a request
\* that fails half way leaves no empty album behind.
PlaceAlbumsAreWhole ==
    \A m \in made : IF m.filled THEN m.photos = m.asked \ (AtMidnight(m) \cup deleted) ELSE making.pc = "add"
=================================================================================
