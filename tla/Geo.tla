---------------------------------- MODULE Geo ----------------------------------
(* Reverse geocoding (service/geo.go, pkg/geo): BackfillPending names the city   *)
(* of photos that have a position and no row in asset_geo yet, called by the     *)
(* scheduler and at the end of every batch, and a new gazetteer clears the rows. *)
EXTENDS Naturals, FiniteSets

CONSTANTS
    Places,         \* the photos that may have a position
    BatchSize,      \* LIMIT of BackfillPending (500)
    MaxPlaceEvents, MaxGeoErrors, MaxGeoRestarts,
    Moves           \* may an indexed photo get another position, or lose it

ASSUME GeoBatch == BatchSize \in Nat \ {0}

VARIABLES
    gps,        \* asset_exif: "none" or a position, "gone" without a row
    trashed,    \* the photos in the trash
    geo,        \* asset_geo: "none" or the position whose city it names
    gaz,        \* is asset_geo of the current gazetteer (user_version)
    caller,     \* per caller of BackfillPending: step, the ids left, a photo and its position
    placeEvents, geoErrors, geoRestarts

geVars == <<gps, trashed, geo, gaz, caller, placeEvents, geoErrors, geoRestarts>>
spent  == <<placeEvents, geoErrors, geoRestarts>>

Spots == {"here", "there"}
GeoCallers == {"startup", "ticker", "batch"}
NoGeoCall(pc) == [pc |-> pc, ids |-> {}, at |-> <<>>]
AfterLoop == [c \in GeoCallers |-> NoGeoCall(IF c = "startup" THEN "query" ELSE "idle")]

GeInit ==
    /\ gps = [x \in Places |-> "none"] /\ trashed = {} /\ geo = [x \in Places |-> "none"] /\ gaz = TRUE
    /\ caller = AfterLoop
    /\ placeEvents = 0 /\ geoErrors = 0 /\ geoRestarts = 0

GeoPending == {x \in Places \ trashed : gps[x] \in Spots /\ geo[x] = "none"}

\* The startup loop, the ticker's after it and the batch's each repeat the query until
\* it finds nothing.
GeoCalled(c) ==
    /\ caller[c].pc = "idle" /\ c # "startup" /\ (c = "ticker" => caller["startup"].pc = "ended")
    /\ caller' = [caller EXCEPT ![c] = NoGeoCall("query")]
    /\ UNCHANGED <<gps, trashed, geo, gaz, spent>>

GeoQuery(c) ==
    /\ caller[c].pc = "query"
    /\ IF GeoPending = {}
       THEN caller' = [caller EXCEPT ![c] = NoGeoCall(IF c = "startup" THEN "ended" ELSE "idle")]
       ELSE \E ids \in SUBSET GeoPending :
              /\ ids # {} /\ (ids = GeoPending \/ Cardinality(ids) = BatchSize) /\ Cardinality(ids) <= BatchSize
              /\ caller' = [caller EXCEPT ![c] = [NoGeoCall("read") EXCEPT !.ids = ids]]
    /\ UNCHANGED <<gps, trashed, geo, gaz, spent>>

\* GeocodeAsset: without a position there is nothing to do.
GeocodeReads(c, x) ==
    /\ caller[c].pc = "read" /\ x \in caller[c].ids
    /\ caller' = [caller EXCEPT ![c] = IF gps[x] \in Spots
                                       THEN [@ EXCEPT !.pc = "write", !.at = <<x, gps[x]>>]
                                       ELSE [@ EXCEPT !.ids = caller[c].ids \ {x}]]
    /\ UNCHANGED <<gps, trashed, geo, gaz, spent>>

\* Mutant: an error ends whoever called.
FailsForGood(c) == NoGeoCall("dead")

Fails(c) == NoGeoCall(IF c = "startup" THEN "dead" ELSE "idle")

\* The row of a purged photo is refused, and that ends the call and, during the startup
\* loop, the scheduler.
GeocodeWrites(c, x) ==
    /\ caller[c].pc = "write" /\ x = caller[c].at[1]
    /\ IF gps[x] = "gone"
       THEN caller' = [caller EXCEPT ![c] = Fails(c)] /\ UNCHANGED geo
       ELSE /\ geo' = [geo EXCEPT ![x] = caller[c].at[2]]
            /\ caller' = [caller EXCEPT ![c] = [NoGeoCall("read") EXCEPT !.ids = caller[c].ids \ {x}]]
    /\ UNCHANGED <<gps, trashed, gaz, spent>>

GeoLoops(c) ==
    /\ caller[c].pc = "read" /\ caller[c].ids = {}
    /\ caller' = [caller EXCEPT ![c] = NoGeoCall("query")]
    /\ UNCHANGED <<gps, trashed, geo, gaz, spent>>

GeoError(c) ==
    /\ caller[c].pc \in {"query", "read", "write"} /\ geoErrors < MaxGeoErrors /\ geoErrors' = geoErrors + 1
    /\ caller' = [caller EXCEPT ![c] = Fails(c)]
    /\ UNCHANGED <<gps, trashed, geo, gaz, placeEvents, geoRestarts>>

--------------------------------------------------------------------------------
\* Indexing, reindexing, the trash and the purge, with its cascade.
PlaceEvent(x, to) ==
    /\ placeEvents < MaxPlaceEvents /\ placeEvents' = placeEvents + 1 /\ gps[x] \notin {to, "gone"}
    /\ gps[x] = "none" \/ to = "gone" \/ Moves
    /\ gps' = [gps EXCEPT ![x] = to]
    /\ geo' = IF to = "gone" THEN [geo EXCEPT ![x] = "none"] ELSE geo
    /\ UNCHANGED <<trashed, gaz, caller, geoErrors, geoRestarts>>

PlaceTrashed(x) ==
    /\ placeEvents < MaxPlaceEvents /\ placeEvents' = placeEvents + 1 /\ gps[x] # "gone"
    /\ trashed' = IF x \in trashed THEN trashed \ {x} ELSE trashed \cup {x}
    /\ UNCHANGED <<gps, geo, gaz, caller, geoErrors, geoRestarts>>

\* Mutant: the version is raised and the rows keep the cities of the old gazetteer.
RegeocodeForgets(upgraded) ==
    /\ geo' = [x \in Places |-> IF upgraded /\ geo[x] # "none" THEN "old" ELSE geo[x]]
    /\ gaz' = TRUE

\* regeocodeIfStale: two statements, and a crash between them repeats the first.
regeocodeIfStale(upgraded) ==
    IF upgraded \/ ~gaz
    THEN geo' = [x \in Places |-> "none"] /\ gaz' \in BOOLEAN
    ELSE UNCHANGED <<geo, gaz>>

GeoRestart(upgraded) ==
    /\ geoRestarts < MaxGeoRestarts /\ geoRestarts' = geoRestarts + 1
    /\ regeocodeIfStale(upgraded)
    /\ caller' = AfterLoop
    /\ UNCHANGED <<gps, trashed, placeEvents, geoErrors>>

GeRuns(c) == GeoCalled(c) \/ GeoQuery(c) \/ GeoLoops(c) \/ \E x \in Places : GeocodeReads(c, x) \/ GeocodeWrites(c, x)

GeNext ==
    \/ \E c \in GeoCallers : GeRuns(c) \/ GeoError(c)
    \/ \E x \in Places : PlaceTrashed(x) \/ \E to \in Spots \cup {"none", "gone"} : PlaceEvent(x, to)
    \/ \E upgraded \in BOOLEAN : GeoRestart(upgraded)

GeSpec == GeInit /\ [][GeNext]_geVars /\ \A c \in GeoCallers : WF_geVars(GeRuns(c))

--------------------------------------------------------------------------------
GeTypeOK ==
    /\ gps \in [Places -> Spots \cup {"none", "gone"}] /\ geo \in [Places -> Spots \cup {"none", "old"}]
    /\ \A c \in GeoCallers : caller[c].pc \in {"idle", "query", "read", "write", "ended", "dead"}

\* "asset_geo is fully derived from asset_exif lat/lon" (db.go:863): no photo is listed
\* under a place it was not taken at.
PlacesMatch == \A x \in Places : geo[x] \in {"none", gps[x]}

\* Although the scheduler may die of one error, every photo with a position gets its
\* place while batches keep ending.
GeoSettled == \A x \in Places : gps[x] \in Spots /\ x \notin trashed => geo[x] = gps[x]
GeoSettles == <>[]GeoSettled
================================================================================
