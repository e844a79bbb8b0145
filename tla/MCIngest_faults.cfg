\* The move into the gallery may fail and the queue may be full.
CONSTANTS
    p1 = p1
    p2 = p2
    legacy = legacy
    b1 = b1
    a1 = a1
    Paths = {p1, p2}
    Batches = {legacy, b1}
    Legacy = legacy
    Albums = {a1}
    NoAlbum = NoAlbum
    Uploads <- BatchAndSingle
    Workers = {w1, w2}
    Enqueuers = {watcher}
    NoPath = NoPath
    Capacity = 1
    MaxEvents = 1
    MoveMayFail = TRUE
SPECIFICATION FairSpec
CHECK_DEADLOCK FALSE
INVARIANTS
    OneCopyInFlight
    AlbumRidesAlong
PROPERTIES
    DoneOnlyWhenSettled
    MarkerReleased
