\* An upload batch while a scan runs and rows are removed under it.
CONSTANTS
    p1 = p1
    p2 = p2
    legacy = legacy
    b1 = b1
    a1 = a1
    Paths = {p1, p2}
    Batches = {legacy, b1}
    Legacy = legacy
    Albums = {a1}
    NoAlbum = NoAlbum
    Uploads <- OneBatch
    Workers = {w1}
    Enqueuers = {watcher}
    NoPath = NoPath
    Capacity = 4
    MaxEvents = 1
    MoveMayFail = FALSE
    Scanners = {s1}
    MaxScans = 1
    MaxRemovals = 1
SPECIFICATION FairScanSpec
CHECK_DEADLOCK FALSE
INVARIANTS
    TypeOK
    CountsConserved
    NoLeakedAlbumEntry
    AnnouncedOnce
PROPERTIES
    BatchSettles
