\* An upload is submitted to a full queue.
CONSTANTS
    p1 = p1
    p2 = p2
    legacy = legacy
    b1 = b1
    a1 = a1
    Paths = {p1, p2}
    Batches = {legacy, b1}
    Legacy = legacy
    Albums = {a1}
    NoAlbum = NoAlbum
    Uploads <- OneBatch
    Workers = {w1}
    Enqueuers = {}
    NoPath = NoPath
    Capacity = 1
    MaxEvents = 2
    MoveMayFail = FALSE
SPECIFICATION Spec
CHECK_DEADLOCK FALSE
INVARIANTS
    NoStrandedBatch
