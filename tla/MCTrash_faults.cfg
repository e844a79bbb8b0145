\* One handler; everything may fail: moves, UPDATEs, a crash, a prune meanwhile.
SPECIFICATION Spec
CHECK_DEADLOCK FALSE
CONSTANTS
    s = s
    n = n
    b = b
    Ids = {s, b, n}
    NoId = none
    Gallery = gallery
    Contents = {photo, other}
    photo = photo
    video = video
    other = other
    Nothing = nothing
    NoPath = nopath
    Still = s
    Companion = none
    Bystander = b
    Newcomer = nothing
    Handlers = {h1}
    Requests = {"trash", "restore", "purge"}
    MaxRequests = 4
    MaxPrunes = 1
    MaxCrashes = 1
    Watching = TRUE
    MoveMayFail = TRUE
    DBMayFail = TRUE
    Careful = FALSE
    CrossDevice = TRUE
    ContentOf <- MCContentOf
INVARIANTS TypeOK ContentKept
