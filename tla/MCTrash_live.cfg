\* A Live Photo is deleted, restored and purged, one careful request at a time;
\* moves may fail or cross devices, the watcher handles their events late, and
\* another photo may come to where the first one was.
SPECIFICATION Spec
CHECK_DEADLOCK FALSE
CONSTANTS
    s = s
    v = v
    b = b
    n = n
    newcomer = newcomer
    Ids = {s, v, b, n}
    NoId = none
    Gallery = gallery
    Contents = {photo, video, other, newcomer}
    photo = photo
    video = video
    other = other
    Nothing = nothing
    NoPath = nopath
    Still = s
    Companion = v
    Bystander = b
    Newcomer = newcomer
    Handlers = {h1}
    Requests = {"trash", "restore", "purge"}
    MaxRequests = 5
    MaxPrunes = 0
    MaxCrashes = 0
    Watching = TRUE
    MoveMayFail = TRUE
    DBMayFail = FALSE
    Careful = TRUE
    CrossDevice = TRUE
    ContentOf <- MCContentOf
INVARIANTS RowFindsFile
PROPERTIES IdentityKept
