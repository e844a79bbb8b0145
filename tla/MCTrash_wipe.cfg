\* The video of a photo could not be moved to the trash; the photo is purged.
SPECIFICATION Spec
CHECK_DEADLOCK FALSE
CONSTANTS
    s = s
    v = v
    b = b
    Ids = {s, v, b}
    NoId = none
    Gallery = gallery
    Contents = {photo, video, other}
    photo = photo
    video = video
    other = other
    Nothing = nothing
    NoPath = nopath
    Still = s
    Companion = v
    Bystander = b
    Newcomer = nothing
    Handlers = {h1}
    Requests = {"trash", "purge"}
    MaxRequests = 2
    MaxPrunes = 0
    MaxCrashes = 0
    Watching = FALSE
    MoveMayFail = TRUE
    DBMayFail = FALSE
    Careful = FALSE
    CrossDevice = FALSE
    ContentOf <- MCContentOf
INVARIANTS ContentKept
