\* One path through every step of the pipeline, two uploads, folders two deep, two videos.
CONSTANTS
    Paths = {p1}
    Ids = {1, 2, 3, 4, 5, 6}
    MaxEdits = 3
    MaxForces = 1
    MaxCrashes = 1
    Copies = FALSE
    Overlap = FALSE
    PruneMeanwhile = FALSE
    ForceRaces = FALSE
    Uploads = {u1, u2}
    Names = {n1}
    NoUpload = noupload
    MaxUpRestarts = 1
    MaxStoreErrors = 1
    LateInsert = FALSE
    CancelRaces = FALSE
    Top = "top"
    Folders = {"A", "B"}
    Media = {"f", "g"}
    ParentOf <- McParentOf
    MaxOverflows = 2
    LateArrivals = FALSE
    Producers = {"p1", "p2"}
    TaskOf <- McTaskOf
    MaxUpdates = 2
    Videos = {"v1", "v2"}
    Callers = {"route"}
    spriteMaxConcurrent = 1
    MaxPurges = 1
    MaxBuildFaults = 1
    MaxAway = 1
    Dirs = {d1, d2}
    MaxDirEvents = 3
    MaxPrunes = 1
    MaxWalkFailures = 1
    Places = {x, y}
    BatchSize = 1
    MaxPlaceEvents = 3
    MaxGeoErrors = 1
    MaxGeoRestarts = 1
    Moves = FALSE
    BusFiles = {"f", "g"}
    FolderOf <- McFolderOf
    Dotted = {"e.x"}
    InitialBackoff = 5
    MaxBackoff = 15
    MaxDeletes = 2
    MaxDrops = 2
    Recreates = FALSE
SPECIFICATION MCSpec
INVARIANTS
    FileTypesOK
    StampVouches
    UploadOutcome
    ChangesAreNoticed
    SideDataSound
    FreedStaysFreed
PROPERTIES
    PendingBytesKept
    FilesSettle
CHECK_DEADLOCK FALSE
