\* Three faces on two photos, two albums, one view of two photos, three photos in moments.
CONSTANTS
    N = 4
    Cpus = 3
    Buckets = 3
    MinPoints = 1
    Faces = {1, 2, 3}
    Persons = {1, 2, 3, 4, 5, 6}
    AssetOf <- McAssetOf
    Kind <- McKind
    MaxPersonActs = 3
    MaxFaceFaults = 1
    UserInCluster = FALSE
    CoverRaces = FALSE
    EditInDetect = FALSE
    AlbumIds = {1, 2}
    Titles = {t1, t2}
    NoTitle = notitle
    Pics = {x1, x2, x3}
    NoPic = nopic
    Companions = {x3}
    Videos = {x2}
    Score <- McScore
    MaxAlbumActs = 4
    MaxPicEvents = 1
    AlbumRaces = FALSE
    Items = {x1, x2}
    Matching <- McMatching
    MaxViewActs = 3
    MaxItemEvents = 1
    MaxViewRestarts = 1
    PinInEval = FALSE
    AddInConvert = FALSE
    Shots = {1, 2, 3}
    FirstWeek = {1}
    NoShot = 0
    MinShots = 2
    MaxMomentActs = 2
    MaxMishaps = 1
    Vectors = 7
    Limit = 3
    Slack = 1
    MaxK = 9
    Alpha = 70
    DeadRuns = FALSE
    ScoreSeqs <- McScores
    Libraries <- McLibraries
    LibrarySize = 4
    Week = 3
    GapDays = 6
    BurstWindow = 2
    MinAssets = 1
    MaxFeatured = 2
    MinPersonPhotos = 2
    MinTogetherPersons = 2
    TopPersons = 1
    Atlases <- McAtlases
    Day = 2
    TripGap = 2
    SpotRadius = 3
    SpotGrid = 10
    SpotMin = 2
    SpotMax = 2
    MaxPlaceActs = 2
    MaxSnapEvents = 1
SPECIFICATION MCSpec
INVARIANTS
    EntityTypesOK
    ClustersSound
    PeopleSound
    AlbumsAgree
    UserEditsStay
    AnswersSound
    TripsAreApart
    CurationIsFair
PROPERTIES
    RecomputesKeep
    EntitiesSettle
CHECK_DEADLOCK FALSE
