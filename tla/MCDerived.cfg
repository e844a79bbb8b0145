\* One more of everything than a single fault needs: two photos, outages, restarts.
CONSTANTS
    Chains = {recovery, postbatch, sprites}
    Photos = {a1, a2}
    Broken = {a2}
    MaxGen = 2
    MaxMlOutages = 1
    MaxTrips = 1
    MaxVcRestarts = 2
    HalfWrites = FALSE
    AwayInRebuild = FALSE
    Scans = {a1, a2}
    MaxScanEdits = 1
    MaxOcrOutages = 1
    EditsWithoutMl = FALSE
    VerdictRaces = FALSE
    Assets = {a1}
    captionMaxAttempts = 2
    MaxCaptionEdits = 2
    MaxOutages = 1
    Recaption = FALSE
    FailLimit = 3
    CooldownTicks = 4
    MaxMlEvents = 3
    MaxDockerErrors = 2
    Legacy = {1, 2, 3}
    Chunk = 2
    MaxQualityEvents = 1
    MaxQualityRestarts = 1
    MaxQualityFaults = 2
SPECIFICATION MCSpec
INVARIANTS
    DerivedTypesOK
    AtMostOneExecution
PROPERTIES
    RefinesGate
    PhotosAreEmbedded
    DerivedSettles
CHECK_DEADLOCK FALSE
