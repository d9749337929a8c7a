SPECIFICATION Spec
CONSTANTS
    p1 = p1
    p2 = p2
    a = a
    b = b
    c = c
    Pulse = {p1}
    Indicator = {a, b}
    MaxIndicatorsPerPulse = 2
    Feeds <- FixedFeed
    Worker = {w1}
    FileRank <- ByName
    NoName = NoName
    InitiallyCorrupt <- OneCorrupt
    EnablePrevalidation = TRUE
    MaxBundlesToPush = NoLimit
    NoLimit = NoLimit
    MaxPushRetries = 1
    AtomicServer = FALSE
    StatusListsFailures = TRUE
    FetchMayFail = FALSE
    DiskMayFail = TRUE
    CleanupEnabled = TRUE
    ResetAllowed = TRUE
    RedisMayFail = TRUE
    MaxYields = 2
    MaxCrashes = 1
INVARIANTS
    CacheSound
