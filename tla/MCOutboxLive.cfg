SPECIFICATION FairSpec
CONSTANTS
    p1 = p1
    p2 = p2
    a = a
    b = b
    c = c
    Pulse = {p1}
    Indicator = {a, b}
    MaxIndicatorsPerPulse = 1
    Feeds <- ReplacedFeed
    Worker = {w1}
    FileRank <- ByName
    NoName = NoName
    InitiallyCorrupt <- NothingCorrupt
    EnablePrevalidation = TRUE
    MaxBundlesToPush = NoLimit
    NoLimit = NoLimit
    MaxPushRetries = 0
    AtomicServer = TRUE
    StatusListsFailures = FALSE
    FetchMayFail = TRUE
    DiskMayFail = TRUE
    CleanupEnabled = FALSE
    ResetAllowed = FALSE
    RedisMayFail = FALSE
    MaxYields = 1
    MaxCrashes = 1
PROPERTY
    EventuallyDelivered
