SPECIFICATION Spec
CONSTANTS
    p1 = p1
    p2 = p2
    a = a
    b = b
    c = c
    Pulse = {p1}
    Indicator = {a, b}
    MaxIndicatorsPerPulse = 1
    Feeds <- GrowingFeed
    Worker = {w1, w2}
    FileRank <- ByName
    NoName = NoName
    InitiallyCorrupt <- NothingCorrupt
    EnablePrevalidation = TRUE
    MaxBundlesToPush = NoLimit
    NoLimit = NoLimit
    MaxPushRetries = 1
    AtomicServer = TRUE
    StatusListsFailures = FALSE
    FetchMayFail = FALSE
    DiskMayFail = TRUE
    CleanupEnabled = FALSE
    ResetAllowed = FALSE
    RedisMayFail = FALSE
    MaxYields = 1
    MaxCrashes = 1
SYMMETRY WorkerSymmetry
INVARIANTS
    TypeOK
    CacheSound
    GroupingComplete
    ProcessedDelivered
PROPERTY
    DeliverySpec
