SPECIFICATION Spec
CONSTANTS
    p1 = p1
    p2 = p2
    a = a
    b = b
    c = c
    Pulse = {p1}
    Indicator = {1, 2, 3, 4, 5, 6, 7, 8, 9, 10}
    MaxIndicatorsPerPulse = 1
    Feeds <- TenChunks
    Worker = {w1}
    FileRank <- ByText
    NoName = NoName
    InitiallyCorrupt <- NothingCorrupt
    EnablePrevalidation = FALSE
    MaxBundlesToPush = NoLimit
    NoLimit = NoLimit
    MaxPushRetries = 0
    AtomicServer = TRUE
    StatusListsFailures = FALSE
    FetchMayFail = FALSE
    DiskMayFail = FALSE
    CleanupEnabled = FALSE
    ResetAllowed = FALSE
    RedisMayFail = FALSE
    MaxYields = 1
    MaxCrashes = 0
INVARIANT
    ChunksInOrder
