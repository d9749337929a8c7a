SPECIFICATION FairSpec
CONSTANTS
    p1 = p1
    p2 = p2
    a = a
    b = b
    c = c
    Pulse = {p1}
    Indicator = {a, b, c}
    MaxIndicatorsPerPulse = 1
    AtomicServer = TRUE
    StatusListsFailures = FALSE
    Feeds <- RevisedFeed
    Worker = {w1}
    NoList = NoList
    EnablePrevalidation = TRUE
    MaxBundlesToPush = NoLimit
    NoLimit = NoLimit
    MaxPushRetries = 1
    LimitPerRequest = 6
    WalkMayFail = TRUE
    FetchMayFail = FALSE
    RedisMayFail = TRUE
    MaxCrashes = 1
INVARIANTS
    TypeOK
    CacheSound
    RememberedIsDelivered
PROPERTY
    EventuallyDelivered
