SPECIFICATION FairSpec
CONSTANTS
    Object = {o1, o2}
    MaxStamp = 3
    PageSize = 1
    MaxIds = 1
    BatchIds = 1
    ChunkIds = 1
    MaxFailures = 2
    LateRows = TRUE
    ManifestMayFail = TRUE
    ObjectsMayFail = TRUE
    MisleadingAnswers = TRUE
    RedisMayFail = TRUE
    MaxCrashes = 1
PROPERTY
    EventuallyReceived
