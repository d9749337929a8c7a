SPECIFICATION FairSpec
CONSTANTS
    Object = {o1, o2}
    MaxStamp = 2
    PageSize = 2
    MaxIds = 2
    BatchIds = 3
    ChunkIds = 2
    MaxFailures = 2
    LateRows = FALSE
    ManifestMayFail = FALSE
    ObjectsMayFail = FALSE
    MisleadingAnswers = FALSE
    RedisMayFail = FALSE
    MaxCrashes = 0
PROPERTY
    WalkEnds
