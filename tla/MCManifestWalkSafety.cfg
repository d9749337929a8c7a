SPECIFICATION Spec
CONSTANTS
    Object = {o1, o2, o3}
    MaxStamp = 4
    PageSize = 1
    MaxIds = 1
    BatchIds = 2
    ChunkIds = 2
    MaxFailures = 2
    LateRows = TRUE
    ManifestMayFail = TRUE
    ObjectsMayFail = TRUE
    MisleadingAnswers = TRUE
    RedisMayFail = TRUE
    MaxCrashes = 1
SYMMETRY ObjectSymmetry
INVARIANTS
    TypeOK
    NothingSkipped
