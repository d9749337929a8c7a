SPECIFICATION Spec
CONSTANTS
    Object = {o1, o2, o3, o4}
    MaxStamp = 8
    PageSize = 2
    MaxIds = 2
    Endpoint = "manifest"
    Limit = 2
    DatabaseMayFail = TRUE
SYMMETRY ObjectSymmetry
INVARIANTS
    NothingSkipped
    NothingRepeated
PROPERTY
    LastPageCompletes
