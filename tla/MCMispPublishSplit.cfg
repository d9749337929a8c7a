SPECIFICATION Spec
CONSTANTS
    g1 = g1
    g2 = g2
    g3 = g3
    a = a
    b = b
    c = c
    d = d
    i = i
    Grouping = {g1, g2, g3}
    Indicator = {a, b, c, d}
    Other = {i}
    Refs <- SharedRefs
    Name <- OwnNames
    Unwanted = {g3}
    Threat = {a, b, d}
    Malformed = {d}
    Refused = {}
    Foreign = {}
    Batch <- SplitBatches
    Worker = {w1, w2}
    DupCheck = FALSE
    SearchMayFail = FALSE
    MispMayFail = FALSE
    RedisMayFail = FALSE
    MaxEvents = 3
    MaxStops = 0
INVARIANT
    PublishedInFull
