SPECIFICATION Spec
CONSTANTS
    p1 = p1
    p2 = p2
    a1 = a1
    a2 = a2
    NoDate = NoDate
    MaxAgeDays = 1
    DecayEnabled = TRUE
    StrictMissing = FALSE
    Pulse = {p1, p2}
    Author = {a1, a2}
    AuthorOf <- TwoAuthors
    NoAuthor = NoAuthor
    Filtered = TRUE
    Whitelist = {a1, a2}
    AllAuthors = AllAuthors
    Created <- OldAndNew
    Undated <- NothingUndated
    Absent = Absent
    Fetcher = {f1}
    Inline = TRUE
    Permits = 2
    PageSize = 1
    MaxListPages = 2
    MaxPulses = NoLimit
    NoLimit = NoLimit
    ClearCacheOnStart = FALSE
    Revised = {p1, p2}
    MaxDay = 1
    MaxCrashes = 1
INVARIANT
    FeedComplete
