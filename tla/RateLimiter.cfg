CONSTANTS
    Keys = {k1, k2}
    Processes = {p1, p2}
    MaxRequests = 2
    Window = 4
    Second = 2
    MaxCount = 4
    Nothing = Nothing
SPECIFICATION FairSpec
INVARIANTS
    TypeOK
    RetryAfterHonest
    CountersEnd
PROPERTIES
    SlidingLimit
    Readmitted
