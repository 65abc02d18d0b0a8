SPECIFICATION ClientSpec
CONSTANTS
    groupA = groupA
    groupB = groupB
    Group = {groupA, groupB}
    Joinable = {}
    Revocable = {}
    MaxId = 3
    MaxConnections = 3
    MaxUnavailable = 1
    MaxErrors = 1
    MaxCrashes = 1
    MaxEventIds = 3
    EmptyCache = FALSE
    Overlap = FALSE
    None = None
CHECK_DEADLOCK FALSE
SYMMETRY Groups
INVARIANTS
    NothingLost
    NotTwice
    CacheIdIsHandled
PROPERTIES
    ImplementsLog
