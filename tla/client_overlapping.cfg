SPECIFICATION ClientSpec
CONSTANTS
    groupA = groupA
    groupB = groupB
    Group = {groupA}
    Joinable = {}
    Revocable = {}
    MaxId = 3
    MaxConnections = 2
    MaxUnavailable = 0
    MaxErrors = 0
    MaxCrashes = 0
    MaxEventIds = 10
    EmptyCache = TRUE
    Overlap = TRUE
    None = None
CHECK_DEADLOCK FALSE
INVARIANTS
    NothingLost
