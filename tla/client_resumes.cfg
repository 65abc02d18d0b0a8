SPECIFICATION ClientSpec
CONSTANTS
    groupA = groupA
    groupB = groupB
    Group = {groupA, groupB}
    Joinable = {groupB}
    Revocable = {groupB}
    MaxId = 2
    MaxConnections = 2
    MaxUnavailable = 2
    MaxErrors = 0
    MaxCrashes = 0
    MaxEventIds = 3
    EmptyCache = TRUE
    Overlap = FALSE
    None = None
CHECK_DEADLOCK FALSE
INVARIANTS
    NothingLost
PROPERTIES
    QueuesResume
