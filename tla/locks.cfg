CONSTANTS
    w1 = w1
    w2 = w2
    inboxList = inboxList
    trashList = trashList
    Windows = {w1, w2}
    Lists = {inboxList, trashList}
    Calls <- MCCalls
    WindowOf <- MCWindowOf
    ListOf <- MCListOf
    MaxConnections = 2
    DeleteShared = FALSE
    CallsOutliveSession = FALSE
SPECIFICATION LocksSpec
INVARIANTS
    RefsAreCounted
    NoUseAfterClose
    OneWindowPerList
    NoLeakedLock
PROPERTIES
    WaitersWake

