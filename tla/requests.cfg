CONSTANTS
    Calls = {c1, c2, p1, p2, p3}
    NoCall = NoCall
    Throwing = {c2}
    Posts = {p1, p2, p3}
    Updates = {u1, u2}
    MaxSuspensions = 2
    MaxLocked = 1
    c1 = c1
    c2 = c2
    p1 = p1
    p2 = p2
    p3 = p3
    u1 = u1
    u2 = u2
SPECIFICATION UpdatesSpec
INVARIANTS
    DeferredOnce
    EndsByItsTimer
    NoBurst
    OnePlace
PROPERTIES
    CallsEnd
    UpdatesEnd
CHECK_DEADLOCK FALSE
