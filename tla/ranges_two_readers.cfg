CONSTANTS
    r1 = r1
    r2 = r2
    Readers = {r1, r2}
    MaxId = 3
    ChunkSize = 2
    MaxCount = 2
    MaxChanges = 0
    EventsOvertake = FALSE
    ClearRaces = FALSE
    AnyStart = FALSE
    SingleLoads = FALSE
    TornRanges = FALSE
    TornRemovals = FALSE
SPECIFICATION RangeSpec
INVARIANTS
    RangeInSync
