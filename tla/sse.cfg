CONSTANTS
    Requests = {k1, k2, k3}
    k1 = k1
    k2 = k2
    k3 = k3
    NoRequest = NoRequest
    MaxAttempt = 3
    MaxStrays = 2
SPECIFICATION SseSpec
INVARIANTS
    OneStream
    TimeoutFitsState
    StateFitsStream
PROPERTIES
    DisconnectEnds
    SilenceIsNoticed
