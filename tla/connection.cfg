SPECIFICATION ConnSpec
CONSTANTS
    NoTimer = NoTimer
    MaxOrphans = 2
INVARIANTS
    NeverStranded
    TimerFindsNoSocket
    ShownIsTrue
PROPERTIES
    Reconnects
