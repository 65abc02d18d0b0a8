SPECIFICATION ConnSpec
CONSTANTS
    NoTimer = NoTimer
    MaxOrphans = 2
PROPERTIES
    TerminatedStays
