SPECIFICATION Spec
CONSTANTS
    mail = mail
    contact = contact
    inbox = inbox
    trash = trash
    Instance = {mail, contact}
    Id = {mail, contact}
    IdOf <- MCIdOf
    Movable = {mail}
    List = {inbox, trash}
    Group = {a, b}
    MaxBatches = 3
    NoBatch = NoBatch
    Optimizing = TRUE
    NewBatches <- MCNewBatches
    ClearAnytime = FALSE
INVARIANTS
    WellFormedQueue
    OneAtATime
PROPERTIES
    InFlightUnchanged
    NoBatchSkipped
