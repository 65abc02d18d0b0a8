SPECIFICATION SyncSpec
CONSTANTS
    mail = mail
    contact = contact
    inbox = inbox
    trash = trash
    groupA = groupA
    groupB = groupB
    Instance = {mail, contact}
    Id = {mail, contact}
    IdOf <- IdOfItself
    Movable <- Mails
    List = {inbox, trash}
    Group = {groupA}
    MaxBatches = 4
    NoBatch = NoBatch
    Optimizing = TRUE
    NewBatches = {}
    ClearAnytime = FALSE
    GroupsOf <- OneGroup
    MaxChanges = 4
    BatchSize = 1
    FailPoints = {"before"}
    Unborn = Unborn
    Gone = Gone
INVARIANTS
    DeviationIsPending
    LastOperationIsNewest
    NeverThrows
PROPERTIES
    CatchesUp
