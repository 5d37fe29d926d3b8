SPECIFICATION Spec
CONSTANTS
    Ids = {1, 2}
    EventIds = {2}
    Values = {1, 2}
    Settings <- MCSettings
    InitialValues = {0}
    Lag = 0
    MaxNow = 1
    MaxChanges = 3
    MaxCalls = 2
    MaxEu = 1
INVARIANTS
    PendingAnnounced
    LossFlagged
    SemanticsExact
    LatestKept
CHECK_DEADLOCK FALSE
