SPECIFICATION Spec
CONSTANTS
    U32Max = 4
    MaxItems = 1
    MaxQueued = 1
    MaxPerPublish = 0
    MaxKeepAliveCount = 1
    DefaultKeepAliveCount = 1
    MaxLifetimeCount = 3
    MaxPending = 2
    MaxPerSubscription = 2
    MaxSubscriptions = 2
    RequestedSettings <- MCTwoPriorities
    MaxOperations = 1
    MaxTransfers = 1
    Cancels = TRUE
INVARIANTS
    OrderCoversSubscriptions
    NoMessageWaitsForRequest
    PriorityRespected
CHECK_DEADLOCK FALSE
