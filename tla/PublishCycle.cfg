SPECIFICATION FairSpec
CONSTANTS
    U32Max = 4
    MaxItems = 2
    MaxQueued = 2
    MaxPerPublish = 2
    MaxKeepAliveCount = 2
    DefaultKeepAliveCount = 2
    MaxLifetimeCount = 6
    RequestedSettings <- MCRequestedSettings
    MaxRequests = 2
    MaxOperations = 4
    Interference = TRUE
INVARIANTS
    TypeOK
    QueueContiguous
    NoSilentGap
    NoMessageWaitsForRequest
    NotLateWithRequests
    ClosedEndsWithStatusChange
PROPERTIES
    NotificationsPublished
    RequestsAnswered
    SilentClientExpiresWhenDrained
CHECK_DEADLOCK FALSE
