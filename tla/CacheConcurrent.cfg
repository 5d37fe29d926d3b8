SPECIFICATION FairSpec
CONSTANTS
    c1 = c1
    c2 = c2
    Sessions = {1, 2}
    Callers = {c1, c2}
    CallKinds = {"Create", "Close", "Transfer"}
    MaxSubs = 1
    MaxPerSession = 1
    MaxActors = 3
    MaxCalls = 3
    MaxValues = 0
    RingCapacity = 1
    Expiry = FALSE
    Retires = TRUE
INVARIANTS
    RegistryExact
PROPERTY CallsEnd
CHECK_DEADLOCK FALSE
