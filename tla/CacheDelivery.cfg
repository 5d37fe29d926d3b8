SPECIFICATION Spec
CONSTANTS
    c1 = c1
    c2 = c2
    Sessions = {1}
    Callers = {c1, c2}
    CallKinds = {"Create", "CreateItem", "Delete", "Close"}
    MaxSubs = 2
    MaxPerSession = 2
    MaxActors = 1
    MaxCalls = 4
    MaxValues = 2
    RingCapacity = 2
    Expiry = TRUE
    Retires = FALSE
SYMMETRY Symmetry
INVARIANTS
    ValuesDelivered
    RoutedOnceRecorded
CHECK_DEADLOCK FALSE
