SPECIFICATION Spec
CONSTANTS
    c1 = c1
    c2 = c2
    Channels = {c1, c2}
    MaxId = 2
    MaxCalls = 3
    MaxSessions = 1
    MaxUnactivated = 1
    CounterMod = 4
    Timeout = 2
    UnactivatedTimeout = 1
    MaxTimeout = 2
    TransferAllowed = TRUE
SYMMETRY Symmetry
INVARIANTS
    TokensNameSessions
    HeapCoversSessions
    WakesInTime
    EvictionCovers
    CountExactUnlessHit
CHECK_DEADLOCK FALSE
