SPECIFICATION FairSpec
CONSTANTS
    MaxRequests = 3
    MaxInflight = 1
    RequestTimeout = 1
    Secured = TRUE
    Halts = TRUE
INVARIANTS
    NoRequestForgotten
    WireContiguousUnlessCancelled
PROPERTY CloseCompletes
CHECK_DEADLOCK FALSE
