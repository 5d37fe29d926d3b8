SPECIFICATION FairSpec
CONSTANTS
    Callers = {1, 2}
    Lifetime = 1
    MaxNow = 2
    MaxSends = 4
    MaxToken = 3
    Legacy = TRUE
    U32Max = 5
    Slack = 2
    CertMayFail = TRUE
INVARIANTS
    EndsAgree
    HonestChunksAccepted
PROPERTY WaitersWoken
CHECK_DEADLOCK FALSE
