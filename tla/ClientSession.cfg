SPECIFICATION FairSpec
CONSTANTS
    MaxSubs = 2
    MaxNotes = 1
    MaxCalls = 2
    MaxLosses = 1
    MaxForgets = 1
    MaxTries = 1
    MaxFailed = 1
    PerSubscription = 1
    ServerHolds = 1
    Ops = {"create", "delete", "mode", "disconnect", "drop"}
INVARIANT AcksKept
INVARIANT SubscriptionsKept
PROPERTY PublishingContinues
PROPERTY DeadSessionReplaced
