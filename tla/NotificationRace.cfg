SPECIFICATION FairSpec
CONSTANTS
    h1 = h1
    h2 = h2
    p1 = p1
    p2 = p2
    anna = anna
    Notifications <- OneNotification
    ClientOf <- OneClient
    Phones <- OnePhone
    Handlers <- TwoHandlers
    Reports <- Progress
    Kinds <- BothKinds
    MaxAttempts = 2
    Faults = TRUE
    MayLogOut = TRUE
    MaxMessages = 6
    MaxResends = 1
    MaxCrashes = 1
INVARIANTS
    TypeOK
    OneSender
    StatusIsBacked
    NoFlood
PROPERTIES
    JobsEnd
    JobsProgress
CHECK_DEADLOCK FALSE
