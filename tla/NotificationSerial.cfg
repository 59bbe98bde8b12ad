SPECIFICATION Spec
CONSTANTS
    h1 = h1
    h2 = h2
    p1 = p1
    p2 = p2
    anna = anna
    Notifications <- TwoNotifications
    ClientOf <- OneClient
    Phones <- TwoPhones
    Handlers <- OneHandler
    Reports <- AllKinds
    Kinds <- SameNumber
    MaxAttempts = 2
    Faults = FALSE
    MayLogOut = FALSE
    MaxMessages = 3
    MaxResends = 1
    MaxCrashes = 0
INVARIANTS
    PendingIsQueued
PROPERTIES
    WebhooksOnlyAdvance
SYMMETRY CallSymmetry
CHECK_DEADLOCK FALSE
