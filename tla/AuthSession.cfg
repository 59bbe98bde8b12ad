SPECIFICATION Spec
CONSTANTS
    b1 = b1
    b2 = b2
    c1 = c1
    c2 = c2
    Browsers <- TwoBrowsers
    Calls <- TwoCalls
    MaxNow = 3
SYMMETRY SessionSymmetry
INVARIANTS
    TypeOK
    CookieIsSaved
    EndedStaysEnded
PROPERTIES
    KeepsSession
    CallsProgress
CHECK_DEADLOCK FALSE
