SPECIFICATION Spec
CONSTANTS
    d1 = d1
    d2 = d2
    c1 = c1
    c2 = c2
    c3 = c3
    lion = lion
    bear = bear
    Desks <- TwoDesks
    Codes <- TwoCodes
    Costumes <- BothCostumes
    Wishes <- LionOnly
    MaxAttempts = 1
INVARIANTS
    NoDoubleBooking
