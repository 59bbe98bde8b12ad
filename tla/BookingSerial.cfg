SPECIFICATION Spec
CONSTANTS
    d1 = d1
    d2 = d2
    c1 = c1
    c2 = c2
    c3 = c3
    lion = lion
    bear = bear
    Desks <- OneDesk
    Codes <- ThreeCodes
    Costumes <- BothCostumes
    Wishes <- EachOnce
    MaxAttempts = 2
INVARIANTS
    NoDoubleBooking
PROPERTIES
    ImplementsCalendar
SYMMETRY BookingSymmetry
