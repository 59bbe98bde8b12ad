SPECIFICATION Spec
CONSTANTS
    v1 = v1
    v2 = v2
    o1 = o1
    o2 = o2
    r1 = r1
    r2 = r2
    DepositTypes = {"cash"}
    Visits <- OneVisit
    Orders <- TwoOrders
    VisitOf <- BothInV1
    Requests <- TwoRequests
    MaxDeposits = 2
SYMMETRY RaceSymmetry
INVARIANTS
    TypeOK
    OrdersFollowVisit
    IssuedIsBacked
    ReservedIsClean
PROPERTIES
    DepositOnlyReturned
