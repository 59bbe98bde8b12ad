SPECIFICATION Spec
CONSTANTS
    v1 = v1
    v2 = v2
    o1 = o1
    o2 = o2
    r1 = r1
    r2 = r2
    DepositTypes = {"cash", "none"}
    Visits <- TwoVisits
    Orders <- TwoOrders
    VisitOf <- OneEach
    Requests <- OneRequest
    MaxDeposits = 2
INVARIANTS
    DepositTracked
    PaymentsFollowVisit
PROPERTIES
    ImplementsContract
    NotesKept
