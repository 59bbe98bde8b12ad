SPECIFICATION FairSpec
CONSTANTS
    Rows <- TwoRows
    PageSize = 1
    Pages <- DifferentPages
    MaxMoves = 2
INVARIANTS
    TypeOK
    OwnWorkSeen
PROPERTIES
    ListsCatchUp
CHECK_DEADLOCK FALSE
