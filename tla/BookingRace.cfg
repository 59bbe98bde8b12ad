SPECIFICATION FairSpec
CONSTANTS
    d1 = d1
    d2 = d2
    c1 = c1
    c2 = c2
    c3 = c3
    lion = lion
    bear = bear
    Desks <- TwoDesks
    Codes <- TwoCodes
    Costumes <- BothCostumes
    Wishes <- LionOnly
    MaxAttempts = 2
INVARIANTS
    TypeOK
    JobsHaveVisits
PROPERTIES
    VisitsNeverReplaced
    PreviewAnswered
