SPECIFICATION Spec
CONSTANTS
    Keys = {k1}
    Bodies = {b1, b2}
    Calls = {c1, c2, c3}
    MaxExpiries = 1
    MaxBroken = 1
    MaxLost = 1
    MaxCrashes = 1
INVARIANTS
    TypeOK
    OneRunner
    AtMostOnce
    AnswersAreOwn
    NoOrphan
SYMMETRY CallSymmetry
