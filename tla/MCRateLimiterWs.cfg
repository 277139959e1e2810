SPECIFICATION Spec
SYMMETRY Clients
CONSTANTS
    Keys = {k1, k2}
    Capacity = 4
    Rate = 2
    Cost = 3
    Pruning = TRUE
    MaxAge = 3
    Period = 1
    MaxBack = 1
    Horizon = 6
    Corrections = 2
INVARIANTS
    TypeOK
    WindowBound
    PacedIsServed
    NoStaleBucket
    DebtBounded
PROPERTIES
    ImplementsTokenBucket
