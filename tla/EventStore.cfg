SPECIFICATION Spec
CHECK_DEADLOCK FALSE
CONSTANTS
    Countries = {"XX", "US"}
    MaxEvents = 2
    RateWindow = 2
    ActiveWindow = 1
    Ranked = 2
    Horizon = 3
    MaxPushes = 4
    Corrections = 1
INVARIANTS
    TypeOK
    RateCoversWindow
    ActiveOnlyAges
