SPECIFICATION Spec
CONSTANTS
    Dashboards = {d1, d2}
    Count = 2
    MaxEntries = 3
    MaxFaults = 1
CHECK_DEADLOCK FALSE
SYMMETRY Interchangeable
INVARIANTS
    
    NoGapNoRepeat
    SameFeed
PROPERTIES
    ImplementsFeed
