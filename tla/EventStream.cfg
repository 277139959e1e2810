SPECIFICATION FairSpec
CONSTANTS
    Components = {page, panel}
    Sockets = {s1, s2, s3, s4}
    None = None
    MaxMounts = 2
    MaxFaults = 2
INVARIANTS
    NoneForgotten
    NeverMultiplies
PROPERTIES
    Reconnects
CHECK_DEADLOCK FALSE
