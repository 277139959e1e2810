SPECIFICATION P_Spec
CHECK_DEADLOCK FALSE
CONSTANTS
    Requests = {}
    Clients = {c1}
    Messages = {m1, m2}
    Bodies <- MCBodies
    Broken = broken
    Burst = 2
    MaxRetries = 1
    MaxBreaks = 1
    Dashboards = {d1}
    Count = 2
    MaxEntries = 4
    MaxFaults = 1
INVARIANTS
    ShownInSendOrder
    CopiesFromBreaks
PROPERTIES
    AckedIsShown
