SPECIFICATION B_Spec
CONSTANTS
    Dashboards = {d1, d2}
    Count = 2
    MaxEntries = 3
    MaxFaults = 0
CHECK_DEADLOCK FALSE
INVARIANTS
    DocumentedBroadcast
