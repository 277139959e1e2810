SPECIFICATION Spec
CHECK_DEADLOCK FALSE
CONSTANTS
    Requests = {r1}
    Clients = {c1}
    Messages = {m1, m2}
    Bodies <- ValidBodies
    Broken = broken
    Burst = 2
    MaxRetries = 1
    MaxBreaks = 1
INVARIANTS
    DocumentedOneEntry
