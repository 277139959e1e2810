SPECIFICATION V_FairSpec
CONSTANTS
    Kinds <- MCKinds
    Includes = {}
    Texts = {"", "10.0"}
    Tactics = {"TA0011"}
    MaxEvents = 2
    MaxArrivals = 3
    GraphWindow = 2
    SidebarWindow = 2
    MaxInputs = 3
    MaxArcs = 2
    Segments = 3
    Trail = 1
    Full = 2
    Speeds = {1, 2}
    MaxMounts = 2
    MaxMouse = 3
INVARIANTS
    FullyDrawn
    DetailIsClicked
PROPERTIES
    ImplementsPage
    ArcsComplete
CHECK_DEADLOCK FALSE
