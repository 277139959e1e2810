SPECIFICATION Spec
CONSTANTS
    Kinds <- MCKinds
    Includes <- MCIncludes
    Texts = {"", "10.0", "0.2"}
    Tactics = {"TA0011"}
    MaxEvents = 3
    MaxArrivals = 4
    GraphWindow = 2
    SidebarWindow = 2
    MaxInputs = 5
INVARIANTS
    CountsAgree
    ColourIsWorst
PROPERTIES
    SelectionExists
    QueryIsLatest
    FeedSettles
CHECK_DEADLOCK FALSE
