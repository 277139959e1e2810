SPECIFICATION FairSpec
CHECK_DEADLOCK FALSE
CONSTANTS
    Requests = {r1}
    Clients = {c1}
    Messages = {m1, m2}
    Bodies <- MCBodies
    Broken = broken
    Burst = 2
    MaxRetries = 1
    MaxBreaks = 1
INVARIANTS
    RepliesPaired
    AckMeansStored
    RejectedNeverStored
    AcksInOrder
    AnsweredOnce
PROPERTIES
    PublishSettles
    RestShutdown
