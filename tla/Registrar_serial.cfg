SPECIFICATION FairSpec
CONSTANTS
    loop = loop
    app = app
    None = None
    Task <- MCTask
    Keepalive = loop
    Overlap = FALSE
    Configured = 2
    Floor <- TwoFloors
    Lifetime <- ShortLifetime
    MaxOps <- OneEach
INVARIANTS
    FreshCSeq
    InSync
    UnregisterSticks
    RetriesBounded
PROPERTIES
    OperationsEnd
    KeepaliveStops
CHECK_DEADLOCK FALSE
