SPECIFICATION FairSpec
CONSTANTS
    FlowRoom = 2
    ProgressRoom = 1
    Proxy = {p1, p2}
INVARIANTS
    CancelFits
    ConfirmedIsKept
    SignalsMeet
PROPERTIES
    CancelEnds
CHECK_DEADLOCK FALSE
