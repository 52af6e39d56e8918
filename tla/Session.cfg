SPECIFICATION FairSpec
CONSTANTS
    Setups <- BothRoles
    Grants <- OneGrant
    MaxSeq = 3
INVARIANTS
    TypeOK
    AwaitedIsNewest
    HoldAgrees
    HungUpIsDown
    RefreshInTime
PROPERTIES
    RequestsEnd
    LoopStops
CHECK_DEADLOCK FALSE
