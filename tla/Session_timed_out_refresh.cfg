SPECIFICATION Spec
CONSTANTS
    Setups <- WeRefresh
    Grants <- NoGrants
    MaxSeq = 2
INVARIANTS
    StandsDown
CHECK_DEADLOCK FALSE
