SPECIFICATION Spec
CONSTANTS
    T1 = 1
    T2 = 8
    T4 = 10
    TimeoutFactor = 64
    SoakD = 64
    Reliable = FALSE
    Provisional <- MCProvisional
    Success <- MCSuccess
    Failure <- MCFailure
    Unackable <- MCUnackable
    NoResponse <- MCNoResponse
    ClientKey <- NoKey
    ServerKey <- InviteIn
    InviteKey <- InviteIn
    MaxOpens = 2
INVARIANTS
    OrphanIsStale
CHECK_DEADLOCK FALSE
