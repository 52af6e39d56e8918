SPECIFICATION UdpSpec
CONSTANTS
    T1 = 1
    T2 = 2
    T4 = 3
    TimeoutFactor = 6
    SoakD = 5
    Reliable = FALSE
    Provisional <- MCProvisional
    Success <- MCSuccess
    Failure <- MCFailure
    Unackable <- MCUnackable
    NoResponse <- MCNoResponse
    ClientKey <- ClientKeys
    ServerKey <- ServerKeys
    InviteKey <- Invites
    MaxOpens = 2
INVARIANTS
    TypeOK
    Conforms
    Guarded
    Repeats
    CancelledIsStale
PROPERTIES
    ImplementsService
    EveryWaitEnds
CHECK_DEADLOCK FALSE
