SPECIFICATION Spec
CONSTANTS
    None = None
    Nowhere = Nowhere
    Literal = {"literal"}
    Account <- MCAccount
    Answer <- MCAnswer
    Lookups <- MCLookups
    Cert <- MCCert
    Bodies <- MCBodies
    ReadChunk = 8
    Depth = 1
    MaxHeader = 7
    MaxItems = 2
INVARIANTS
    LocationSound
    CertificatesJudged
    FramedAsSent
PROPERTIES
    FairVerdict
    InOrder
    ConnectionEnds
CHECK_DEADLOCK FALSE
