SPECIFICATION FairSpec
CONSTANTS
    first = first
    second = second
    Call <- TwoCalls
    Room = 1
INVARIANTS
    OneFinal
    CancelledTold
PROPERTIES
    CancelResolves
CHECK_DEADLOCK FALSE
