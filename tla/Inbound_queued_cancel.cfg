SPECIFICATION Spec
CONSTANTS
    first = first
    second = second
    Call <- OneCall
    Room = 1
INVARIANTS
    CancelHeard
CHECK_DEADLOCK FALSE
