SPECIFICATION Spec
CONSTANTS
    first = first
    second = second
    Call <- OneCall
    Room = 1
INVARIANTS
    ByeHeard
CHECK_DEADLOCK FALSE
