SPECIFICATION Spec
CONSTANTS
    EventRoom = 1
    IncomingRoom = 1
    CommandRoom = 1
    CallsRoom = 1
    StreamRoom = 1
    MaxEvents = 5
INVARIANTS
    NoneLost
    JamTakesAll
PROPERTIES
    Settles
CHECK_DEADLOCK FALSE
