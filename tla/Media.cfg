SPECIFICATION Spec
CONSTANTS
    None = None
    Key = {1, 2}
    Hold = {1, 2}
    Redundancy = 2
    MaxDuration = 3
    HalfRange = 16
    Start = {5, 29}
    MaxPresses = 2
    MaxStreams = 2
    ForeignOffer <- MCForeignOffer
    ForeignAnswer <- MCForeignAnswer
    TicksAt <- MCTicksAt
INVARIANTS
    AnswerFits
    EndsAgree
    PressesToldApart
PROPERTIES
    KeysHeard
CHECK_DEADLOCK FALSE
