SPECIFICATION Spec
CONSTANTS
    Frame <- MCFrame
    Magic = 3
    MaxPayload = 2
    Garbage = {0, 1, 12}
    Window = 4
    MaxFrames = 3
CHECK_DEADLOCK FALSE
INVARIANTS
    TypeOK
    CloseLosesNothing
PROPERTIES
    ImplementsChannel
    EveryFrameArrives
