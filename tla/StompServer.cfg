CONSTANTS
    Sessions = {s1, s2}
    Ids = {c1, c2}
    NoId = none
    MaxRuns = 2
    MaxMessages = 1
    MaxSends = 1
SPECIFICATION Spec
SYMMETRY Symmetry
INVARIANTS
    TypeOK
    MapsInverse
    RegisteredIsLive
    CallbackOrder
    DepartureIsReal
    ReplyOrder
    NeverSilentlyDeaf
PROPERTIES WsSpec ImplementsRegistry
CHECK_DEADLOCK FALSE
