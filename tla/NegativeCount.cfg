CONSTANTS
    a = a
    b = b
    c = c
    d = d
    NoEdge = none
    Problems <- TwoWays
    Shorts <- NoShorts
    UnsignedMod = 1000
SPECIFICATION Spec
INVARIANT LowestPassengerCount
CHECK_DEADLOCK FALSE
