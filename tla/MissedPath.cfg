CONSTANTS
    a = a
    b = b
    c = c
    d = d
    NoEdge = none
    Problems <- LinkedWays
    Shorts <- NoShorts
    UnsignedMod = 1000
SPECIFICATION Spec
INVARIANT AllPathsFound
CHECK_DEADLOCK FALSE
