CONSTANTS
    a = a
    b = b
    c = c
    d = d
    NoEdge = none
    Problems <- MCProblems
    Shorts <- MCShorts
    UnsignedMod = 1000
SPECIFICATION LiveSpec
INVARIANTS
    PathsAreJourneys
    PathsWithinLimit
    DetourIsWorthIt
PROPERTY SearchEnds
CHECK_DEADLOCK FALSE
