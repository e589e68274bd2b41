CONSTANTS
    a = a
    b = b
    c = c
    d = d
    NoEdge = none
    Searches <- MCSearches
SPECIFICATION LiveSpec
INVARIANTS
    PreviousIsExact
    ResultIsBest
    AnswerAddsUp
PROPERTY SearchEnds
CHECK_DEADLOCK FALSE
