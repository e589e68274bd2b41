CONSTANTS
    Sessions = {s1, s2}
    Ids = {c1, c2}
    NoId = none
    MaxRuns = 1
    MaxMessages = 1
    MaxSends = 0
SPECIFICATION LiveSpec
PROPERTIES BreakIsReported StopDrains
CHECK_DEADLOCK FALSE
