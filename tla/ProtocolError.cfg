CONSTANTS
    Sessions = {s1}
    Ids = {c1}
    NoId = none
    MaxRuns = 1
    MaxMessages = 1
    MaxSends = 1
SPECIFICATION Spec
PROPERTY ProtocolErrorIsReported
CHECK_DEADLOCK FALSE
