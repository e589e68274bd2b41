CONSTANTS
    Sessions = {s1}
    Ids = {c1}
    NoId = none
    MaxRuns = 1
    MaxMessages = 1
    MaxSends = 1
    Subs = {b1}
    NoSub = none
    MaxPosted = 1
SPECIFICATION MonitorSpec
PROPERTY SubscribeFailureIsRecorded
CHECK_DEADLOCK FALSE
