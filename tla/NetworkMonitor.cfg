CONSTANTS
    Sessions = {s1}
    Ids = {c1}
    NoId = none
    MaxRuns = 1
    MaxMessages = 1
    MaxSends = 1
    Subs = {b1}
    NoSub = none
    MaxPosted = 1
SPECIFICATION MonitorLiveSpec
INVARIANTS
    MonitorTypeOK
    ListedAfterNews
    FinishedMeansDown
PROPERTIES
    ComponentsKeepTheirSpecs
    NeverRelisted
    FailureEndsRun
CHECK_DEADLOCK FALSE
