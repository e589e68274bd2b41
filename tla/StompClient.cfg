CONSTANTS
    Subs = {b1, b2}
    NoSub = none
    Requests = {q1}
    HasOnMessage = TRUE
    MaxPosted = 1
SPECIFICATION LiveSpec
INVARIANTS
    TypeOK
    SubscriptionsAccounted
    FailedIsNeverLive
    EndIsReported
PROPERTIES
    ImplementsSubscriptions
    OnlyTlsMayHang
    RequestsAreAnswered
CHECK_DEADLOCK FALSE
