CONSTANTS
    kMaxRetry = 3
    UserCalls = {"disconnect", "stop", "destroy"}
    MaxConnects = 2
    MaxQueued = 2
    retry_ = TRUE
    Outcomes = {"pending", "refused", "fatal"}
SPECIFICATION Spec
CHECK_DEADLOCK FALSE
INVARIANTS
    OneAttemptAtATime
    AssertsHold
PROPERTIES
    StopStops
    AutoReconnect
