CONSTANTS
    Users = {u1}
    Msgs = {m1, m2}
    MsgLen = 2
    MaxRx = 0
    HighWaterMark = 1
    HighWaterCalls = {"nothing"}
    LoopCalls = {}
    UserCalls = {"send", "shutdown"}
SPECIFICATION Spec
CHECK_DEADLOCK FALSE
INVARIANTS
    GracefulShutdown
