CONSTANTS
    Users = {u1}
    Msgs = {m1, m2}
    MsgLen = 2
    MaxRx = 1
    HighWaterMark = 1
    HighWaterCalls = {"nothing", "forceclose"}
    LoopCalls = {"send", "shutdown", "forceclose", "forcecloseafter"}
    UserCalls = {"send", "shutdown", "forceclose"}
SPECIFICATION Spec
CHECK_DEADLOCK FALSE
INVARIANTS
    BytesInOrder
    WriteInterestMatchesOutput
    ShutdownAfterDrain
    CloseOnce
    NotRegisteredAfterDestroy
