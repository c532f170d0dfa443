CONSTANTS
    MaxThreads = 2
    MaxClients = 2
    FdLimit = 3
    MaxOthers = 1
SPECIFICATION Spec
CHECK_DEADLOCK FALSE
INVARIANTS
    DownOnce
    DeadServerUntouched
    SpareKept
PROPERTIES
    PeerCloseRemoves
    BacklogServed
