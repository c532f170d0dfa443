CONSTANTS
    Owner = owner
    Callers = {owner, other}
    Functors = {f1, f2, f3}
SPECIFICATION ThreadSpec
INVARIANTS
    NoLostWakeup
    FifoExactlyOnce
    OnlyOwnQuitTouchesDeadLoop
    NoCallbackAfterDestruction
PROPERTIES
    ImplementsExecutor
    QueuedRuns
    DestructorOfRunningLoopReturns
