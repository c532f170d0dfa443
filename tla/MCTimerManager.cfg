CONSTANTS
    N = 3
    MaxQueued = 1
    MaxTime = 2
    Intervals = {0, 1}
    TicksPerMs = 2
    PollCap = 1
    MaxRuns = 2
    EarlierAdds = FALSE
SPECIFICATION Spec
INVARIANTS
    HeapOrdered
    NoTimerLost
    NeverOversleeps
PROPERTIES
    AllExpiredRun
