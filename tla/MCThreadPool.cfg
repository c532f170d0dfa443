CONSTANTS
    Threads = {w1, w2, c1}
    Workers = {w1, w2}
    Items = {x1, x2, x3, x4, x5}
    maxsize_ = 1
SPECIFICATION Spec
INVARIANTS
    NoLostElement
    NoLostSlot
    StoppedMeansQuiet
PROPERTIES
    StopReturns
    AddedTaskRuns
