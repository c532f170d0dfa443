CONSTANTS
    Procs = {p1, p2, p3}
    None = None
    Stranger = Stranger
    MaxTries = 2
    MAXLINE = 16
    Lower <- LowerOf
SPECIFICATION Spec
SYMMETRY Symmetry
CHECK_DEADLOCK FALSE
INVARIANTS
    PidFileNamesDaemon
PROPERTIES
    StopLeavesNone
