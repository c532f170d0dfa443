CONSTANTS
    BufferLines = 2
    MaxBuffers = 3
    MaxLines = 10
    kSmallBuffer = 110
    kMaxNumericSize = 12
SPECIFICATION Spec
CHECK_DEADLOCK FALSE
INVARIANTS
    RefillFindsBuffers
    LinesInOrder
    StopInWaitWritesEverything
PROPERTIES
    LinesGetWritten
    StopReturns
