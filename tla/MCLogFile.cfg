CONSTANTS
    roll_size_ = 2
    flush_interval_ = 2
    check_every_n_ = 2
    kRollPerSeconds = 4
    Garbage <- GarbageValues
    MaxTime = 9
    MaxAppends = 7
SPECIFICATION FileSpec
CHECK_DEADLOCK FALSE
INVARIANTS
    
    CheckNotPutOff
