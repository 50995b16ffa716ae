CONSTANTS
    t1 = t1
    t2 = t2
    t3 = t3
    b1 = b1
    b2 = b2
    b3 = b3
    Threads <- MCThreads
    Blocks <- MCBlocks
    Vals <- MCVals
    LOGSIZE = 2
    MAXOPBLOCKS = 1
    LogSize = 2
    Ops = 1
    MaxCrash = 1
SPECIFICATION MCSpec
INVARIANT NoPanic
CHECK_DEADLOCK FALSE
