\* Four requests on one slot and two places in the queue.
CONSTANTS
    r1 = r1
    r2 = r2
    r3 = r3
    r4 = r4
    Req <- Req4
    PoolSize = 1
    MaxQueueSize = 2
    Int32Half = 1024
SPECIFICATION FairSpec
INVARIANTS
    NoSlotWhileParked
    Bounded
PROPERTIES
    ShedJustified
    FIFO
    Answered
    Implements
