CONSTANTS
    Owners = {1, 2}
    Multishot = {1}
    SqEntries = 2
    CqEntries = 2
    CounterMod = 4
    BufferSize = 4
    MaxBacklog = 1
CHECK_DEADLOCK FALSE
SPECIFICATION FairSpec
INVARIANTS
    TypeOK
    InitCleansUp
PROPERTIES
    ImplementsQueue
    LaterEnqueueWakes
