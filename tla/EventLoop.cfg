CONSTANTS
    MaxClients = 2
    SQEntries = 3
    Fds = {3, 4}
    MaxTx = 2
SPECIFICATION Spec
CONSTRAINT EntryIsAvailable
INVARIANTS
    TypeOK
    OneOperation
    OperationMatchesState
    FdOwnership
    PoolAgreement
PROPERTIES
    OverrunNeedsCrowd
    UsesRingsAsQueues
