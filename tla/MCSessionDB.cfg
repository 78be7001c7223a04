CONSTANTS
    Keys <- MCSids
    Vals <- MCVals
    Capacity = 3
    Hash <- MCHash
    Uids = {u1, u2}
    NoUid = NoUid
    CountMod = 8
    DeleteMeetsCrash = FALSE
    MaxCrashes = 2
CHECK_DEADLOCK FALSE
SPECIFICATION Spec
INVARIANTS
    TypeOK
    FileIsSound
PROPERTY ImplementsSessionStore
