CONSTANTS
    Names = {"ann", "ann1"}
    Cut <- MCCut
    Challenges = {c1, c2}
    Worth <- OneEach
    UserPool = 2
    MaxDone = 2
    MaxPoints = 3
    MaxLives = 3
    MaxCrashes = 2
CHECK_DEADLOCK FALSE
SPECIFICATION Spec
INVARIANTS
    TypeOK
    ActiveIsWhole
    CountDrifts
PROPERTY ImplementsUserStore
