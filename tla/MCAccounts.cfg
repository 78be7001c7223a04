CONSTANTS
    Names = {"ann", "long", "long1"}
    Stored <- Cut
    Passwords = {p, q}
    Descriptions = {none, text}
    NoDescription = none
    Challenges = {c1, c2}
    Worth <- OneEach
    UserPool = 2
    Sids = {1, 2}
    MaxDone = 1
    MaxPoints = 2
    MaxLives = 3
SPECIFICATION Spec
INVARIANTS
    TypeOK
    PoolIsSound
PROPERTY AccountKept
