CONSTANTS
    Names = {"ann", "bob"}
    Stored <- Cut
    Passwords = {p}
    Descriptions = {none}
    NoDescription = none
    Challenges = {c1, c2}
    Worth <- OneEach
    UserPool = 2
    Sids = {1, 2}
    MaxDone = 1
    MaxPoints = 1
    MaxLives = 2
SPECIFICATION Spec
INVARIANT SessionKeepsAccount
