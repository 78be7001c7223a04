CONSTANTS
    Block = 4
    Base = 128
    UriName <- Uri
    MethodName <- Method
    CookieName <- Cookie
    SessionKey <- Sess
    UriMax = 3
    MethodMax = 3
    SessionMax = 2
    Absent = Absent
    WordSize = 1000
    SockKey <- Sock
    SockDefault = default
    TopSize = 3
    Copies <- MCCopies
    Strings <- MCStrings
    Records <- MCRecords
    Claims <- MCClaims
    Forms <- MCForms
    Days <- MCDays
    Seconds <- MCSeconds
    Counts <- MCCounts
    Lists <- MCLists
    Envs <- MCEnvs
    Pools <- MCPools
CHECK_DEADLOCK FALSE
SPECIFICATION Spec
INVARIANTS
    CopyMatches
    SearchesAgree
    DecodersAgree
    NumbersAgree
