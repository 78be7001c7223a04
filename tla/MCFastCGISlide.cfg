CONSTANTS
    HeaderSize = 2
    MaxPayload = 14
    MaxStdin = 16
    Block = 8
    RxAddress = 0
    Requests <- LongBody
    Uris = {"login"}
    Sessions = {"sid"}
    Absent = "absent"
    Garbage <- MCGarbage
    MaxConns = 1
CHECK_DEADLOCK FALSE
SPECIFICATION Spec
INVARIANT BodyIsPrefix
