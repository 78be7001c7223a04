CONSTANTS
    HeaderSize = 2
    MaxPayload = 3
    MaxStdin = 4
    Block = 32
    RxAddress = 0
    Requests <- OneRequest
    Uris = {"login", "profile"}
    Sessions = {"sid"}
    Absent = "absent"
    Garbage <- MCGarbage
    MaxConns = 2
CHECK_DEADLOCK FALSE
SPECIFICATION Spec
INVARIANT SurvivesCutRecord
