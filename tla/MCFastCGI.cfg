CONSTANTS
    HeaderSize = 2
    MaxPayload = 6
    MaxStdin = 6
    Block = 4
    RxAddress = 1
    Requests <- MCRequests
    Uris = {"login", "profile"}
    Sessions = {"sid"}
    Absent = "absent"
    Garbage <- MCGarbage
    MaxConns = 2
CHECK_DEADLOCK FALSE
SPECIFICATION Spec
INVARIANTS
    TypeOK
    ReadHasRoom
    DeliveredIsAsked
    CompleteRequestIsAnswered
    NothingDiscarded
