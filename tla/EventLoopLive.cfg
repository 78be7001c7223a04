CONSTANTS
    MaxClients = 1
    SQEntries = 2
    Fds = {3, 4}
    MaxTx = 2
SPECIFICATION FairSpec
PROPERTIES
    ListenerStaysArmed
    ClosingIsFreed
    ReplyIsFinished
    TickRecurs
