SPECIFICATION FairSpec
CONSTANTS
    a1 = a1
    a2 = a2
    b1 = b1
    a = a
    b = b
    Tasks = {a1, a2, b1}
    Clients = {a, b}
    Client <- MCClient
    Global = Global
    MaxConcurrent = 2
    MaxPerClient = 1
    MaxWaiting = 2
    Streaming = {a1, b1}
    MaxAttempts = 2
INVARIANTS TypeOK UpstreamLoad
PROPERTIES RetriesAreInvisible UsesGateFairly EveryRequestEnds
