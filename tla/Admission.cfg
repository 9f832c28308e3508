SPECIFICATION FairSpec
CONSTANTS
    a1 = a1
    a2 = a2
    a3 = a3
    b1 = b1
    b2 = b2
    a = a
    b = b
    Tasks = {a1, a2, a3, b1, b2}
    Clients = {a, b}
    Client <- MCClient
    Global = Global
    MaxConcurrent = 2
    MaxPerClient = 2
    MaxWaiting = 2
INVARIANTS TypeOK Bounds WaitingIsExact PermitsConserved NoLostWakeup
PROPERTIES NoOvertaking ImplementsPromise EveryWaiterIsServed
