SPECIFICATION Spec
CONSTANTS
    a1 = a1
    a2 = a2
    b1 = b1
    a = a
    b = b
    Tasks = {a1, a2, b1}
    Clients = {a, b}
    Client <- MCClient
    Global = Global
    GlobalRpm = 2
    PerClientRpm = 2
    Minute = 3
    MaxTime = 3
    MaxDebt = 2
INVARIANTS TypeOK Throughput DistinctTimes SleepersFirst
PROPERTIES ImplementsSchedule
CHECK_DEADLOCK FALSE
