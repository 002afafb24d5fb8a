SPECIFICATION Spec
CONSTANTS
    None = None
    Torn = Torn
    Junk = Junk
    i1 = i1
    i2 = i2
    r1 = r1
    r2 = r2
    Items <- TwoItems
    QueueOf <- OverlappingQueues
    MaxSessions = 2
    MaxAttempts = 3
    MaxFaults = 1
INVARIANTS TypeOK CompletedHasRecord FailureIsVisible CleanSessionVerifies
PROPERTIES Sealed
CHECK_DEADLOCK FALSE
