SPECIFICATION Spec
CONSTANTS
    None = None
    i1 = i1
    Items <- OneItem
    Actions = {"retry_now", "renew_tor_circuits"}
    MaxRequests = 2
    MaxNonces = 2
    MaxSessions = 2
    MaxAutos = 1
    Interval = 1
    MaxTime = 1
INVARIANTS SignalsSpaced
CHECK_DEADLOCK FALSE
