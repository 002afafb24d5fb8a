SPECIFICATION ChannelSpec
CONSTANTS
    None = None
    i1 = i1
    Items <- OneItem
    Actions = {"exclude_item", "pause_admission", "renew_tor_circuits"}
    MaxRequests = 2
    MaxNonces = 2
    MaxSessions = 2
    MaxAutos = 0
    Interval = 1
    MaxTime = 0
INVARIANTS TypeOK OnlyOnce EffectsAudited
PROPERTY ConsentKept
CHECK_DEADLOCK FALSE
