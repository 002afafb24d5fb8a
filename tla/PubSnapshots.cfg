SPECIFICATION FairSpec
CONSTANTS
    None = None
    Torn = Torn
    MaxAttempts = 1
    MaxSessions = 2
    MaxRepeats = 1
    MaxFaults = 2
\* the system stops after the last allowed start
CHECK_DEADLOCK FALSE
INVARIANTS TypeOK PathWhole FinalIsLast
PROPERTIES Forward ChangePublished
