SPECIFICATION FairSpec
CONSTANTS
    None = None
    Size = 2
    Versions = 2
    MaxAttempts = 3
    MaxGen = 2
    MaxInode = 2
    MaxEpoch = 2
    MaxRun = 1
    Headers <- AnyHeader
    QueueSums <- NoSum
    QueueMayChange = FALSE
    Survivors = "recorded"
    SourceMoves = "between_attempts"
INVARIANTS BaselineGuardsResume RecordedWriterStopped
