SPECIFICATION FairSpec
CONSTANTS
    None = None
    Size = 2
    Versions = 1
    MaxAttempts = 1
    MaxGen = 2
    MaxInode = 3
    MaxEpoch = 3
    MaxRun = 2
    Headers <- Etags
    QueueSums <- MaybeSum
    QueueMayChange = TRUE
    Survivors = "none"
    SourceMoves = "never"
INVARIANTS TypeOK PhaseInvariant CompleteHasFinal
PROPERTIES ClaimsCompared CustodyKept EvidenceKept PromotionResolved
