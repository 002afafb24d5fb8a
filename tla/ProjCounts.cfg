SPECIFICATION FairSpec
CONSTANTS
    None = None
    Items <- TwoItems
    Workers = 2
    MaxAttempts = 2
    Sizes <- BothSizes
    MaxRevision = 6
\* the bound on revisions ends every behaviour
CHECK_DEADLOCK FALSE
INVARIANTS TypeOK CountsAgree
