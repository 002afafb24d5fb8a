SPECIFICATION FairSpec
CONSTANTS
    None = None
    Items = 2
    Filters <- TwoFilters
    Buckets = {"queued", "retry"}
    PageSize = 1
    ExportSize = 1
    MaxCursors = 2
    MaxKeys = 4
    MaxRevision = 1
    MaxFaults = 1
INVARIANTS TypeOK ExportWhole Aligned
PROPERTIES RequestsEnd ChangeAnnounced
\* An empty result is not polled: the pane waits for the operator.
CHECK_DEADLOCK FALSE
