SPECIFICATION FairSpec
CONSTANTS
    None = None
    Items <- TwoItems
    Origin <- SameOrigin
    Workers = 1
    MaxAttempts = 2
    Events = {"pause", "drain", "stop", "deadline", "space", "failure", "requeue", "retry_now"}
PROPERTIES StopEnds DrainEnds Served
