SPECIFICATION FairSpec
CONSTANTS
    None = None
    Items <- TwoItems
    Origin <- SameOrigin
    Workers = 1
    MaxAttempts = 1
    Events = {"pause"}
PROPERTY PauseHoldsRun
