SPECIFICATION FairSpec
CONSTANTS
    None = None
    Items <- TwoItems
    Origin <- SameOrigin
    Workers = 2
    MaxAttempts = 2
    Events = {"full", "requeue", "failure", "exclude", "cooldown", "existing"}
INVARIANTS TypeOK SlotFree OneTaskPerItem
