SPECIFICATION Spec
CONSTANTS
    None = None
    Blank = Blank
    Broken = Broken
    Texts = {"root", "data", "x1", "x2", "variant", "colon", "all", "dots", "slash"}
    Listings <- SmallListings
    HeadOf <- Heads
    EntryOf <- Bodies
    UnsafeNames = {"", ".", ".."}
    Form <- Normal
    Rules <- Policy
    Default = "priority"
    BaseHasData = FALSE
    MaxIssues = 1
    MaxLines = 5
    MaxCommands = 3
    MaxDamages = 1
INVARIANTS TypeOK ParsedByPosition QueueFaithful DiffRight
\* the bounds on imports and outputs end every behaviour
CHECK_DEADLOCK FALSE
