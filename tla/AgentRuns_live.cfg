CONSTANTS
    Calls = {c1, c2}
    Sessions = {s1}
    None = None
    Ops = {"stream", "replace", "cancel"}
    Autonomous = TRUE
    EarlyEnd = TRUE
    SlowStore = FALSE
    MaxTail = 1
SPECIFICATION FairSpec
PROPERTIES
    CancelReturnsEventually
    CanceledRunEnds
    HoldIsReleased
