CONSTANTS
    Calls = {c1, c2}
    Sessions = {s1}
    None = None
    Ops = {"stream", "cancel"}
    Autonomous = FALSE
    EarlyEnd = TRUE
    SlowStore = FALSE
    MaxTail = 1
SPECIFICATION Spec
INVARIANTS
    EndsSettleWaiters
