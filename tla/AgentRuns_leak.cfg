CONSTANTS
    Calls = {c1, c2}
    Sessions = {s1}
    None = None
    Ops = {"stream"}
    Autonomous = FALSE
    EarlyEnd = FALSE
    SlowStore = FALSE
    MaxTail = 0
SPECIFICATION Spec
INVARIANTS
    PendingRunHasOwner
