CONSTANTS
    Calls = {c1, c2, c3}
    Sessions = {s1, s2}
    None = None
    Ops = {"stream", "cancel", "reload"}
    Autonomous = FALSE
    EarlyEnd = FALSE
    SlowStore = FALSE
    MaxTail = 1
SPECIFICATION Spec
CHECK_DEADLOCK FALSE
INVARIANTS
    CancelsWaitForTheirRun
