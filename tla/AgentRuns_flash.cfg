CONSTANTS
    Calls = {c1, c2, c3}
    Sessions = {s1}
    None = None
    Ops = {"stream", "replace"}
    Autonomous = FALSE
    EarlyEnd = FALSE
    SlowStore = FALSE
    MaxTail = 0
SPECIFICATION Spec
PROPERTIES
    NoIdleFlash
