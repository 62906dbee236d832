CONSTANTS
    Calls = {c1, c2}
    Sessions = {s1, s2}
    None = None
    Ops = {"stream", "replace", "cancel", "close", "reload", "resume"}
    Autonomous = FALSE
    EarlyEnd = TRUE
    SlowStore = TRUE
    MaxTail = 1
SPECIFICATION Spec
CHECK_DEADLOCK FALSE
SYMMETRY Symmetry
VIEW StateView
INVARIANTS
    OneForegroundRun
    ActiveTurnHasForwarder
    HeldBusyHasReplacer
    CancelsWaitForEndingRuns
PROPERTIES
    CancelLeavesTurnInactive
