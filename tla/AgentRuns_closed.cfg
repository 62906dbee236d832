CONSTANTS
    Calls = {c1, c2}
    Sessions = {s1, s2}
    None = None
    Ops = {"stream", "close"}
    Autonomous = FALSE
    EarlyEnd = FALSE
    SlowStore = FALSE
    MaxTail = 0
SPECIFICATION Spec
CHECK_DEADLOCK FALSE
PROPERTIES
    ClosedSnapshotIsFinal
