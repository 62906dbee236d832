CONSTANTS
    Calls = {c1, c2, c3}
    Sessions = {s1}
    None = None
    Ops = {"stream", "replace", "cancel"}
    Autonomous = TRUE
    EarlyEnd = TRUE
    SlowStore = TRUE
    MaxTail = 2
SPECIFICATION Spec
SYMMETRY Symmetry
INVARIANTS
    TypeOK
    RunningIsJustified
    SubscribersUpToDate
