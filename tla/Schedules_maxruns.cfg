CONSTANTS
    Ids = {1}
    Ticks = {t1, t2}
    Requests = {q1}
    Boot = boot_pass
    Ops = {"create"}
    Every = 1
    MaxRuns = 1
    ExpiresAt = None
    LastAt = None
    MaxClock = 2
    SplitWrites = FALSE
    Faults = FALSE
    Crashes = FALSE
    None = None
    Absent = Absent
    Empty = Empty
    Corrupt = Corrupt
SPECIFICATION Spec
INVARIANTS
    MaxRunsRespected
