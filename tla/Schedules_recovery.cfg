CONSTANTS
    Ids = {1}
    Ticks = {t1, t2}
    Requests = {q1}
    Boot = boot_pass
    Ops = {"create", "pause", "resume"}
    Every = 1
    MaxRuns = None
    ExpiresAt = None
    LastAt = None
    MaxClock = 3
    SplitWrites = FALSE
    Faults = FALSE
    Crashes = TRUE
    None = None
    Absent = Absent
    Empty = Empty
    Corrupt = Corrupt
SPECIFICATION Spec
PROPERTIES
    RecoveryEndsAllRuns
