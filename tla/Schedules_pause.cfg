CONSTANTS
    Ids = {1}
    Ticks = {t1}
    Requests = {q1}
    Boot = boot_pass
    Ops = {"create", "pause", "resume"}
    Every = 1
    MaxRuns = None
    ExpiresAt = None
    LastAt = None
    MaxClock = 2
    SplitWrites = FALSE
    Faults = FALSE
    Crashes = FALSE
    None = None
    Absent = Absent
    Empty = Empty
    Corrupt = Corrupt
SPECIFICATION Spec
PROPERTIES
    PausedStaysPaused
