CONSTANTS
    Ids = {1, 2}
    Ticks = {t1, t2}
    Requests = {q1}
    Boot = boot_pass
    Ops = {"create", "delete"}
    Every = 1
    MaxRuns = None
    ExpiresAt = 2
    LastAt = None
    MaxClock = 2
    SplitWrites = FALSE
    Faults = FALSE
    Crashes = FALSE
    None = None
    Absent = Absent
    Empty = Empty
    Corrupt = Corrupt
SPECIFICATION FairSpec
INVARIANTS
    ClaimsHaveOwners
PROPERTIES
    DueSchedulesRun
