CONSTANTS
    Ids = {1}
    Ticks = {t1, t2}
    Requests = {q1}
    Boot = boot_pass
    Ops = {"create", "pause", "resume", "delete"}
    Every = 1
    MaxRuns = 2
    ExpiresAt = None
    LastAt = 2
    MaxClock = 3
    SplitWrites = TRUE
    Faults = TRUE
    Crashes = TRUE
    None = None
    Absent = Absent
    Empty = Empty
    Corrupt = Corrupt
SPECIFICATION Spec
SYMMETRY Symmetry
VIEW StateView
CHECK_DEADLOCK FALSE
INVARIANTS
    TypeOK
    OneRunAtATime
    MissedOccurrencesAreSkipped
    ActiveMeansArmed
