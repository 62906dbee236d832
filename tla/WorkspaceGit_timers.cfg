CONSTANTS
    None = None
    Subs = {s1, s2}
    Readers = {r1}
    MaxTargets = 2
    MaxChanges = 1
    MaxFailures = 1
SPECIFICATION Spec
INVARIANTS
    TimersStopWithSubscribers
CHECK_DEADLOCK FALSE
