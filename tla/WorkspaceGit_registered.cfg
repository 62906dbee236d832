CONSTANTS
    None = None
    Subs = {s1, s2}
    Readers = {}
    MaxTargets = 2
    MaxChanges = 1
    MaxFailures = 1
SPECIFICATION Spec
SYMMETRY Symmetry
INVARIANTS
    SubscribersAreRegistered
    SubscribersShowSnapshot
CHECK_DEADLOCK FALSE
