CONSTANTS
    None = None
    Ops = {o1, o2}
    Titles = {t1, t2}
    MaxQueue = 2
SPECIFICATION Spec
PROPERTIES
    SnapshotsKeepTheRest
CHECK_DEADLOCK FALSE
