CONSTANTS
    None = None
    Ops = {o1, o2, o3}
    Titles = {t1}
    MaxQueue = 2
SPECIFICATION Spec
SYMMETRY Symmetry
INVARIANTS
    TypeOK
    SavedRecordSurvives
    RemovedStaysRemoved
CHECK_DEADLOCK FALSE
