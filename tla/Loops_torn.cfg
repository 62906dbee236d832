CONSTANTS
    None = None
    Nothing = Nothing
    Torn = Torn
    MaxRetries = 1
    MaxCrashes = 1
    MaxFailures = 1
SPECIFICATION Spec
INVARIANTS
    WrittenAtomically
CHECK_DEADLOCK FALSE
