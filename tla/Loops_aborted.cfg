CONSTANTS
    None = None
    Nothing = Nothing
    Torn = Torn
    MaxRetries = 2
    MaxCrashes = 2
    MaxFailures = 2
SPECIFICATION Spec
CHECK_DEADLOCK FALSE
PROPERTIES AbortedLoopsCountDown
