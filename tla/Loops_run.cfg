CONSTANTS
    None = None
    Nothing = Nothing
    Torn = Torn
    MaxRetries = 2
    MaxCrashes = 2
    MaxFailures = 2
SPECIFICATION FairSpec
INVARIANTS
    TypeOK
    RunningLoopsExecute
    AgentsAreClosed
PROPERTIES
    StopCallsReturn
CHECK_DEADLOCK FALSE
