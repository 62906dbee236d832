SPECIFICATION Spec
CONSTANTS
    Requests = {r1}
    MaxLinks = 5
    MaxFaults = 2
CHECK_DEADLOCK FALSE
INVARIANTS ReconnectIsUnderWay
