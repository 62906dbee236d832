SPECIFICATION FairSpec
CONSTANTS
    Conns = {c1}
    MaxSockets = 3
    MaxFrames = 1
    MaxWire = 1
    MaxPending = 1
    MaxFaults = 0
    MaxDataFaults = 0
PROPERTIES ClientsReleased
CHECK_DEADLOCK FALSE
