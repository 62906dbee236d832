SPECIFICATION Spec
CONSTANTS
    Conns = {c1}
    MaxSockets = 4
    MaxFrames = 2
    MaxWire = 2
    MaxPending = 2
    MaxFaults = 2
    MaxDataFaults = 1
CHECK_DEADLOCK FALSE
INVARIANTS ClientsAreExpected
