CONSTANTS
    None = None
    MaxEpochs = 2
    MaxRows = 3
    MaxWire = 1
    MaxRemoved = 3
SPECIFICATION Spec
INVARIANTS
    StreamHasNoGapOrRepeat
CHECK_DEADLOCK FALSE
