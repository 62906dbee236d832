CONSTANTS
    None = None
    MaxEpochs = 2
    MaxRows = 3
    MaxWire = 1
    MaxRemoved = 1
SPECIFICATION FairSpec
INVARIANTS
    TypeOK
    CursorDescribesView
PROPERTIES
    ShownAsPromised
    LiveRowsArrive
CHECK_DEADLOCK FALSE
