SPECIFICATION FairSpec
CONSTANTS
    Requests = {r1}
    MaxLinks = 5
    MaxFaults = 2
INVARIANTS TypeOK OneSession HandledOnce
PROPERTIES Reconnects
CHECK_DEADLOCK FALSE
