SPECIFICATION Spec
CONSTANTS
    Requests = {r1}
    MaxLinks = 3
    MaxFaults = 1
INVARIANTS WaitersOfThisConnection
CHECK_DEADLOCK FALSE
