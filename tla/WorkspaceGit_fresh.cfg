CONSTANTS
    None = None
    Subs = {s1}
    Readers = {r1}
    MaxTargets = 2
    MaxChanges = 1
    MaxFailures = 1
SPECIFICATION FairSpec
INVARIANTS
    TypeOK
    ForcedReadsAreFresh
    SubscribersAreRegistered
PROPERTIES
    SubscribersCatchUp
CHECK_DEADLOCK FALSE
