SPECIFICATION FairSpec
CONSTANTS
    e1 = e1  e2 = e2  o1 = o1  o2 = o2
    Instances = {e1}
    Orders = {o1, o2}
    Closing = {o2}
    None = None
    AsyncDelete = FALSE
    MaxCrashes = 2
INVARIANTS TypeOK AtMostOnce AppliedAfterDelete NothingLost AckedIsDurable
PROPERTIES NoSilentStall
CHECK_DEADLOCK FALSE
