SPECIFICATION FairSpec
CONSTANTS
    e1 = e1  e2 = e2  o1 = o1  o2 = o2
    Instances = {e1}
    Orders = {o1, o2}
    Closing = {o2}
    None = None
    AsyncDelete = TRUE
    MaxCrashes = 1
INVARIANTS NothingLost
PROPERTIES NoSilentStall
CHECK_DEADLOCK FALSE
