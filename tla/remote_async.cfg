SPECIFICATION Spec
CONSTANTS
    e1 = e1  e2 = e2  o1 = o1  o2 = o2
    Instances = {e1}
    Orders = {o1}
    Closing = {o1}
    None = None
    AsyncDelete = TRUE
    MaxCrashes = 0
INVARIANTS AtMostOnce
CHECK_DEADLOCK FALSE
