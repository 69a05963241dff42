SPECIFICATION Spec
CONSTANTS
    Volume = 2
    MaxPending = 1
    MaxRetries = 1
    StaleAge = 0
    MaxOrders = 2
    MaxBatch = 2
    x = x  y = y  z = z
    EAs <- MCEAs
    Nobody = Nobody
    MagicOf <- MCMagicOf
    MaxTries = 2
    SendRetries = 2
    MaxCalls = 3
    Sources = {"HEDGE_ZONE", "HEDGE"}
    ZoneAllows = {"HEDGE"}
    MaxPositions <- MCMaxPositions
    ZoneTrigger = 1
    ZoneCycle = FALSE
    LastDay = 2
    MaxCommands = 1
INVARIANTS TypeOK OrdersCounted NoOverfill RetriesBounded ReservedOnce RunsRegistered
           ReportedOrHidden CapsHold
PROPERTIES LeavesForCause PressureLifts DecisionsBind
CHECK_DEADLOCK FALSE
