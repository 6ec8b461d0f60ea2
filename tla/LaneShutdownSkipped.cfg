SPECIFICATION Spec
CONSTANTS
    d1 = d1
    d2 = d2
    d3 = d3
    Delivery <- TwoDeliveries
    Budget = 1
    DuplicateWait = 1
    ClientTimeout = 2
    StaleAge = 1
    ClaimTtl = 2
    AtomicCreate = TRUE
    GateMaySkip = FALSE
    MaxCrashes = 1
    MaxShutdowns = 1
    MaxClaimErrors = 0
    MaxDlqFaults = 0
INVARIANT CommittedSettled
CHECK_DEADLOCK FALSE
