SPECIFICATION Spec
CONSTANTS
    d1 = d1
    d2 = d2
    d3 = d3
    Delivery <- TwoDeliveries
    Budget = 1
    DuplicateWait = 1
    ClientTimeout = 1
    StaleAge = 2
    ClaimTtl = 2
    AtomicCreate = TRUE
    GateMaySkip = TRUE
    MaxCrashes = 1
    MaxShutdowns = 0
    MaxClaimErrors = 1
    MaxDlqFaults = 1
SYMMETRY Symmetry
INVARIANT TypeOK
INVARIANT OneInvestigation
INVARIANT AnswerMeansSettled
INVARIANT ExpiredClaimIsDead
CHECK_DEADLOCK FALSE
