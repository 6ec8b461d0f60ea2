SPECIFICATION FairSpec
CONSTANTS
    r1 = r1
    r2 = r2
    NoEntry = NoEntry
    Request <- Two
    OwnWait = TRUE
    MaxFaults = 1
INVARIANTS TypeOK OneLeader GateReleased OwnCaseCounted WaiterReuses ReuseHasText
PROPERTY EveryRequestEnds
CHECK_DEADLOCK FALSE
