SPECIFICATION Spec
CONSTANTS
    Parts = {"replay"}
    d1 = d1
    d2 = d2
    w1 = w1
    w2 = w2
    Ref <- Refs
    Worker <- Actors
    NoRef = NoRef
    Deliveries <- Twice
    MaxCaseFaults = 1
    Releaser <- Actors
    Finding <- SomeFindings
    File = {"site", "caller"}
    Ttl = 0
    NegativeTtl = 0
    MaxTicks = 0
    MaxCommits = 2
    MaxAnalyses = 2
    MaxSends = 2
    MaxReplayFaults = 1
    Pod <- Actors
    Case4 = {"c1", "c2", "c3"}
    MemberCap = 2
    MaxAttempts4 = 2
    Endpoints <- SomeEndpoints
    MaxJobs = 3
    MaxStoreFaults = 1
    Event5 = {"e1", "e2"}
    LearningRule = {"r1", "r2", "r3"}
    Tool = {"t1", "t2"}
    MinSamples = 2
    MaxTexts = 3
    MaxRevisions = 2
    MaxDeaths = 1
    Lookup6 = {"l1", "l2"}
    SubStage = {"s1", "s2"}
    RequestCopy = {"s2"}
    HelperRecords <- SomeRecords
    SummaryMaxRows = 1
    ListLimit = 3
    OutputCap = 6
    FailMax6 = 2
    QueryAttempts = 2
    MaxAttempts6 = 2
    MaxOutages = 1
    MaxTracker = 3
INVARIANTS WaitsForAll
SYMMETRY Symmetry
CHECK_DEADLOCK FALSE
