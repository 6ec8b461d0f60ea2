SPECIFICATION SpecAll
CONSTANTS
    Parts = {"graph", "cache", "calls", "fetch", "reduce", "finding", "routing",
             "rules"}
    r1 = r1
    r2 = r2
    Run <- Runs
    MaxReviews = 2
    LogKind = {"gaps", "disabled"}
    Confidence = {90}
    Setting <- Settings
    p1 = p1
    p2 = p2
    p3 = p3
    Packet <- Packets
    MaxVersion = 2
    Bad = {1}
    EarlyCatalog = FALSE
    NoPacket = NoPacket
    c1 = r1
    c2 = r2
    Call <- Calls
    Slots = 1
    FailMax = 2
    Attempts = 2
    MaxModelCalls = 2
    Pod <- Pods
    World <- Worlds
    Concurrency = 2
    PageSize = 2
    MaxDocs = 4
    MaxFetches = 2
    Line <- Lines
    MaxLines = 5
    Before = 1
    After = 2
    MinLevel = "INFO"
    ShortTrace = 3
    ErrorContext = 1
    ErrorTrailing = 1
    RepeatThreshold = 2
    RareThreshold = 2
    BoilerplateCount = 3
    MaxDecisions = 3
    MaxShown = 6
    Trace <- Traces
    Text <- FirstTexts
    LaterText <- LaterTexts
    Ceiling <- DltCeilings
    Decay = 95
    Threshold = 90
    DltMaxReviews = 2
    MaxOccurrences = 2
    q1 = r1
    q2 = r2
    Request <- Requests
    Service = {"bio", "demo", "old"}
    Broken = {"old"}
    Enabled = {"bio"}
    PreRegistry = "bio"
    Listings <- SomeListings
    Cases3 <- SomeCases
    MaxDeliveries = 2
    MaxReloads = 1
    MaxRouteFaults = 1
    Packet7 = {"p1", "p2"}
    File7 = {"f1", "f2"}
    FileOrder <- InOrder
    Tables <- SomeTables
    Documents <- SomeDocuments
    Stores7 <- SomeStores
    Subjects <- SomeSubjects
    PromptCap = 60
    MinLogRoom = 12
    MarkerBase = 4
    OmittedSize = 6
    FrameSize = 20
    PieceSize = 7
    MaxEvents7 = 1
    MaxRetries7 = 1
INVARIANTS
    ReviewIsHonoured AnswerWithinLimits GraphIsSound CallsGuarded TraceIsHonest
    ReductionIsFaithful FindingIsSound RoutingIsSound ContextIsSound
PROPERTIES VerdictIsFinal
SYMMETRY Symmetry
CHECK_DEADLOCK FALSE
