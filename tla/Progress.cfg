SPECIFICATION FairSpec
CONSTANTS
    Parts = {"graph", "cache", "calls", "fetch", "finding"}
    r1 = r1
    r2 = r2
    Run <- OneRun
    MaxReviews = 2
    LogKind = {"gaps", "disabled"}
    Confidence = {90}
    Setting <- Settings
    p1 = p1
    p2 = p2
    p3 = p3
    Packet <- Packets
    MaxVersion = 2
    Bad = {1}
    EarlyCatalog = FALSE
    NoPacket = NoPacket
    c1 = c1
    c2 = c2
    Call <- Calls
    Slots = 1
    FailMax = 2
    Attempts = 2
    MaxModelCalls = 1
    Pod <- Pods
    World <- FewWorlds
    Concurrency = 2
    PageSize = 2
    MaxDocs = 4
    MaxFetches = 1
    Line <- Lines
    MaxLines = 5
    Before = 1
    After = 2
    MinLevel = "INFO"
    ShortTrace = 3
    ErrorContext = 1
    ErrorTrailing = 1
    RepeatThreshold = 2
    RareThreshold = 2
    BoilerplateCount = 3
    MaxDecisions = 3
    MaxShown = 6
    Trace <- FewTraces
    Text <- FewTexts
    LaterText <- FewTexts
    Ceiling <- DltCeilings
    Decay = 95
    Threshold = 90
    DltMaxReviews = 2
    MaxOccurrences = 1
PROPERTIES EveryInvestigationEnds OutagesPass
CHECK_DEADLOCK FALSE
