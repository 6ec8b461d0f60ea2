SPECIFICATION FairSpec
CONSTANTS
    m1 = m1
    m2 = m2
    p1 = p1
    NoMember = NoMember
    Member <- OneMember
    Partition <- OnePartition
    LogLen = 2
    Poison <- NoMessages
    SkipRule <- LastMessage
    MaxConcurrent = 2
    MaxPollRecords = 2
    MaxFaults = 2
    MaxCommitFaults = 0
    MaxDlqFaults = 0
INVARIANT CommittedAccounted
PROPERTIES EveryMessageAccounted CompletedReachesBroker
