SPECIFICATION Spec
CONSTANTS
    m1 = m1
    m2 = m2
    p1 = p1
    NoMember = NoMember
    Member <- OneMember
    Partition <- OnePartition
    LogLen = 1
    Poison <- NoMessages
    SkipRule <- NoMessages
    MaxConcurrent = 1
    MaxPollRecords = 2
    MaxFaults = 1
    MaxCommitFaults = 0
    MaxDlqFaults = 1
INVARIANT NeverNowhere
