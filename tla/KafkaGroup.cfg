SPECIFICATION Spec
CONSTANTS
    m1 = m1
    m2 = m2
    p1 = p1
    NoMember = NoMember
    Member <- TwoMembers
    Partition <- OnePartition
    LogLen = 2
    Poison <- LastMessage
    SkipRule <- NoMessages
    MaxConcurrent = 2
    MaxPollRecords = 2
    MaxFaults = 1
    MaxCommitFaults = 1
    MaxDlqFaults = 1
SYMMETRY Symmetry
INVARIANTS TypeOK NoForeignTracking NothingLeaks
PROPERTY ImplementsAtLeastOnce
