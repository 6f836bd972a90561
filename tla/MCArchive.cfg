SPECIFICATION MCSpec
CONSTANTS
    SegmentSize = 2
    Series = 2
    MaxLsn = 6
    MaxTimeline = 3
    MaxMessage = 3
    MaxCrashes = 1
    Bulk = TRUE
    Circumstances = {}
    Last = 3
    None = None
    Full = 2
    BadMagic = {3}
    Prefetchers = {p1, p2}
    Concurrency = 2
    MaxStall = 2
    MaxFailures = 1
    Unusual = {}
    Objects <- MCObjects
    FinishLsn <- MCFinishLsn
    WalSegmentSize = 2
    Jobs = 2
    MaxUnsent = 2
    MaxCopyFaults = 1
INVARIANTS ArchivedBelowSlot 
PROPERTIES EventuallyArchived RecoveryAdvances 
CHECK_DEADLOCK FALSE
