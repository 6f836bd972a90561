SPECIFICATION MCSpec
CONSTANTS
    Nodes = {n1, n2}
    MaxTS = 3
    ArchiveAfterSize = 2
    MaxFaults = 2
    SlowElections = TRUE
    MaxBackups = 2
    Contents <- MCContents
INVARIANTS ArchivesContiguous  
PROPERTIES PurgeKeepsPitr NothingLost ReplayEnds
CHECK_DEADLOCK FALSE
