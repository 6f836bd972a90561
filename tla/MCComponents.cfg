SPECIFICATION MCSpec
CONSTANTS
    BinlogPushers = {p1}
    FirstBinlog = 1
    MaxBinlogs = 3
    MaxClock = 6
    MaxBackups = 2
    MaxFaults = 1
    MaxReplays = 1
    Unlucky = {}
    MaxSegment = 4
    MaxTimelines = 3
    MaxStoredBackups = 1
    MaxUploadConcurrency = 1
    MaxDelayedSegments = 1
    Unusual = {}
    HeaderSize = 2
    PageSize = 3
    PagesInFile = 2
    Patterns <- MCPatterns
    Lengths = {0, 2, 3, 5, 7}
    MaxPattern = 2
    Files = 6
    WalFileInDelta = 2
    BlocksInRelFile = 4
    MaxBackground = 2
    MaxDeaths = 1
    Mishaps = {}
    Inputs <- MCInputs
    Sizes = {0, 1, 2, 4}
    MaxFiles = 2
    MaxTarSize = 3
    InputBuf = 2
    MaxCopyData = 3
    MaxRead = 2
    ChunkSize = 3
    Abytes = 1
    MaxLength = 7
    MaxPiece = 4
    Damage = {}
    Pushers = {1}
    MaxTime = 3
    MaxPushFaults = 1
    Races = {}
    Contents = {m, s1, s2}
    Hosts = {h1, h2}
    Attempts = 2
    MaxGpFaults = 2
INVARIANTS  VerifyExact  TarsExact DecryptsExact  GpConsistent
CHECK_DEADLOCK FALSE
