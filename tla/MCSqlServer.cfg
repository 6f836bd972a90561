SPECIFICATION MCSpec
CONSTANTS
    block1 = block1
    block2 = block2
    block3 = block3
    Clients = {c1, c2}
    BlockIDs = {block1, block2}
    MaxPuts = 2
    SizeOf <- MCSizeOf
    FirstContents <- MCFirstContents
    MaxCommits = 2
    MaxFaults = 1
    Circumstances = {}
    DBs = {d1, d2}
    Procs = {p1, p2}
    MaxClock = 3
    MaxLSN = 2
    MaxFailures = 1
    West = {0}
    Unusual = {}
INVARIANTS GetExact OneHolder 
 
CHECK_DEADLOCK FALSE
SYMMETRY Symmetric
