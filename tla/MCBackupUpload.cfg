SPECIFICATION Spec
CONSTANTS
    a = a
    b = b
    c = c
    d = d
    h = h
    Files = {a, b, c, d}
    Headers = {h}
    Unchanged = {a}
    Rating <- MCRating
    ParallelTarballs = 2
    MaxUploadQueue = 1
    MaxTarballs = 8
    TarSizeThreshold = 0
    Replica = TRUE
    MaxErrors <- MCMaxErrors
INVARIANTS
    BackupComplete
    PgControlLast
    TarballsConserved
PROPERTY
    Termination
