SPECIFICATION Spec
CONSTANTS
    MaxWal = 3
    MaxParallelWorkers = 1
    MaxNumUploaded = 1
    PreventWalOverwrite = TRUE
    ReadyRename = TRUE
    Callers = {"main"}
    MaxErrors = 2
INVARIANTS
    DoneIsArchived
    OneUploader
    StopDrains
PROPERTIES
    NoOverwrite
    EventuallyDone
