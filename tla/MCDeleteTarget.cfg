CONSTANTS
    MaxBackups = 3
    MaxDeltas = 2
    MaxRetain = 1
    Selectors = {"LATEST"}
    AdminCommands = {"target"}
    Overlapping = {}
    Crashable = {}
    FetchMayFail = FALSE
SPECIFICATION Spec
PROPERTY PermanentNeverDeleted
CHECK_DEADLOCK FALSE
