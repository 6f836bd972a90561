CONSTANTS
    MaxBackups = 3
    MaxDeltas = 2
    MaxRetain = 2
    Selectors = {"LATEST"}
    AdminCommands = {"before", "retain", "target", "everything", "mark", "unmark"}
    Overlapping = {}
    Crashable = {}
    FetchMayFail = FALSE
SPECIFICATION Spec
INVARIANT Restorable
CHECK_DEADLOCK FALSE
