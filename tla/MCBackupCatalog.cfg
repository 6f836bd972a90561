CONSTANTS
    MaxBackups = 4
    MaxDeltas = 2
    MaxRetain = 2
    Selectors = {"LATEST"}
    AdminCommands = {"before", "retain", "mark", "unmark"}
    Overlapping = {"retain", "mark"}
    Crashable = {"retain", "mark"}
    FetchMayFail = FALSE
SPECIFICATION Spec
INVARIANTS TypeOK PermanentClosed Restorable DeltaChainsSound RetainKeepsEnough
PROPERTY RetentionSparesPermanent
CHECK_DEADLOCK FALSE
