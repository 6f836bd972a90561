SPECIFICATION Spec
CONSTANTS
    Relation = "rel"
    Config = "conf"
    PagedFiles = {"rel"}
    OtherFiles = {"conf"}
    MaxPages = 3
    Histories <- GrowingHistories
    Masks <- AllFiles
    Modes = {"skip"}
    MaxConcurrency = 2
    Circumstances = {"newpages"}
INVARIANT ExcludedAreComplete
