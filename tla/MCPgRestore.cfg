SPECIFICATION Spec
CONSTANTS
    Relation = "rel"
    Config = "conf"
    PagedFiles = {"rel"}
    OtherFiles = {"conf"}
    MaxPages = 2
    Histories <- SmallHistories
    Masks <- AllFiles
    Modes = {"old", "new", "skip", "catchup", "catchupnew"}
    MaxConcurrency = 2
    Circumstances = {}
 
PROPERTY RestoreEnds
