SPECIFICATION StreamSpec
CONSTANTS
    Inputs <- MCInputs
    Sizes = {0, 1, 2, 4}
    MaxFiles = 2
    MaxTarSize = 3
    InputBuf = 2
    MaxCopyData = 3
    MaxRead = 2
INVARIANT FilesListed
CHECK_DEADLOCK FALSE
