CONSTANTS
    Writes = {x, y}
    Sizes = {0, 2}
    MaxSize = 2
    WriteCount = 1
    ReadCount = 2
    EarlyShutdown = TRUE
    None = None
SPECIFICATION FairSpec
PROPERTIES ShutdownCompletes
CHECK_DEADLOCK FALSE
