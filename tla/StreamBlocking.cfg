CONSTANTS
    Writes = {x, y}
    Sizes = {0, 2}
    MaxSize = 2
    WriteCount = 1
    ReadCount = 2
    EarlyShutdown = FALSE
    None = None
SPECIFICATION Spec
INVARIANTS BlockingIsFlushed
CHECK_DEADLOCK FALSE
