CONSTANTS
    Handles = {h1, h2}
    Loops = {l1, l2}
    Homes = {{l1}, {l1, l2}}
    Signums = {2}
    None = None
    PipeSize = 4
    BatchSize = 2
    Raised = {2}
    MaxSignals = 2
    MaxForks = 0
SPECIFICATION Spec
INVARIANT WatchedIsHandled
CHECK_DEADLOCK FALSE
