CONSTANTS
    Workers = {w1, w2}
    Loops = {loop}
    Reqs = {fast}
    SlowReqs = {}
    Owner <- OneOwner
    SLOW = SLOW
    EXIT = EXIT
    None = None
    MaxSubmits = 1
    CancelScope = {"submitted", "done"}
    MaxForks = 0
    ForkWhileLocked = FALSE
    ShutdownScope = {}
    ProcessReqs = {fast}
SPECIFICATION Spec
INVARIANTS DoneWhileRegistered
CHECK_DEADLOCK FALSE
