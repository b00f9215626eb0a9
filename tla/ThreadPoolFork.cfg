CONSTANTS
    Workers = {w1, w2}
    Loops = {loop}
    Reqs = {slow1, slow2}
    SlowReqs = {slow1, slow2}
    Owner <- OneOwner
    SLOW = SLOW
    EXIT = EXIT
    None = None
    MaxSubmits = 1
    CancelScope = {"submitted"}
    MaxForks = 1
    ForkWhileLocked = FALSE
    ShutdownScope = {}
    ProcessReqs = {slow1, slow2}
SPECIFICATION FairSpec
PROPERTIES CompletesAfterFork
CHECK_DEADLOCK FALSE
