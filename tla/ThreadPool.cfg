CONSTANTS
    Workers = {w1, w2}
    Loops = {loop}
    Reqs = {fast, slow1, slow2}
    SlowReqs = {slow1, slow2}
    Owner <- OneOwner
    SLOW = SLOW
    EXIT = EXIT
    None = None
    MaxSubmits = 1
    CancelScope = {"submitted"}
    MaxForks = 1
    ForkWhileLocked = FALSE
    ShutdownScope = {"parent", "forked"}
    ProcessReqs = {slow1, slow2}
SPECIFICATION FairSpec
INVARIANTS TypeOK Placement CancelHonest SlowLimit WorkConserving SlowAnnounced
PROPERTIES EveryRequestCompletes ShutdownCompletes ImplementsWorkRequest
CHECK_DEADLOCK FALSE
