CONSTANTS
    Handles = {wqAsync, user}
    Internal = wqAsync
    Senders = {s1, s2}
    None = None
    BufSize = 1
    PipeSize = 2
    MaxForks = 1
SPECIFICATION FairSpec
INVARIANTS TypeOK QuietAfterSpin
PROPERTIES SpinReturns ImplementsAsyncEvents
CHECK_DEADLOCK FALSE
