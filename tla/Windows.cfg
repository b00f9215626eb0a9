CONSTANTS
    Timers = {t1, t2}
    MaxTime = 3
    IntMax = 2
    Timeouts = {0, 1, 3}
    Repeats = {0, 2}
    Watchers = {"v", "w"}
    Batch = 2
    Rounds = 1
    MaxOps = 1
    Watches = {"h"}
    Signums = {1, 2}
    MaxEvents = 3
    Instances = 2
    MaxClients = 3
    Reads = 2
    FastAsks = {{"READABLE"}, {"WRITABLE"}, {"READABLE", "DISCONNECT"}}
    SlowAsks = {{"READABLE"}, {"WRITABLE"}, {"READABLE", "WRITABLE"}}
    Count = 1
    MaxSends = 2
    MaxArrivals = 2
    Signals = {0, 2, 9}
    Fatal = {9}
    MaxArg = 4
    Required = {2, 3}
    Capacity = 2
    MaxChanges = 3
    MaxData = 2
    MaxMessages = 2
    Buffers = {1, 2}
    MaxTyped = 2
    MaxTurns = 2
    MaxSymbols = 4
    MaxNodes = 7
SPECIFICATION WindowsSpec
INVARIANTS Accounted AssertionsHold NothingStranded ToldTruly TimersAreKept
PROPERTIES FiresWhatIsDue EveryoneEnds
CHECK_DEADLOCK FALSE
