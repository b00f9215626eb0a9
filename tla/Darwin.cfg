CONSTANTS
    Writes = {x, y}
    Sizes = {0, 2}
    MaxSize = 2
    WriteCount = 1
    ReadCount = 2
    EarlyShutdown = FALSE
    None = None
    Datagrams = {1, 2}
    RecvMax = 2
    Chunks = 1
    MaxFds = 4
    Grow = 1
    ReadBuf = 4
    MaxBytes = 2
    Ttys = {"a", "b"}
    Terminals = {"s", "t"}
    Raws = {"raw"}
    Watchers = {"a"}
    PollHandles = {"p"}
    Fds = {1}
    Full = 2
    Children = {"p", "q"}
    StdioCount = 4
    UseFds = {0, 1, 2, 4, 5, 6}
    Dirs = {"d"}
    Files = {"f"}
    MaxEvents = 2
    MaxStarts = 3
    Contexts = {1, 2}
    Versions = {0, 1, 2}
    Workers = {a, b, c}
    Rounds = 2
    MaxEntries = 2
    Types = {"access", "close", "copyfile", "mkdtemp", "read", "write", "scandir", "opendir", "readdir", "closedir", "readlink", "fstat", "stat"}
    FileSize = 3
    IovMax = 2
    Chunk = 2
    BufLen = 5
    Stride = 2
    Names = {"h"}
    MaxNest = 2
    MaxLen = 3
    Pointer = 4
SPECIFICATION DarwinSpec
INVARIANTS CountsAreExact Accounted AssertionsHold NothingStranded ToldTruly
PROPERTIES ImplementsStreamRequests EveryoneEnds
CHECK_DEADLOCK FALSE
