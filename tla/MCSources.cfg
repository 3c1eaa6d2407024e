SPECIFICATION SourcesFairSpec
CONSTANTS
    Updaters = {u1, u2}
    Tasks = {"a", "b"}
    Window = 1
    LastTime = 2
    MaxRecords = 2
    mlx0 = mlx0
    mlx1 = mlx1
    Rounds = {r1, r2}
    Updates = 1
    PdRecords <- MCPds
    QpRecords <- MCQps
    MrRecords <- MCMrs
    Ports <- MCPorts
    Pids = {1, 2, 3, 4}
    Trees <- MCTrees
    Entries <- MCEntries
    ParentDepth = 1
    Walks = {w1, w2}
    Kinds <- MCKinds
    Processes = {p1}
    IpcSessions = 2
    Pieces <- MCPieces
    Chunk = 2
    Cpus = {c1, c2}
    Counted = {k1, k2}
    MaxEntries = 1
    MaxHits = 2
    MaxSwaps = 2
    Programs = {"sched", "cache", "pmu", "socket"}
    CallThreads = {t1, t2}
    CallObjects = {o1, o2}
    MaxArgs = 1
    MaxCalls = 3
    ProbeKinds = {"uds", "pipe", "socket", "sysv_msg"}
    Scale = 4
    AccessBytes = 2
    MaxCounter = 2
    MaxTime = 2
    MaxNumber = 5
    Aliases <- MCAliases
    SysfsName <- MCSysfsName
    Outputs <- MCOutputs
    None = None
    Word = Word
    Blank = Blank
    MaxCount = 1
INVARIANTS
    SourcesKept
    FunctionsCorrect
PROPERTIES
    StopEndsWaiting
CHECK_DEADLOCK FALSE
