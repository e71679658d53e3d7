SPECIFICATION LoadSpec
CONSTANTS
    Parts = {"file_cmd", "fileio", "rand", "memory", "locks", "bulk", "create", "oltp", "mysql", "pgsql", "context", "spawn", "fstime", "dhrystone"}
\* file commands
    Options <- SomeCmdLines
    MaxFiles = 2
    MaxCommands = 3
\* the file test
    Settings <- SomeSettings
\* random numbers
    RandThread = {t1, t2}
    Word = 16
    Prime = 11
    SeedAdd <- SomeSeedAdd
    Mask = 5
    Grain = 8
    Ranges <- SomeRanges
    Types <- SomeTypes
    Seeds <- SomeSeeds
    MaxUnique = 16
    RandNone = "none"
\* the memory test
    MemoryThread = {t1, t2}
    SizeT = 2
    CounterSize = 8
    LargePage = 8
    HugePage = 4
    MemoryMaxEvents = 1
    BlockSizes = {1, 2, 4, 6}
    TotalSizes = {0, 4, 13}
    MemoryNone = None
\* the mutex and threads tests
    LocksThread = {t1, t2}
    NumLocks = 2
    AskedCounts = {0, 2}
    UintSize = 8
    LocksMaxEvents = 4
    LocksNone = None
\* bulk inserts
    BulkThreads = 2
    Tables = 3
    TableSize = 3
    RowLens = {2, 3, 6}
    QueryLen = 2
    BufLen = 8
    CommitMax = 2
\* connections
    CreateThreads = {t1, t2, t3}
    Hosts = 2
    Ports = 2
    Sockets = 0
    Debug = TRUE
    OptionsOK = TRUE
    InitMayFail = TRUE
\* a thread of the OLTP load
    Event <- SmallEvent
    Writes <- SmallWrites
    OltpIgnored <- IgnoredToo
    Failures <- SomeFailures
    ReconnectEvery = 2
    OltpMaxEvents = 3
    MaxErrors = 3
\* the database drivers
    Stmts = {p1}
    NoStmt = none
    MaxCalls = 5
    UsePs = TRUE
    Ignored = {"lost", "deadlock"}
    MaxResults = 2
\* UnixBench
    Duration = 1
    ContextMaxIter = 20
    SpawnMaxIter = 4
    BufSize = 4
    CountSize = 2
    WordMod = 256
    MaxBuffs = 2
    Scores = {1, 3}
    MaxOps = 5
    MaxInt = 101
    MaxRuns = 95
INVARIANTS
    FilesExact
    WorkExact
    DatabaseExact
PROPERTIES
    WorkEnds
\* The bounded behaviours end.
CHECK_DEADLOCK FALSE
