SPECIFICATION SysbenchSpec
CONSTANTS
    Parts = {"barrier", "events", "collect", "timer", "run", "options", "lua", "logger"}
\* the barrier
    Threads = {t1, t2, t3, t4}
    Rounds = 2
\* events
    QueueWorkers = {"w1", "w2"}
    MAX_QUEUE_LEN = 3
    max_events = 2
    TimeLimit = TRUE
    NULL = NULL
\* statistics
    collectThreads = 2
    CollectSlots = 1
    array_size = 2
    percentile = 50
    CollectMaxEvents = 1
    CollectMaxReports = 2
\* timers
    TimerWorkers = {"w1", "w2"}
    QueueTimes = {0, 2}
    Word = 64
    TimerMaxEvents = 1
    TimerMaxCheckpoints = 1
    TimerAlarm = TRUE
\* a run
    order <- TwoWorkers
    Background = {"report", "gen", "checkpoints"}
    n_checkpoints = 1
    Warmup = TRUE
    force_shutdown = {TRUE, FALSE}
\* options
    LayerArgs <- SomeLayerArgs
    GeneralArgs <- SomeGeneralArgs
    Canon <- SomeCanon
    Split <- SomeSplit
    Strtol <- SomeStrtol
    IntMax = 6
    Files <- SomeFiles
    OptionMaxCheckpoints = 2
    Valid <- SomeValid
    Commands = {"run"}
    CommandLines <- SomeCommandLines
    TestArgs <- SomeTestArgs
\* Lua
    LuaWorker = {w1, w2}
    LuaMaxCalls = 2
    LuaMaxReports = 1
\* the logger
    LogThread = {t1, t2}
    Text = {"m1", "m2"}
    LogMaxCalls = 2
    LogAlarm = TRUE
    None = "none"
INVARIANTS
    FailureReachesAll
    NothingLost
    RunOrdered
PROPERTIES
    IsBarrier
    RunEnds
\* The bounded behaviours end.
CHECK_DEADLOCK FALSE
