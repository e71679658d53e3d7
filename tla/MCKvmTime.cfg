SPECIFICATION TimeSpec
CONSTANTS
    Parts = {"scale", "rate", "catchup", "tsc", "tsc_same", "tsc_unstable", "freq", "gtod", "clock", "set_clock", "wall", "steal"}
\* kvm_get_time_scale with words of ScaleW bits
    ScaleW = 6
    Fixed = 20
    MaxHz = 1500
    Deltas <- SomeDeltas
\* TSC rates around the tolerance
    FracBits = 3
    MaxRatio = 64
    Tolerance = 10
    UserKhz <- AskedKhz
    Offsets <- SomeOffsets
    L2Ratios <- SomeRatios
    HostTscs <- SomeTscs
    HasControl = TRUE
    TscKhz = 20
\* TSC writes within and outside the window of a second
    TscVcpus = {"c0", "c1"}
    Khz <- TwoRates
    Window = 1
    Data = {0, 4}
    Unstable = FALSE
    BootVcpu = "c0"
    OldMsrs = {FALSE}
    TscMaxTime = 1
    TscMaxWrites = 1
    MaxSuspends = 2
\* two CPUs that change their frequency and go offline
    FreqCpus = {"p0", "p1"}
    FreqVcpus = {"c0", "c1"}
    Freqs = {1, 2}
    MaxMoves = 3
\* timekeeper updates racing with readers
    GtodCpus = {c1}
    MaxTsc = 2
    GtodMaxUpdates = 2
    GtodW = 64
\* kvmclock pages
    ClockVcpus = {"c0", "c1"}
    ClockBudgets <- SomeBudgets
\* KVM_SET_CLOCK
    SetClockVcpus = {v1, v2}
    SetClockMaxTime = 2
    Clocks = {0, 2}
\* the wall clock page
    Walls = {1, 6}
    NsPerSec = 2
    SecMod = 2
    WallVersionMod = 8
    WallMaxWrites = 2
\* steal time
    Areas = {"a", "b"}
    MaxFlushes = 2
    StealMaxWrites = 2
    StealVersionMod = 4
INVARIANTS
    ClocksAgree
    RatesExact
    RecordsWhole
PROPERTIES
    TimeProceeds
\* The bounded behaviours end.
CHECK_DEADLOCK FALSE
