SPECIFICATION ExecutionSpec
CONSTANTS
    Parts = {"run", "user_return", "fpu", "wbinvd", "hypercall", "mmio", "pio", "cregs", "pcid", "memslots"}
\* requests
    Made <- SomeMade
    Resources <- AllResources
    HyperV = {TRUE, FALSE}
    Bounds <- SomeBounds
\* user-return MSRs
    Msrs = {"star", "lstar", "tsx"}
    Exists = {"star", "lstar"}
    Bits = {0, 1}
    MaxNr = 2
\* FPU
    UserVals = {1, 2}
    GuestVals = {3, 4}
    UserPkru = {1, 2}
    GuestPkru = {0, 2}
    HostXcr0 <- SomeXcr0
    supported_xcr0 <- SomeXcr0
    Xcrs <- AskedXcr0
    Cr4s <- SomeCr4s
\* WBINVD
    Cpus = {c1, c2, c3}
    Exits = {TRUE, FALSE}
\* hypercalls
    CallVcpus = {0, 1, 2}
    Features = {"PV_UNHALT"}
    ExitEnabled = TRUE
    Gvas = {"g1", "g2"}
    Gpas = {"p1", "p2"}
    Unmapped = "none"
    Translate <- MappedOne
    MaxCalls = 1
\* MMIO: pages of two pieces
    PageSize = 2
    Piece = 1
    Pages = 2
    MaxBytes = 2
    Kernels <- SomeKernels
    MmioMaxInsns = 2
\* port I/O
    PioMaxInsns = 2
    MaxItems = 5
    PageItems = 2
\* control registers
    Tables = {"t1", "t2"}
    CregsZero = "t1"
    Cpuids <- SomeCpuids
    Cr0Bits = {"PE", "PG", "WP", "CD"}
    Cr4Bits = {"PAE", "PCIDE", "SMEP"}
    EferBits = {"LME", "LMA", "NX"}
    Files <- SomeFiles
\* PCIDs
    Pgds = {1, 2}
    Pcids = {0, 1}
    NPrev = 2
    MaxVersion = 2
\* memory slots
    Ids = {"s1", "s2"}
    SlotsVcpus = {"v1"}
    Bases = {1, 2}
    Sizes = {1, 4}
    Hvas = {0, 1}
    HasPml = TRUE
INVARIANTS
    AccessesExact
    WorldSwitchExact
PROPERTIES
    VcpuProceeds
\* The bounded behaviours end.
CHECK_DEADLOCK FALSE
