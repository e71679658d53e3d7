SPECIFICATION MachineSpec
CONSTANTS
    Parts = {"msr_state", "msr_write", "msr_filter", "msr_lists", "module", "vm_life", "vcpu_create", "vm_setup", "caps", "vcpu_ioctl", "assign"}
\* groups of MSRs
    Groups <- SomeGroups
\* MSRs with a rule of their own
    Bits = 5
    MaxMigrations = 1
\* MSR filters
    FilterVcpus = {"v1"}
    MaxFilters = 2
    Registers = {0, 1, 2, 3}
    FilterX2Apic = 0
    Unknown = 2
    Deadline = 3
    Filters <- SomeFilters
    ignore_msrs_filter = FALSE
    UserMask <- SomeMask
    FilterNone = 99
\* MSR lists
    ListHosts <- SomeListHosts
    Params <- SomeParams
    MaxGeneric = 2
    ignore_msrs_list = FALSE
    ListMaxLoads = 3
\* the module
    Vendors = {"vmx", "svm"}
    Supported = {"vmx"}
    ModuleMaxLoads = 5
\* the life of a machine
    VmVcpus = {"v1", "v2"}
    First = "v1"
    Regions = {"tss", "identity"}
    MaxMaps = 3
\* creation of virtual CPUs
    VcpuVcpus = {"v1", "v2"}
    Irqchip = {"v2"}
    MaxTries = 4
\* configuration of a machine
    SetupThreads = {"t1", "t2"}
    SetupVcpus = {1, 2}
    Pins = {1}
    MaxPit = 2
\* capabilities
    CapHosts <- SomeCapHosts
    CapMaxCalls = 2
\* ioctls of a virtual CPU
    IoctlThreads = {"t1", "t2"}
    IoctlMaxCalls = 1
    MaxSize = 1
    IoctlNone = "none"
\* assigned devices
    Producers = {1, 2, 3}
    Vcpus = {1, 2}
    Target <- TwoTargets
    MaxIrq = 3
INVARIANTS
    CountIsExact
    MsrsConsistent
    MachineConsistent
PROPERTIES
    MachineProceeds
\* The bounded behaviours end.
CHECK_DEADLOCK FALSE
