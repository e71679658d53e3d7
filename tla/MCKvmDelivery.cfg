SPECIFICATION DeliverySpec
CONSTANTS
    Parts = {"tpr", "window", "events", "async_pf", "mce", "smm", "debug", "memory", "locked", "segments", "emulate"}
\* priority classes
    MaxClass = 3
\* interrupts of a user-space PIC
    MaxIrq = 3
    MaxMask = 2
\* events
    Vectors = {"PF", "GP", "DB", "BP"}
    Payloads = {1, 2}
    BlockIrq = FALSE
    MaxRaised = 3
\* asynchronous page faults
    Gfns = {1, 2, 3}
    Size = 4
    MaxFaults = 3
    MaxToggles = 1
\* machine checks
    KVM_MAX_MCE_BANKS = 2
    MaxErrors = 3
\* SMM
    Contexts = {1, 2}
    Bases = {0, 1, 2}
    Backed = {0, 1}
\* debugging
    Addr = {0, 1}
    DbRegs = {1}
    Dr7s <- SomeDr7s
\* emulated accesses
    Vcpus = {v1}
    VPages = {1, 2}
    Frames = {1, 2, 3}
    Ram0 = {1}
    Apic = 3
    Ptes <- SomePtes
    MaxPte = 1
    MaxInc = 0
    MaxStd = 1
\* segments
    PageBytes = 4
    Half = 2
    Limits = {3}
    Selectors = {1}
\* emulation
    Eips = {1}
    ExitOnError = FALSE
    Mod = 2
    MaxReprotect = 1
INVARIANTS
    DeliveryExact
    ContextKept
PROPERTIES
    DeliveryCompletes
\* The bounded behaviours end.
CHECK_DEADLOCK FALSE
