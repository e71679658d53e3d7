SPECIFICATION JSpec
CONSTANTS
    Callers = {w1, w2}
    Cpus = {c1, c2}
    Pids = {0}
    LastPage = 1
    Frames <- MCFrames
    Owner <- MCOwner
    PageSize = 2
    Slots = 1
    RandomDataPage <- MCRandomDataPage
    Touched = {}
    Requests <- MCRequests
    Byte = 2
    Racy = FALSE
    HostArgs <- TwoArgs
    Sizes = {4}
    LowMapped = {0}
    Hashed <- TwoHashed
INVARIANTS
    NoOverrunThroughDevice
    OnlyFirstPage
SYMMETRY WriterSymmetry
