SPECIFICATION Spec
CONSTANTS
    p = p
    Callers = {t1}
    Cpus = {c1, c2}
    Pids <- MCPids
    LastPage = 2
    Frames <- OneFrames
    Owner <- OneOwner
    PageSize = 2
    Slots = 2
    RandomDataPage <- MCRandomDataPage
    Touched = {0, 1}
    Requests <- OneRequests
INVARIANTS
    PageTableExact
    HiddenLocally
    HidesWholeRange
    OverrunOnlyIfTooBig
