SPECIFICATION FairSpec
CONSTANTS
    p = p
    Callers = {t1, t2}
    Cpus = {c1, c2}
    Pids <- MCPids
    LastPage = 1
    Frames <- TwoFrames
    Owner <- TwoOwner
    PageSize = 2
    Slots = 2
    RandomDataPage <- MCRandomDataPage
    Touched = {}
    Requests <- TwoRequests
INVARIANTS
    FramesIntact
PROPERTY
    CallsReturn
