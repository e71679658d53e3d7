SPECIFICATION JSpec
CONSTANTS
    Callers = {w1}
    Cpus = {c1}
    Pids = {0, 1}
    LastPage = 0
    Frames <- MCFrames
    Owner <- MCOwner
    PageSize = 2
    Slots = 1
    RandomDataPage <- MCRandomDataPage
    Touched = {}
    Requests <- MCRequests
    Byte = 2
    Racy = TRUE
    HostArgs <- OneArgs
    Sizes = {0, 3, 4}
    LowMapped = {0}
    Hashed <- OneHashed
INVARIANTS
    HashesMatch
    ExecutesWhatWasAsked
