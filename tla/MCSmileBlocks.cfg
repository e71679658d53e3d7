SPECIFICATION SmileSpec
CONSTANTS
    Parts = {"keys"}
\* Jxdev: one writer, the requests main.c makes, nothing races with a write
    Callers = {w1}
    Cpus = {c1, c2}
    Pids = {0}
    LastPage = 0
    Frames <- MCFrames
    Owner <- MCOwner
    PageSize = 2
    Slots = 1
    RandomDataPage <- MCRandomDataPage
    Touched = {}
    Requests <- MCRequests
    Byte = 2
    Racy = FALSE
    HostArgs <- HostOnlyArgs
    Sizes = {4}
    LowMapped = {0}
    Hashed <- OneHashed
\* EnclaveCounter: as many threads as a lost update and a reporter need
    Adders = {a1, a2, a3}
    Loops = 2
    CounterNobody = Nobody
\* EnclaveBuffer: the thread counts of App.cpp, a buffer that fills
    Producers = {p0}
    Consumers = {d1, d2, d3, d4}
    BUFFER_SIZE = 2
    Puts = 8
    Gets = 2
    BufferNobody = Nobody
\* Rsa
    SINGLE_MAX = 72
    EXPONENT_MAX = 14
    ACCURACY = 2
    CharBits = 4
    MsgLen = 4
    Messages <- TextMessages
    Beyond <- MCBeyond
\* SmileHost
    NSSA = 2
    MaxIntr = 6
    HostTouched <- FirstByte
\* The buffer create_secret passes to decodeMessage is as long as the comment
\* of encodeMessage says.
INVARIANT EncodedFits
\* create_secret ends.
CHECK_DEADLOCK FALSE
