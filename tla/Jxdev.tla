-------------------------------- MODULE Jxdev --------------------------------
(***************************************************************************)
(* The character device va_tr23/va_tr/jxdev.c on top of the trampoline it  *)
(* calls.  A write copies the caller's buffer into the one global page pp  *)
(* and dispatches on byte 700: 0xcc runs trampoline() with arguments taken *)
(* from bytes 0, 2 and 3; 0xaa and 0xbb copy the buffer AGAIN, into pp0 or *)
(* pp1, and store the CRC of its head; 0xdd makes CPU 1 issue the          *)
(* hypercall on pp1.  Writers run concurrently and nothing is locked.      *)
(*                                                                         *)
(* A buffer is its head (the bytes the code reads: 0, 2 and 3, which also  *)
(* stand for the bytes under the CRC) and its command byte 700.  The size  *)
(* of a write is how many of these four bytes it covers: 4 for the whole   *)
(* pages of the host program, 3 for a write that ends before byte 700, 0   *)
(* for one of no bytes or of more than a page, which the bounds check of   *)
(* copy_from_user refuses to copy.                                         *)
(***************************************************************************)
EXTENDS Trampoline, Sequences

CONSTANTS Byte,     \* number of values of a uint8_t: 256
          HostArgs, \* what the host program wants hidden: data_page, psize, pi
          Racy,     \* whether another thread may change a buffer being written
          Hashed,   \* heads of the SSA and anchor pages it has hashed
          Sizes,    \* how many of the bytes 0, 2, 3 and 700 a write may cover
          LowMapped \* processes whose upper tables reach the first page

ArgBytes    == [b0 : 0..(Byte - 1), b2 : 0..(Byte - 1), b3 : 0..(Byte - 1)]
NoBytes == [b0 |-> 0, b2 |-> 0, b3 |-> 0]

\* main.c: pp[0] = data_page; pp[2] = psize; pp[3] = pi, stored in uint8_t.
TrampolineBuffer(a) ==
    [head |-> [b0 |-> a.data_page % Byte, b2 |-> a.psize % Byte, b3 |-> a.pi % Byte],
     cmd  |-> "cc"]

Buffers ==
    {TrampolineBuffer(a) : a \in HostArgs}
        \union [head : Hashed, cmd : {"aa", "bb"}]
        \union {[head |-> NoBytes, cmd |-> "dd"]}

\* What the three bytes of pp, loaded one by one, can amount to.
Heads ==
    LET H == {b.head : b \in Buffers} \union {NoBytes}
    IN  [b0 : {h.b0 : h \in H}, b2 : {h.b2 : h \in H}, b3 : {h.b3 : h \in H}]

\* The walk ends at an entry of the process's tables, or there is no page to
\* look up.  non_v2p tests no level: for a pid nobody has, a process without
\* an address space, or one that maps nothing near address 0, it goes astray.
Resolves(h) == h.b3 \in LowMapped \/ h.b2 = 0

ASSUME ByteAssumption ==
    /\ Byte \in Nat \ {0}
    /\ Byte <= PageSize

ASSUME HostAssumption ==
    /\ \A a \in HostArgs : a.data_page \in Nat /\ a.psize \in Nat /\ a.pi \in Nat
    /\ Hashed \subseteq ArgBytes
    /\ Racy \in BOOLEAN
    /\ Sizes \subseteq 0..4
    /\ LowMapped \subseteq Pids

\* Two ways to misread the bytes: pp[2] counts pages and a guard page is
\* added; pp[0] is a page number.
AnyPid == CHOOSE p \in Pids : TRUE
DeviceRequestInPages(h) ==
    [pid  |-> IF h.b3 \in Pids THEN h.b3 ELSE AnyPid,
     base |-> [page |-> h.b0 \div PageSize, off |-> h.b0 % PageSize],
     size |-> (h.b2 + 1) * PageSize]
DeviceRequestByPage(h) ==
    [pid  |-> IF h.b3 \in Pids THEN h.b3 ELSE AnyPid,
     base |-> [page |-> h.b0, off |-> 0],
     size |-> h.b2]

\* jxdev_write: pi = pp[3]; data_page = pp[0]; app_size = pp[2].  (With size
\* 0 trampoline walks no table, and any process stands for an unknown pid.)
DeviceRequest(h) ==
    [pid  |-> IF h.b3 \in Pids THEN h.b3 ELSE AnyPid,
     base |-> [page |-> h.b0 \div PageSize, off |-> h.b0 % PageSize],
     size |-> h.b2]

\* Requests are the calls the device can make.
ASSUME DeviceAssumption ==
    /\ Pids # {}
    /\ Requests = {DeviceRequest(h) : h \in {g \in Heads : Resolves(g)}}

VARIABLES
    ubuf,    \* the user buffer each writer passes
    size,    \* and its size
    pp,      \* uint8_t pp[4096]
    page,    \* page["aa"] is the head of pp0, page["bb"] that of pp1
    crc,     \* crc["aa"] is crc_ssa, crc["bb"] is crc_anchor
    wpc,     \* where each writer is in jxdev_write
    cmd,     \* the command it loaded from pp[700]
    args,    \* data_page and app_size as loaded from pp[0] and pp[2]
    sum,     \* the value crc32() returned to it
    atomic,  \* it returned from get_cpu() without put_cpu()
    lost,    \* its first copy has failed
    standing,\* history: the command the last write that brought one asked for
    done,    \* history: the commands the current write has executed, in order
    woverlap \* history: two writes have been active at once

dvars == <<ubuf, size, pp, page, crc, wpc, cmd, args, sum, atomic, lost, standing, done, woverlap>>
jvars == <<vars, dvars>>

Kinds     == {"aa", "bb"}
Commands  == {"cc", "aa", "bb", "dd", "zero"}
NoCrc     == <<"none">>
Crc(head) == <<"crc", head>>
Zero      == [head |-> NoBytes, cmd |-> "zero"]

JInit ==
    /\ Init
    /\ ubuf = [w \in Callers |-> Zero]
    /\ size = [w \in Callers |-> 0]
    /\ pp = Zero
    /\ page = [k \in Kinds |-> NoBytes]
    /\ crc = [k \in Kinds |-> NoCrc]
    /\ wpc = [w \in Callers |-> "idle"]
    /\ cmd = [w \in Callers |-> "zero"]
    /\ args = [w \in Callers |-> NoBytes]
    /\ sum = [w \in Callers |-> NoCrc]
    /\ atomic = [w \in Callers |-> FALSE]
    /\ lost = [w \in Callers |-> FALSE]
    /\ standing = "zero"
    /\ done = [w \in Callers |-> <<>>]
    /\ woverlap = FALSE

At(w, from)       == wpc[w] = from
To(w, to)         == wpc' = [wpc EXCEPT ![w] = to]
Executes(w)       == done' = [done EXCEPT ![w] = Append(@, cmd[w])]
Writing(w)        == wpc[w] \notin {"idle", "oops"}

-----------------------------------------------------------------------------
\* write(fd, b, n)
WriteCall(w, b, n) ==
    /\ At(w, "idle") /\ To(w, "copy_head")
    /\ ubuf' = [ubuf EXCEPT ![w] = b]
    /\ size' = [size EXCEPT ![w] = n]
    /\ woverlap' = (woverlap \/ \E u \in Callers : Writing(u))
    /\ UNCHANGED <<vars, pp, page, crc, cmd, args, sum, atomic, lost, standing, done>>

\* Another thread of the program changes the buffer the kernel still has to
\* read.
UserStore(w, b) ==
    /\ Racy /\ wpc[w] \in {"copy_head", "copy_cmd", "dispatch", "copy"}
    /\ ubuf' = [ubuf EXCEPT ![w] = b]
    /\ UNCHANGED <<vars, size, pp, page, crc, wpc, cmd, args, sum, atomic, lost, standing, done, woverlap>>

\* The first n of the modelled bytes are new.
CopiedHead(new, old, n) ==
    [b0 |-> IF n >= 1 THEN new.b0 ELSE old.b0,
     b2 |-> IF n >= 2 THEN new.b2 ELSE old.b2,
     b3 |-> IF n >= 3 THEN new.b3 ELSE old.b3]

\* copy_from_user(pp, buf, size), low bytes first (the head is one eight-byte
\* move).  Its result is ignored; a user page that must be faulted in cannot
\* be while preemption is disabled, and then the rest of the size bytes is
\* zeroed.
CopyHead(w) ==
    /\ At(w, "copy_head") /\ To(w, "copy_cmd")
    /\ \/ /\ pp' = [head |-> CopiedHead(ubuf[w].head, pp.head, size[w]), cmd |-> pp.cmd]
          /\ lost' = lost
       \/ /\ atomic[w]
          /\ pp' = [head |-> CopiedHead(NoBytes, pp.head, size[w]), cmd |-> pp.cmd]
          /\ lost' = [lost EXCEPT ![w] = TRUE]
    /\ UNCHANGED <<vars, ubuf, size, page, crc, cmd, args, sum, atomic, standing, done, woverlap>>

\* Byte 700 keeps the command of an earlier write unless the size covers it.
CopyCmd(w) ==
    /\ At(w, "copy_cmd") /\ To(w, "dispatch")
    /\ \/ /\ size[w] < 4
          /\ UNCHANGED <<pp, standing, lost>>
       \/ /\ size[w] = 4 /\ ~lost[w]
          /\ pp' = [head |-> pp.head, cmd |-> ubuf[w].cmd]
          /\ standing' = ubuf[w].cmd
          /\ lost' = lost
       \/ /\ size[w] = 4 /\ atomic[w]
          /\ pp' = [head |-> pp.head, cmd |-> "zero"]
          /\ standing' = "zero"
          /\ lost' = [lost EXCEPT ![w] = TRUE]
    /\ UNCHANGED <<vars, ubuf, size, page, crc, cmd, args, sum, atomic, done, woverlap>>

\* The if-chain on pp[700].  Between calls the compiled code tests one load of
\* it; after crc32() it is loaded again, and only the later tests remain.
Branch(c, left) ==
    CASE c \notin left \/ c = "zero" -> "ret"
      [] c \in left /\ c = "cc"      -> "load_base"
      [] c \in left /\ c \in Kinds   -> "copy"
      [] c \in left /\ c = "dd"      -> "smp"

Dispatch(w) ==
    /\ At(w, "dispatch") /\ To(w, Branch(pp.cmd, Commands))
    /\ cmd' = [cmd EXCEPT ![w] = pp.cmd]
    /\ UNCHANGED <<vars, ubuf, size, pp, page, crc, args, sum, atomic, lost, standing, done, woverlap>>

\* 0xcc: data_page = pp[0]; app_size = pp[2]; pi = pp[3], and the call of
\* trampoline(pi, data_page, app_size).
LoadBase(w) ==
    /\ At(w, "load_base") /\ To(w, "load_size")
    /\ args' = [args EXCEPT ![w] = [b0 |-> pp.head.b0, b2 |-> 0, b3 |-> 0]]
    /\ UNCHANGED <<vars, ubuf, size, pp, page, crc, cmd, sum, atomic, lost, standing, done, woverlap>>

LoadSize(w) ==
    /\ At(w, "load_size") /\ To(w, "load_pid")
    /\ args' = [args EXCEPT ![w] = [b0 |-> args[w].b0, b2 |-> pp.head.b2, b3 |-> 0]]
    /\ UNCHANGED <<vars, ubuf, size, pp, page, crc, cmd, sum, atomic, lost, standing, done, woverlap>>

Loaded(w) == [b0 |-> args[w].b0, b2 |-> args[w].b2, b3 |-> pp.head.b3]

CallTrampoline(w, c) ==
    /\ At(w, "load_pid") /\ Resolves(Loaded(w))
    /\ To(w, "in_tramp")
    /\ args' = [args EXCEPT ![w] = NoBytes]
    /\ Executes(w)
    /\ Enter(w, c, DeviceRequest(Loaded(w)))
    /\ UNCHANGED <<ubuf, size, pp, page, crc, cmd, sum, atomic, lost, standing, woverlap>>

\* The walk has gone astray: an uninitialised pgd, or words that are no page
\* tables.  What it then overwrites is not in this model; the writer stops.
WildWalk(w) ==
    /\ At(w, "load_pid") /\ ~Resolves(Loaded(w))
    /\ To(w, "oops")
    /\ args' = [args EXCEPT ![w] = NoBytes]
    /\ UNCHANGED <<vars, ubuf, size, pp, page, crc, cmd, sum, atomic, lost, standing, done, woverlap>>

TrampolineReturns(w) ==
    /\ At(w, "in_tramp") /\ pc[w] = "idle" /\ To(w, "ret")
    /\ UNCHANGED <<vars, ubuf, size, pp, page, crc, cmd, args, sum, atomic, lost, standing, done, woverlap>>

\* 0xaa / 0xbb: the second copy_from_user, into pp0 or pp1.
CopyPage(w) ==
    /\ At(w, "copy") /\ To(w, "crc")
    /\ \E new \in {ubuf[w].head} \union (IF atomic[w] THEN {NoBytes} ELSE {}) :
          page' = [page EXCEPT ![cmd[w]] = CopiedHead(new, @, size[w])]
    /\ UNCHANGED <<vars, ubuf, size, pp, crc, cmd, args, sum, atomic, lost, standing, done, woverlap>>

\* A fault: the CRC of the first copy.
CrcPageOfFirstCopy(w) ==
    /\ At(w, "crc") /\ To(w, "store")
    /\ sum' = [sum EXCEPT ![w] = Crc(pp.head)]
    /\ UNCHANGED <<vars, ubuf, size, pp, page, crc, cmd, args, atomic, lost, standing, done, woverlap>>

\* crc32(pp0, 0x100), crc32(pp1, 40)
CrcPage(w) ==
    /\ At(w, "crc") /\ To(w, "store")
    /\ sum' = [sum EXCEPT ![w] = Crc(page[cmd[w]])]
    /\ UNCHANGED <<vars, ubuf, size, pp, page, crc, cmd, args, atomic, lost, standing, done, woverlap>>

\* Two faults: the command is fetched again from the user's buffer; the whole
\* if-chain is run again.
StoreCrcThen(w, next, left) ==
    /\ At(w, "store")
    /\ To(w, Branch(next, left))
    /\ crc' = [crc EXCEPT ![cmd[w]] = sum[w]]
    /\ cmd' = [cmd EXCEPT ![w] = next]
    /\ sum' = [sum EXCEPT ![w] = NoCrc]
    /\ Executes(w)
    /\ UNCHANGED <<vars, ubuf, size, pp, page, args, atomic, lost, standing, woverlap>>
StoreCrcRefetch(w) == StoreCrcThen(w, ubuf[w].cmd, {"bb", "dd"} \ {cmd[w]})

\* crc_ssa = ..., crc_anchor = ..., then the rest of the if-chain.
StoreCrc(w) ==
    /\ At(w, "store")
    /\ To(w, Branch(pp.cmd, IF cmd[w] = "aa" THEN {"bb", "dd"} ELSE {"dd"}))
    /\ crc' = [crc EXCEPT ![cmd[w]] = sum[w]]
    /\ cmd' = [cmd EXCEPT ![w] = pp.cmd]
    /\ sum' = [sum EXCEPT ![w] = NoCrc]
    /\ Executes(w)
    /\ UNCHANGED <<vars, ubuf, size, pp, page, args, atomic, lost, standing, woverlap>>

\* 0xdd: do_smp_call() disables preemption and interrupts CPU 1 ...
SmpCall(w) ==
    /\ At(w, "smp") /\ To(w, "ipi")
    /\ atomic' = [atomic EXCEPT ![w] = TRUE]
    /\ Executes(w)
    /\ UNCHANGED <<vars, ubuf, size, pp, page, crc, cmd, args, sum, lost, standing, woverlap>>

\* ... which runs ptid(), the hypercall on pp1, while the writer waits.
Ptid(w) ==
    /\ At(w, "ipi") /\ To(w, "ret")
    /\ UNCHANGED <<vars, ubuf, size, pp, page, crc, cmd, args, sum, atomic, lost, standing, done, woverlap>>

\* return size; the locals (and the history) of the write are dead.
WriteReturns(w) ==
    /\ At(w, "ret") /\ To(w, "idle")
    /\ ubuf' = [ubuf EXCEPT ![w] = Zero]
    /\ cmd' = [cmd EXCEPT ![w] = "zero"]
    /\ size' = [size EXCEPT ![w] = 0]
    /\ done' = [done EXCEPT ![w] = <<>>]
    /\ lost' = [lost EXCEPT ![w] = FALSE]
    /\ UNCHANGED <<vars, pp, page, crc, args, sum, atomic, standing, woverlap>>

\* Back in user mode the task is scheduled out; the scheduler reports and
\* resets the leaked preemption count.
Reschedule(w) ==
    /\ At(w, "idle") /\ atomic[w]
    /\ atomic' = [atomic EXCEPT ![w] = FALSE]
    /\ UNCHANGED <<vars, ubuf, size, pp, page, crc, wpc, cmd, args, sum, lost, standing, done, woverlap>>

TrampolineStep(w) == Step(w) /\ UNCHANGED dvars

Machine ==
    /\ \/ \E c \in Cpus, p \in Pids, v \in Touched : Access(c, p, v)
       \/ \E c \in Cpus : ReloadCr3(c)
       \/ \E p \in Pids, v \in Pages, f \in Frames : Remap(p, v, f)
    /\ UNCHANGED dvars

WriterStep(w) ==
    \/ CopyHead(w) \/ CopyCmd(w) \/ Dispatch(w)
    \/ LoadBase(w) \/ LoadSize(w) \/ \E c \in Cpus : CallTrampoline(w, c)
    \/ WildWalk(w) \/ TrampolineStep(w) \/ TrampolineReturns(w)
    \/ CopyPage(w) \/ CrcPage(w) \/ StoreCrc(w)
    \/ SmpCall(w) \/ Ptid(w) \/ WriteReturns(w)

JNext ==
    \/ \E w \in Callers : WriterStep(w) \/ Reschedule(w)
    \/ \E w \in Callers, b \in Buffers : UserStore(w, b) \/ \E n \in Sizes : WriteCall(w, b, n)
    \/ Machine

JSpec     == JInit /\ [][JNext]_jvars
\* A system call in progress is never abandoned, and CPU 1 takes interrupts.
JFairSpec == JSpec /\ \A w \in Callers : WF_jvars(WriterStep(w))

-----------------------------------------------------------------------------
JTypeOK ==
    /\ TypeOK
    /\ ubuf \in [Callers -> Buffers \union {Zero}]
    /\ pp \in [head : Heads, cmd : Commands]
    /\ page \in [Kinds -> Heads]
    /\ size \in [Callers -> 0..4]
    /\ wpc \in [Callers -> {"idle", "copy_head", "copy_cmd", "dispatch", "load_base",
                            "load_size", "load_pid", "in_tramp", "copy", "crc", "store", "smp", "ipi", "ret", "oops"}]
    /\ cmd \in [Callers -> Commands]
    /\ args \in [Callers -> Heads]
    /\ atomic \in [Callers -> BOOLEAN]
    /\ woverlap \in BOOLEAN

\* Between writes that did not overlap, crc_ssa and crc_anchor are the CRCs of
\* what pp0 and pp1 hold, even if the user rewrites the buffer between the two
\* copies of one write or a copy fails: the hash is taken of the kernel's own
\* second copy.  ptid() therefore hands the hypervisor a page that was hashed.
HashesMatch ==
    ~woverlap => \A k \in Kinds :
        (\A w \in Callers : wpc[w] \in {"crc", "store"} => cmd[w] # k) =>
            \/ crc[k] = Crc(page[k])
            \/ crc[k] = NoCrc /\ page[k] = NoBytes

\* A write that overlaps no other executes one command, once, and nothing
\* else: its own when its size covers byte 700; otherwise, since pp is not
\* cleared (jxdev.c:195), the command the last write that brought one left
\* there; none when the copy of that byte failed or none was ever written.  It
\* does so although the user may rewrite the buffer between the two copies and
\* pp[700] is tested again after each branch.
ExecutesWhatWasAsked ==
    ~woverlap => \A w \in Callers :
        /\ done[w] \in {<<>>, <<standing>>}
        /\ wpc[w] = "ret" => (done[w] = <<>> <=> standing = "zero")

\* The device passes trampoline one-byte arguments (jxdev.c:200-203), so no
\* sequence of writes, overlapping or not, can run past pinfo[] ...
NoOverrunThroughDevice ==
    \A w \in Callers : pc[w] # "overrun"

\* ... nor change an entry of any page but the first of a process.
OnlyFirstPage ==
    \A p \in Pids, v \in Pages : v # 0 => pt[p][v] = want[p][v]

\* main.c asks for one whole page (psize = 0x1000), which is 0 in the byte the
\* device reads: as long as writes are whole pages, as main.c makes them, and
\* do not overlap or race with their buffer, the requests of the host program
\* hide nothing at all.
WholePagesHideNothing ==
    /\ \A a \in HostArgs : a.psize % Byte = 0
    /\ Sizes = {4} /\ ~Racy /\ ~woverlap
    => pt = want

\* Every write returns to its caller or is killed by the wild walk.
WritesReturn ==
    \A w \in Callers : wpc[w] = "copy_head" ~> wpc[w] \in {"idle", "oops"}
=============================================================================
