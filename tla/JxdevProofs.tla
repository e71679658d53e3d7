---------------------------- MODULE JxdevProofs ----------------------------
(***************************************************************************)
(* Proofs about the device: it only ever makes calls of trampoline, so     *)
(* what TrampolineProofs shows holds of the device too, and what one-byte  *)
(* arguments add to it.                                                    *)
(***************************************************************************)
EXTENDS Jxdev, TrampolineProofs

WLabels == {"idle", "copy_head", "copy_cmd", "dispatch", "load_base", "load_size",
            "load_pid", "in_tramp", "copy", "crc", "store", "smp", "ipi", "ret", "oops"}

DTypeOK ==
    /\ ubuf \in [Callers -> Buffers \union {Zero}]
    /\ pp \in [head : Heads, cmd : Commands]
    /\ page \in [Kinds -> Heads]
    /\ size \in [Callers -> 0..4]
    /\ wpc \in [Callers -> WLabels]
    /\ cmd \in [Callers -> Commands]
    /\ args \in [Callers -> Heads]
    /\ atomic \in [Callers -> BOOLEAN]
    /\ woverlap \in BOOLEAN

\* The places where cmd[w] tells what the writer is doing.
CmdAt(w) ==
    /\ wpc[w] \in {"copy", "crc", "store"} => cmd[w] \in Kinds
    /\ wpc[w] \in {"load_base", "load_size", "load_pid", "in_tramp"} => cmd[w] = "cc"
    /\ wpc[w] \in {"smp", "ipi"} => cmd[w] = "dd"

DInv == DTypeOK /\ \A w \in Callers : CmdAt(w)

LEMMA BufferType ==
    /\ \A b \in Buffers \union {Zero} : b.head \in Heads /\ b.cmd \in Commands
    /\ Zero \in [head : Heads, cmd : Commands]
    /\ NoBytes \in Heads
<1>0. \A h \in {b.head : b \in Buffers} \union {NoBytes} : h = [b0 |-> h.b0, b2 |-> h.b2, b3 |-> h.b3]
  BY HostAssumption DEF Buffers, TrampolineBuffer, NoBytes, ArgBytes
<1>h. \A h \in {b.head : b \in Buffers} \union {NoBytes} : h \in Heads
  BY <1>0 DEF Heads
<1>1. \A b \in Buffers : b.head \in Heads
  BY <1>h
<1>2. NoBytes \in Heads
  BY <1>h
<1>3. \A b \in Buffers : b.cmd \in Commands
  BY DEF Buffers, TrampolineBuffer, Commands
<1>4. QED
  BY <1>1, <1>2, <1>3 DEF Zero, Commands

\* Bytes loaded from different writes are still a possible head.
LEMMA MixedHead ==
    ASSUME NEW g \in Heads, NEW h \in Heads, NEW j \in Heads
    PROVE  [b0 |-> g.b0, b2 |-> h.b2, b3 |-> j.b3] \in Heads
  BY DEF Heads

LEMMA CopiedType ==
    ASSUME NEW g \in Heads, NEW h \in Heads, NEW n
    PROVE  CopiedHead(g, h, n) \in Heads
  BY DEF Heads, CopiedHead

LEMMA BranchType ==
    ASSUME NEW c \in Commands, NEW left \in SUBSET Commands
    PROVE  /\ Branch(c, left) \in {"load_base", "copy", "smp", "ret"}
           /\ Branch(c, left) = "load_base" => c = "cc" /\ c \in left
           /\ Branch(c, left) = "copy" => c \in Kinds /\ c \in left
           /\ Branch(c, left) = "smp" => c = "dd" /\ c \in left
           /\ Branch(c, left) = "ret" => c \notin left \/ c = "zero"
  BY DEF Branch, Commands, Kinds

LEMMA InitDInv == JInit => DInv
<1> SUFFICES ASSUME JInit PROVE DInv
  OBVIOUS
<1>1. /\ ubuf \in [Callers -> Buffers \union {Zero}]
      /\ pp \in [head : Heads, cmd : Commands]
      /\ page \in [Kinds -> Heads]
      /\ size \in [Callers -> 0..4]
  BY BufferType DEF JInit
<1>2. /\ wpc \in [Callers -> WLabels]
      /\ cmd \in [Callers -> Commands]
      /\ args \in [Callers -> Heads]
      /\ atomic \in [Callers -> BOOLEAN]
      /\ woverlap \in BOOLEAN
  BY BufferType DEF JInit, WLabels, Commands
<1>3. \A w \in Callers : CmdAt(w)
  BY DEF JInit, CmdAt
<1>4. QED
  BY <1>1, <1>2, <1>3 DEF DInv, DTypeOK

LEMMA WriterDInv ==
    ASSUME DInv, NEW w \in Callers, WriterStep(w)
    PROVE  DInv'
<1> USE DEF DInv, At, To
<1>1. CASE CopyHead(w)
  <2>0. /\ CopiedHead(ubuf[w].head, pp.head, size[w]) \in Heads
        /\ CopiedHead(NoBytes, pp.head, size[w]) \in Heads
    BY BufferType, CopiedType DEF DTypeOK
  <2>1. pp'.head \in Heads /\ pp' = [head |-> pp'.head, cmd |-> pp.cmd]
    BY <1>1, <2>0 DEF CopyHead
  <2>2. pp' \in [head : Heads, cmd : Commands]
    BY <2>1 DEF DTypeOK
  <2>3. DTypeOK'
    BY <1>1, <2>2 DEF CopyHead, DTypeOK, WLabels
  <2>4. \A u \in Callers : CmdAt(u)'
    BY <1>1 DEF CopyHead, DTypeOK, CmdAt
  <2>5. QED
    BY <2>3, <2>4
<1>2. CASE CopyCmd(w)
  <2>1. pp'.cmd \in Commands /\ pp' = [head |-> pp.head, cmd |-> pp'.cmd]
    BY <1>2, BufferType DEF CopyCmd, DTypeOK, Commands
  <2>2. pp' \in [head : Heads, cmd : Commands]
    BY <2>1 DEF DTypeOK
  <2>3. DTypeOK'
    BY <1>2, <2>2 DEF CopyCmd, DTypeOK, WLabels
  <2>4. \A u \in Callers : CmdAt(u)'
    BY <1>2 DEF CopyCmd, DTypeOK, CmdAt
  <2>5. QED
    BY <2>3, <2>4
<1>3. CASE Dispatch(w)
  <2>1. pp.cmd \in Commands
    BY DEF DTypeOK
  <2>2. /\ Branch(pp.cmd, Commands) \in {"load_base", "copy", "smp", "ret"}
        /\ Branch(pp.cmd, Commands) = "load_base" => pp.cmd = "cc"
        /\ Branch(pp.cmd, Commands) = "copy" => pp.cmd \in Kinds
        /\ Branch(pp.cmd, Commands) = "smp" => pp.cmd = "dd"
    BY <2>1, BranchType
  <2>3. DTypeOK'
    BY <1>3, <2>1, <2>2 DEF Dispatch, DTypeOK, WLabels
  <2>4. \A u \in Callers : CmdAt(u)'
    BY <1>3, <2>2 DEF Dispatch, DTypeOK, CmdAt
  <2>5. QED
    BY <2>3, <2>4
<1>4. CASE \E c \in Cpus : CallTrampoline(w, c)
  <2>1. DTypeOK'
    BY <1>4, BufferType DEF CallTrampoline, DTypeOK, WLabels
  <2>2. \A u \in Callers : CmdAt(u)'
    BY <1>4 DEF CallTrampoline, DTypeOK, CmdAt
  <2>3. QED
    BY <2>1, <2>2
<1>5. CASE WildWalk(w) \/ TrampolineReturns(w) \/ Ptid(w)
  <2>1. DTypeOK'
    BY <1>5, BufferType DEF WildWalk, TrampolineReturns, Ptid, DTypeOK, WLabels
  <2>2. \A u \in Callers : CmdAt(u)'
    BY <1>5 DEF WildWalk, TrampolineReturns, Ptid, DTypeOK, CmdAt
  <2>3. QED
    BY <2>1, <2>2
<1>6. CASE TrampolineStep(w)
  BY <1>6 DEF TrampolineStep, dvars, DTypeOK, CmdAt
<1>7. CASE CopyPage(w)
  <2>1. cmd[w] \in Kinds /\ page[cmd[w]] \in Heads /\ ubuf[w].head \in Heads
    BY <1>7, BufferType DEF CopyPage, CmdAt, DTypeOK
  <2>n. CopiedHead(ubuf[w].head, page[cmd[w]], size[w]) \in Heads
        /\ CopiedHead(NoBytes, page[cmd[w]], size[w]) \in Heads
    BY <2>1, BufferType, CopiedType
  <2>2. page' \in [Kinds -> Heads]
    BY <1>7, <2>1, <2>n DEF CopyPage, DTypeOK
  <2>3. DTypeOK'
    BY <1>7, <2>2 DEF CopyPage, DTypeOK, WLabels
  <2>4. \A u \in Callers : CmdAt(u)'
    BY <1>7 DEF CopyPage, DTypeOK, CmdAt
  <2>5. QED
    BY <2>3, <2>4
<1>8. CASE CrcPage(w)
  <2>1. DTypeOK'
    BY <1>8 DEF CrcPage, DTypeOK, WLabels
  <2>2. \A u \in Callers : CmdAt(u)'
    BY <1>8 DEF CrcPage, DTypeOK, CmdAt
  <2>3. QED
    BY <2>1, <2>2
<1>9. CASE StoreCrc(w)
  <2> DEFINE left == IF cmd[w] = "aa" THEN {"bb", "dd"} ELSE {"dd"}
  <2>1. pp.cmd \in Commands /\ left \in SUBSET Commands
    BY DEF DTypeOK, Commands
  <2>2. /\ Branch(pp.cmd, left) \in {"load_base", "copy", "smp", "ret"}
        /\ Branch(pp.cmd, left) = "load_base" => pp.cmd = "cc"
        /\ Branch(pp.cmd, left) = "copy" => pp.cmd \in Kinds
        /\ Branch(pp.cmd, left) = "smp" => pp.cmd = "dd"
    BY <2>1, BranchType
  <2>3. wpc' = [wpc EXCEPT ![w] = Branch(pp.cmd, left)]
    BY <1>9 DEF StoreCrc
  <2> HIDE DEF left
  <2>4. DTypeOK'
    BY <1>9, <2>1, <2>2, <2>3 DEF StoreCrc, DTypeOK, WLabels
  <2>5. \A u \in Callers : CmdAt(u)'
    BY <1>9, <2>2, <2>3 DEF StoreCrc, DTypeOK, CmdAt
  <2>6. QED
    BY <2>4, <2>5
<1>10. CASE SmpCall(w)
  <2>1. DTypeOK'
    BY <1>10 DEF SmpCall, DTypeOK, WLabels
  <2>2. \A u \in Callers : CmdAt(u)'
    BY <1>10 DEF SmpCall, DTypeOK, CmdAt
  <2>3. QED
    BY <2>1, <2>2
<1>11. CASE WriteReturns(w)
  <2>1. DTypeOK'
    BY <1>11 DEF WriteReturns, DTypeOK, WLabels, Commands
  <2>2. \A u \in Callers : CmdAt(u)'
    BY <1>11 DEF WriteReturns, DTypeOK, CmdAt
  <2>3. QED
    BY <2>1, <2>2
<1>13. CASE LoadBase(w)
  <2>1. [b0 |-> pp.head.b0, b2 |-> 0, b3 |-> 0] \in Heads
    BY MixedHead, BufferType DEF DTypeOK, NoBytes
  <2>2. DTypeOK'
    BY <1>13, <2>1 DEF LoadBase, DTypeOK, WLabels
  <2>3. \A u \in Callers : CmdAt(u)'
    BY <1>13 DEF LoadBase, DTypeOK, CmdAt
  <2>4. QED
    BY <2>2, <2>3
<1>14. CASE LoadSize(w)
  <2>1. [b0 |-> args[w].b0, b2 |-> pp.head.b2, b3 |-> 0] \in Heads
    BY MixedHead, BufferType DEF DTypeOK, NoBytes
  <2>2. DTypeOK'
    BY <1>14, <2>1 DEF LoadSize, DTypeOK, WLabels
  <2>3. \A u \in Callers : CmdAt(u)'
    BY <1>14 DEF LoadSize, DTypeOK, CmdAt
  <2>4. QED
    BY <2>2, <2>3
<1>12. QED
  BY <1>13, <1>14, <1>1, <1>2, <1>3, <1>4, <1>5, <1>6, <1>7, <1>8, <1>9, <1>10, <1>11 DEF WriterStep

LEMMA NextDInv == DInv /\ [JNext]_jvars => DInv'
<1> SUFFICES ASSUME DInv, [JNext]_jvars PROVE DInv'
  OBVIOUS
<1>1. CASE \E w \in Callers : WriterStep(w)
  BY <1>1, WriterDInv
<1>2. CASE \E w \in Callers : Reschedule(w)
  BY <1>2 DEF Reschedule, DInv, DTypeOK, CmdAt
<1>3. CASE \E w \in Callers, b \in Buffers, n \in Sizes : WriteCall(w, b, n)
  <2>1. PICK w \in Callers, b \in Buffers, n \in Sizes : WriteCall(w, b, n)
    BY <1>3
  <2>2. DTypeOK'
    BY <2>1, HostAssumption DEF WriteCall, At, To, DInv, DTypeOK, WLabels
  <2>3. \A u \in Callers : CmdAt(u)'
    BY <2>1 DEF WriteCall, At, To, DInv, DTypeOK, CmdAt
  <2>4. QED
    BY <2>2, <2>3 DEF DInv
<1>4. CASE \E w \in Callers, b \in Buffers : UserStore(w, b)
  BY <1>4 DEF UserStore, DInv, DTypeOK, CmdAt
<1>5. CASE UNCHANGED dvars
  BY <1>5 DEF dvars, DInv, DTypeOK, CmdAt
<1>6. QED
  BY <1>1, <1>2, <1>3, <1>4, <1>5 DEF JNext, Machine, jvars

LEMMA DeviceStep == DInv /\ [JNext]_jvars => [Next]_vars
<1> SUFFICES ASSUME DInv, [JNext]_jvars PROVE [Next]_vars
  OBVIOUS
<1>1. CASE UNCHANGED vars
  BY <1>1
<1>2. ASSUME NEW w \in Callers, NEW c \in Cpus, CallTrampoline(w, c) PROVE Next
  <2>1. Loaded(w) \in Heads /\ Resolves(Loaded(w))
    BY <1>2, MixedHead DEF DInv, DTypeOK, CallTrampoline, Loaded
  <2>2. DeviceRequest(Loaded(w)) \in Requests
    BY <2>1, DeviceAssumption
  <2>3. QED
    BY <1>2, <2>2 DEF CallTrampoline, Next
<1>3. CASE \E w \in Callers : TrampolineStep(w)
  BY <1>3 DEF TrampolineStep, Next
<1>4. CASE Machine
  BY <1>4 DEF Machine, Next
<1>5. CASE \E w \in Callers : WriterStep(w)
  BY <1>1, <1>2, <1>3, <1>5
     DEF WriterStep, CopyHead, CopyCmd, Dispatch, LoadBase, LoadSize, WildWalk, TrampolineReturns, CopyPage,
         CrcPage, StoreCrc, SmpCall, Ptid, WriteReturns
<1>6. QED
  BY <1>1, <1>4, <1>5 DEF JNext, Reschedule, WriteCall, UserStore, jvars

\* Every behaviour of the device is, for the trampoline, a behaviour of its
\* callers: all that is proved of Trampoline holds below jxdev_write.
THEOREM DeviceCallsTrampoline == JSpec => Spec
<1>1. JInit => Init
  BY DEF JInit
<1>2. QED
  BY <1>1, InitDInv, NextDInv, DeviceStep, PTL DEF JSpec, Spec

-----------------------------------------------------------------------------
(* One-byte arguments.                                                     *)

LEMMA HeadBytes == \A h \in Heads : h \in ArgBytes
<1>1. ASSUME NEW n \in Nat PROVE n % Byte \in 0..(Byte - 1)
  BY ByteAssumption
<1>2. NoBytes \in ArgBytes
  BY ByteAssumption DEF NoBytes, ArgBytes
<1>3. \A a \in HostArgs : TrampolineBuffer(a).head \in ArgBytes
  BY <1>1, HostAssumption DEF TrampolineBuffer, ArgBytes
<1>4. \A b \in [head : Hashed, cmd : {"aa", "bb"}] : b.head \in ArgBytes
  BY HostAssumption
<1>5. \A b \in Buffers : b.head \in ArgBytes
  BY <1>2, <1>3, <1>4 DEF Buffers
<1>6. \A h \in {b.head : b \in Buffers} \union {NoBytes} : h \in ArgBytes
  BY <1>2, <1>5
<1>7. QED
  BY <1>6 DEF Heads, ArgBytes

\* What the device can ask for: less than a page, at the first page.
LEMMA SmallRequests ==
    \A r \in Requests : r.base.page = 0 /\ r.size \in Nat /\ r.size < PageSize
<1> SUFFICES ASSUME NEW h \in ArgBytes
             PROVE  /\ DeviceRequest(h).base.page = 0
                    /\ DeviceRequest(h).size \in Nat
                    /\ DeviceRequest(h).size < PageSize
  BY HeadBytes, DeviceAssumption
<1>1. h.b0 \in Nat /\ h.b0 < PageSize /\ h.b2 \in Nat /\ h.b2 < PageSize
  BY ByteAssumption, PageAssumption DEF ArgBytes
<1>2. h.b0 \div PageSize = 0
  BY <1>1, PageAssumption
<1>3. QED
  BY <1>1, <1>2 DEF DeviceRequest

\* No sequence of device writes runs past pinfo[].
THEOREM DeviceNeverOverruns == JSpec => []NoOverrunThroughDevice
<1>1. TInv /\ OverrunOnlyIfTooBig => NoOverrunThroughDevice
  <2> SUFFICES ASSUME TInv, OverrunOnlyIfTooBig, NEW w \in Callers, pc[w] = "overrun"
               PROVE  FALSE
    BY DEF NoOverrunThroughDevice
  <2>1. req[w] \in Requests /\ req[w].size > Slots * PageSize
    BY DEF TInv, TypeOK, OverrunOnlyIfTooBig
  <2>2. /\ req[w].size \in Nat /\ req[w].size < PageSize
        /\ PageSize \in Nat /\ Slots \in Nat /\ 1 <= Slots
    BY <2>1, SmallRequests, PageAssumption
  <2>3. 1 * PageSize <= Slots * PageSize
    BY <2>2, MultMonotone
  <2>4. Slots * PageSize \in Nat
    BY <2>2
  <2>5. QED
    BY <2>1, <2>2, <2>3, <2>4
<1>2. QED
  BY <1>1, DeviceCallsTrampoline, TableSafe, TableBound, PTL

\* Every address in flight is on page 0, and a call works on one page.
FirstPageOnly ==
    /\ \A k \in 0..(Slots - 1) : vir_addr[k].page = 0
    /\ \A w \in Callers : vir[w].page = 0
    /\ \A w \in Callers : pc[w] \in {"save_vir", "save_phy", "clear"} => i[w] = 0
    /\ OnlyFirstPage

LEMMA StepFirstPage ==
    ASSUME TInv, FirstPageOnly, NEW w \in Callers, Step(w)
    PROVE  FirstPageOnly'
<1> USE PageAssumption
<1>r. /\ req[w] \in Requests /\ req[w].base.page = 0 /\ req[w].size < PageSize
      /\ req[w].size \in Nat /\ i[w] \in Nat /\ PageSize \in Nat
  BY SmallRequests DEF TInv, TypeOK
<1>v. Vaddr(req[w], 0).page = 0
  BY <1>r DEF Vaddr
<1>1. CASE HideNext(w)
  <2>1. i[w] = 0
    <3>1. i[w] * PageSize < req[w].size
      BY <1>1 DEF HideNext
    <3>2. 1 <= i[w] => 1 * PageSize <= i[w] * PageSize
      BY <1>r, MultMonotone
    <3>3. i[w] * PageSize \in Nat
      BY <1>r
    <3>4. QED
      BY <1>r, <3>1, <3>2, <3>3
  <2>2. QED
    BY <1>1, <2>1 DEF HideNext, Goto, hist, FirstPageOnly, OnlyFirstPage, TInv, TypeOK
<1>2. CASE SaveVir(w)
  <2>1. i[w] = 0
    BY <1>2 DEF SaveVir, Goto, FirstPageOnly
  <2>2. \A k \in 0..(Slots - 1) : vir_addr'[k].page = 0
    BY <1>2, <1>v, <2>1 DEF SaveVir, FirstPageOnly, TInv, TypeOK
  <2>3. QED
    BY <1>2, <2>2 DEF SaveVir, Goto, hist, FirstPageOnly, OnlyFirstPage, TInv, TypeOK
<1>3. CASE SavePhy(w)
  BY <1>3 DEF SavePhy, Goto, hist, FirstPageOnly, OnlyFirstPage, TInv, TypeOK
<1>4. CASE Clear(w)
  <2>1. i[w] = 0 /\ pc'[w] = "hide" /\ \A u \in Callers : u # w => pc'[u] = pc[u] /\ i'[u] = i[u]
    BY <1>4 DEF Clear, Goto, FirstPageOnly, TInv, TypeOK
  <2>2. PICK e : pt' = [pt EXCEPT ![req[w].pid][0] = e]
    BY <1>4, <1>v, <2>1 DEF Clear
  <2>w. want' = want
    BY <1>4 DEF Clear, hist
  <2>3. OnlyFirstPage'
    BY <2>w, <2>2 DEF FirstPageOnly, OnlyFirstPage, TInv, TypeOK
  <2>4. QED
    BY <1>4, <2>1, <2>3 DEF Clear, FirstPageOnly
<1>5. CASE HideDone(w)
  BY <1>5 DEF HideDone, Goto, hist, FirstPageOnly, OnlyFirstPage, TInv, TypeOK
<1>6. CASE RestoreNext(w)
  BY <1>6 DEF RestoreNext, Goto, hist, FirstPageOnly, OnlyFirstPage, TInv, TypeOK
<1>7. CASE LoadVir(w)
  <2>1. i[w] \in 0..(Slots - 1)
    BY <1>7, <1>r DEF LoadVir, Goto, TInv, Bounds
  <2>2. \A u \in Callers : vir'[u].page = 0
    BY <1>7, <2>1 DEF LoadVir, FirstPageOnly, TInv, TypeOK
  <2>3. QED
    BY <1>7, <2>2 DEF LoadVir, Goto, hist, FirstPageOnly, OnlyFirstPage, TInv, TypeOK
<1>8. CASE LoadPhy(w)
  BY <1>8 DEF LoadPhy, Goto, hist, FirstPageOnly, OnlyFirstPage, TInv, TypeOK
<1>9. CASE EnV2p(w)
  <2>1. pt' = [pt EXCEPT ![req[w].pid][0] = phy[w]]
    BY <1>9 DEF EnV2p, FirstPageOnly
  <2>2. OnlyFirstPage'
    BY <1>9, <2>1 DEF EnV2p, hist, FirstPageOnly, OnlyFirstPage, TInv, TypeOK
  <2>3. \A u \in Callers : vir'[u].page = 0
    BY <1>9 DEF EnV2p, FirstPageOnly, ZeroVir, TInv, TypeOK
  <2>4. /\ pc'[w] = "restore"
        /\ \A u \in Callers : u # w => pc'[u] = pc[u] /\ i'[u] = i[u]
    BY <1>9 DEF EnV2p, Goto, TInv, TypeOK
  <2>5. QED
    BY <1>9, <2>2, <2>3, <2>4 DEF EnV2p, FirstPageOnly
<1>10. CASE Return(w)
  BY <1>10 DEF Return, Goto, hist, FirstPageOnly, OnlyFirstPage, TInv, TypeOK
<1>11. QED
  BY <1>1, <1>2, <1>3, <1>4, <1>5, <1>6, <1>7, <1>8, <1>9, <1>10 DEF Step

\* The device reaches no page-table entry but that of a process's first page.
THEOREM DeviceOnlyFirstPage == JSpec => []OnlyFirstPage
<1>1. Init => FirstPageOnly
  BY DEF Init, FirstPageOnly, OnlyFirstPage, ZeroVir
<1>2. TInv /\ FirstPageOnly /\ [Next]_vars => FirstPageOnly'
  <2> SUFFICES ASSUME TInv, FirstPageOnly, [Next]_vars PROVE FirstPageOnly'
    OBVIOUS
  <2>1. CASE \E w \in Callers : Step(w)
    BY <2>1, StepFirstPage
  <2>2. CASE \E w \in Callers, c \in Cpus, r \in Requests : Enter(w, c, r)
    BY <2>2 DEF Enter, Goto, FirstPageOnly, OnlyFirstPage, TInv, TypeOK
  <2>3. CASE \E p \in Pids, v \in Pages, f \in Frames : Remap(p, v, f)
    <3>1. PICK p \in Pids, v \in Pages, f \in Frames : Remap(p, v, f)
      BY <2>3
    <3>2. OnlyFirstPage'
      BY <3>1 DEF Remap, FirstPageOnly, OnlyFirstPage, TInv, TypeOK
    <3>3. QED
      BY <3>1, <3>2 DEF Remap, FirstPageOnly
  <2>4. CASE UNCHANGED <<pt, want, vir_addr, vir, pc, i>>
    BY <2>4 DEF FirstPageOnly, OnlyFirstPage
  <2>5. QED
    BY <2>1, <2>2, <2>3, <2>4 DEF Next, Access, ReloadCr3, vars, hist
<1>3. FirstPageOnly => OnlyFirstPage
  BY DEF FirstPageOnly
<1>4. Spec => []OnlyFirstPage
  BY <1>1, <1>2, <1>3, TableSafe, PTL DEF Spec
<1>5. QED
  BY <1>4, DeviceCallsTrampoline, PTL

-----------------------------------------------------------------------------
(* Writes that do not overlap.                                             *)

\* The variables of the device and of the trampoline below it keep their
\* types, for any number of writers.
THEOREM DeviceTypeCorrect == JSpec => []JTypeOK
<1>1. DInv /\ TypeOK => JTypeOK
  BY DEF DInv, DTypeOK, JTypeOK, WLabels
<1>2. JSpec => []DInv
  BY InitDInv, NextDInv, PTL DEF JSpec
<1>3. QED
  BY <1>1, <1>2, DeviceCallsTrampoline, TypeCorrect, PTL

\* The CRCs, and the history of each write.
Sums == {Crc(h) : h \in Heads} \union {NoCrc}
HType ==
    /\ sum \in [Callers -> Sums]
    /\ crc \in [Kinds -> Sums]
    /\ standing \in Commands
    /\ done \in [Callers -> Seq(Commands)]
    /\ lost \in [Callers -> BOOLEAN]

LEMMA StepHType ==
    ASSUME DInv, HType, [JNext]_jvars
    PROVE  HType'
<1> USE DEF DInv, DTypeOK, HType
<1>1. ASSUME NEW w \in Callers, CopyHead(w) \/ CopyCmd(w) PROVE HType'
  <2>1. ubuf[w].cmd \in Commands
    BY BufferType
  <2>2. standing' \in Commands
    BY <1>1, <2>1 DEF CopyHead, CopyCmd, Commands
  <2>3. lost' \in [Callers -> BOOLEAN]
    BY <1>1, Zenon DEF CopyHead, CopyCmd
  <2>4. UNCHANGED <<sum, crc, done>>
    BY <1>1 DEF CopyHead, CopyCmd
  <2>5. QED
    BY <2>2, <2>3, <2>4
<1>2. ASSUME NEW w \in Callers, NEW c \in Cpus, CallTrampoline(w, c) PROVE HType'
  BY <1>2 DEF CallTrampoline, Executes
<1>3. ASSUME NEW w \in Callers, CrcPage(w) PROVE HType'
  <2>1. cmd[w] \in Kinds
    BY <1>3 DEF CrcPage, At, CmdAt
  <2>2. Crc(page[cmd[w]]) \in Sums
    BY <2>1 DEF Sums
  <2>3. QED
    BY <1>3, <2>2 DEF CrcPage
<1>4. ASSUME NEW w \in Callers, StoreCrc(w) PROVE HType'
  <2>1. cmd[w] \in Kinds /\ NoCrc \in Sums
    BY <1>4 DEF StoreCrc, At, CmdAt, Sums
  <2>2. crc' \in [Kinds -> Sums] /\ sum' \in [Callers -> Sums]
    BY <1>4, <2>1 DEF StoreCrc
  <2>3. done' \in [Callers -> Seq(Commands)]
    BY <1>4 DEF StoreCrc, Executes
  <2>4. UNCHANGED <<standing, lost>>
    BY <1>4 DEF StoreCrc
  <2>5. QED
    BY <2>2, <2>3, <2>4
<1>5. ASSUME NEW w \in Callers, SmpCall(w) \/ WriteReturns(w) PROVE HType'
  <2>e. <<>> \in Seq(Commands)
    OBVIOUS
  <2>1. standing' \in Commands /\ done' \in [Callers -> Seq(Commands)]
    <3>1. CASE SmpCall(w)
      BY <3>1 DEF SmpCall, Executes
    <3>2. CASE WriteReturns(w)
      BY <2>e, <3>2 DEF WriteReturns
    <3>3. QED
      BY <1>5, <3>1, <3>2
  <2>2. lost' \in [Callers -> BOOLEAN]
    BY <1>5, Zenon DEF SmpCall, WriteReturns
  <2>3. UNCHANGED <<sum, crc>>
    BY <1>5 DEF SmpCall, WriteReturns
  <2>4. QED
    BY <2>1, <2>2, <2>3
<1>6. CASE UNCHANGED <<sum, crc, standing, done, lost>>
  BY <1>6
<1>7. QED
  BY <1>1, <1>2, <1>3, <1>4, <1>5, <1>6
     DEF JNext, WriterStep, Reschedule, WriteCall, UserStore, Machine, Dispatch, LoadBase, LoadSize, WildWalk,
         TrampolineStep, TrampolineReturns, CopyPage, Ptid, dvars, jvars

OneWriter == \A w, u \in Callers : Writing(w) /\ Writing(u) => w = u

\* A step of the device that moves a writer is taken by an active one.
LEMMA StepOneWriter ==
    ASSUME DInv, [JNext]_jvars, ~woverlap', ~woverlap => OneWriter
    PROVE  ~woverlap /\ OneWriter /\ OneWriter'
<1> USE DEF DInv, DTypeOK, OneWriter, Writing, At, To
<1>1. ASSUME NEW w \in Callers, WriterStep(w) \/ Reschedule(w)
      PROVE  ~woverlap /\ OneWriter /\ OneWriter'
  <2>1. woverlap' = woverlap
    BY <1>1 DEF WriterStep, CopyHead, CopyCmd, Dispatch, LoadBase, LoadSize, CallTrampoline, WildWalk,
       TrampolineStep, dvars, TrampolineReturns, CopyPage, CrcPage, StoreCrc, SmpCall, Ptid, WriteReturns,
       Reschedule
  <2>2. wpc' = wpc \/ (Writing(w) /\ \E l : wpc' = [wpc EXCEPT ![w] = l])
    BY <1>1 DEF WriterStep, CopyHead, CopyCmd, Dispatch, LoadBase, LoadSize, CallTrampoline, WildWalk,
       TrampolineStep, dvars, TrampolineReturns, CopyPage, CrcPage, StoreCrc, SmpCall, Ptid, WriteReturns,
       Reschedule
  <2>3. QED
    BY <2>1, <2>2
<1>2. ASSUME NEW w \in Callers, NEW b \in Buffers, NEW n \in Sizes, WriteCall(w, b, n)
      PROVE  ~woverlap /\ OneWriter /\ OneWriter'
  BY <1>2 DEF WriteCall
<1>3. ASSUME NEW w \in Callers, NEW b \in Buffers, UserStore(w, b)
      PROVE  ~woverlap /\ OneWriter /\ OneWriter'
  BY <1>3 DEF UserStore
<1>4. CASE UNCHANGED dvars
  BY <1>4 DEF dvars
<1>5. QED
  BY <1>1, <1>2, <1>3, <1>4 DEF JNext, Machine, jvars

\* As long as no two writes overlapped: one writer is active, and what it has
\* summed is the page it is about to store the CRC of.
Summed(w) == wpc[w] = "store" => sum[w] = Crc(page[cmd[w]])
Matches(k) == crc[k] = Crc(page[k]) \/ (crc[k] = NoCrc /\ page[k] = NoBytes)
Settled(k) == \A w \in Callers : wpc[w] \in {"crc", "store"} => cmd[w] # k
HInv ==
    ~woverlap =>
        /\ OneWriter
        /\ \A w \in Callers : Summed(w)
        /\ \A k \in Kinds : Settled(k) => Matches(k)

LEMMA StepHInv ==
    ASSUME DInv, HType, HInv, [JNext]_jvars
    PROVE  HInv'
<1> SUFFICES ASSUME ~woverlap'
             PROVE  /\ \A w \in Callers : Summed(w)'
                    /\ \A k \in Kinds : Settled(k)' => Matches(k)'
  BY StepOneWriter DEF HInv
<1>0. /\ ~woverlap /\ OneWriter
      /\ \A w \in Callers : Summed(w)
      /\ \A k \in Kinds : Settled(k) => Matches(k)
  BY StepOneWriter DEF HInv
<1> USE DEF At, To
<1>1. ASSUME NEW w \in Callers, CopyPage(w)
      PROVE  /\ \A u \in Callers : Summed(u)'
             /\ \A k \in Kinds : Settled(k)' => Matches(k)'
  <2>1. cmd[w] \in Kinds /\ wpc[w] = "copy" /\ \A u \in Callers : u # w => wpc[u] \notin {"crc", "store"}
    BY <1>0, <1>1 DEF CopyPage, DInv, CmdAt, OneWriter, Writing
  <2>2. /\ \A k \in Kinds : k # cmd[w] => page'[k] = page[k]
        /\ wpc'[w] = "crc" /\ \A u \in Callers : u # w => wpc'[u] = wpc[u]
        /\ cmd' = cmd /\ crc' = crc /\ sum' = sum
    BY <1>1 DEF CopyPage, DInv, DTypeOK
  <2>3. \A u \in Callers : Summed(u)'
    BY <2>1, <2>2 DEF Summed
  <2>4. ASSUME NEW k \in Kinds, Settled(k)' PROVE Matches(k)'
    <3>1. k # cmd[w] /\ Settled(k)
      BY <2>1, <2>2, <2>4 DEF Settled
    <3>2. QED
      BY <1>0, <2>2, <3>1 DEF Matches
  <2>5. QED
    BY <2>3, <2>4
<1>2. ASSUME NEW w \in Callers, CrcPage(w)
      PROVE  /\ \A u \in Callers : Summed(u)'
             /\ \A k \in Kinds : Settled(k)' => Matches(k)'
  <2>1. /\ wpc[w] = "crc" /\ \A u \in Callers : u # w => wpc[u] # "store"
    BY <1>0, <1>2 DEF CrcPage, OneWriter, Writing
  <2>2. /\ wpc'[w] = "store" /\ \A u \in Callers : u # w => wpc'[u] = wpc[u]
        /\ cmd' = cmd /\ crc' = crc /\ page' = page
        /\ sum'[w] = Crc(page[cmd[w]])
    BY <1>2 DEF CrcPage, DInv, DTypeOK, HType
  <2>3. \A u \in Callers : Summed(u)'
    BY <2>1, <2>2 DEF Summed
  <2>4. ASSUME NEW k \in Kinds, Settled(k)' PROVE Matches(k)'
    <3>1. Settled(k)
      BY <2>1, <2>2, <2>4 DEF Settled
    <3>2. QED
      BY <1>0, <2>2, <3>1 DEF Matches
  <2>5. QED
    BY <2>3, <2>4
<1>3. ASSUME NEW w \in Callers, StoreCrc(w)
      PROVE  /\ \A u \in Callers : Summed(u)'
             /\ \A k \in Kinds : Settled(k)' => Matches(k)'
  <2>1. /\ cmd[w] \in Kinds /\ wpc[w] = "store"
        /\ \A u \in Callers : u # w => wpc[u] \notin {"crc", "store"}
    BY <1>0, <1>3 DEF StoreCrc, DInv, CmdAt, OneWriter, Writing
  <2>2. PICK left \in SUBSET Commands : wpc' = [wpc EXCEPT ![w] = Branch(pp.cmd, left)]
    BY <1>3 DEF StoreCrc, Commands
  <2>3. wpc'[w] \notin {"crc", "store"} /\ \A u \in Callers : u # w => wpc'[u] = wpc[u]
    BY <2>2, BranchType DEF DInv, DTypeOK
  <2>4. page' = page /\ crc' = [crc EXCEPT ![cmd[w]] = Crc(page[cmd[w]])]
    BY <1>0, <1>3, <2>1 DEF StoreCrc, Summed
  <2>5. \A u \in Callers : Summed(u)'
    BY <2>1, <2>3 DEF Summed
  <2>6. ASSUME NEW k \in Kinds PROVE Matches(k)'
    <3>1. k # cmd[w] => Settled(k)
      BY <2>1 DEF Settled
    <3>2. QED
      BY <1>0, <2>1, <2>4, <3>1 DEF Matches, HType
  <2>7. QED
    BY <2>5, <2>6
<1>4. ASSUME NEW w \in Callers, UNCHANGED <<page, crc>>,
             \A u \in Callers : u # w => wpc'[u] = wpc[u] /\ cmd'[u] = cmd[u] /\ sum'[u] = sum[u],
             wpc[w] \notin {"crc", "store"}, wpc'[w] \notin {"crc", "store"}
      PROVE  /\ \A u \in Callers : Summed(u)'
             /\ \A k \in Kinds : Settled(k)' => Matches(k)'
  <2>1. \A k \in Kinds : Settled(k)' => Settled(k)
    BY <1>4 DEF Settled
  <2>2. QED
    BY <1>0, <1>4, <2>1 DEF Summed, Matches
<1>5. ASSUME UNCHANGED <<page, crc, wpc, cmd, sum>>
      PROVE  /\ \A u \in Callers : Summed(u)'
             /\ \A k \in Kinds : Settled(k)' => Matches(k)'
  BY <1>0, <1>5 DEF Summed, Settled, Matches
<1>6. ASSUME NEW w \in Callers, CopyHead(w) \/ CopyCmd(w) \/ LoadBase(w) \/ LoadSize(w) \/ WildWalk(w)
                                \/ TrampolineReturns(w) \/ SmpCall(w) \/ Ptid(w) \/ WriteReturns(w)
                                \/ (\E c \in Cpus : CallTrampoline(w, c)) \/ \E b \in Buffers, n \in Sizes : WriteCall(w, b, n)
      PROVE  /\ UNCHANGED <<page, crc>>
             /\ \A u \in Callers : u # w => wpc'[u] = wpc[u] /\ cmd'[u] = cmd[u] /\ sum'[u] = sum[u]
             /\ wpc[w] \notin {"crc", "store"} /\ wpc'[w] \notin {"crc", "store"}
  BY <1>6 DEF CopyHead, CopyCmd, LoadBase, LoadSize, WildWalk, TrampolineReturns, SmpCall, Ptid, WriteReturns,
     CallTrampoline, WriteCall, DInv, DTypeOK
<1>7. ASSUME NEW w \in Callers, Dispatch(w)
      PROVE  /\ UNCHANGED <<page, crc>>
             /\ \A u \in Callers : u # w => wpc'[u] = wpc[u] /\ cmd'[u] = cmd[u] /\ sum'[u] = sum[u]
             /\ wpc[w] \notin {"crc", "store"} /\ wpc'[w] \notin {"crc", "store"}
  <2>1. Branch(pp.cmd, Commands) \notin {"crc", "store"}
    BY BranchType DEF DInv, DTypeOK
  <2>2. QED
    BY <1>7, <2>1 DEF Dispatch, DInv, DTypeOK
<1>8. QED
  BY <1>1, <1>2, <1>3, <1>4, <1>5, <1>6, <1>7
     DEF JNext, WriterStep, Reschedule, UserStore, Machine, TrampolineStep, dvars, jvars

\* Between writes that did not overlap, crc_ssa and crc_anchor are the CRCs of
\* what pp0 and pp1 hold, whatever the user does to the buffer meanwhile.
THEOREM DeviceHashesMatch == JSpec => []HashesMatch
<1>1. JInit => HType /\ HInv
  BY DEF JInit, HType, HInv, Sums, Summed, Settled, Matches, OneWriter, Writing, Commands
<1>2. DInv /\ HType /\ HInv /\ [JNext]_jvars => HType' /\ HInv'
  BY StepHType, StepHInv
<1>3. HInv => HashesMatch
  BY DEF HInv, Settled, Matches, HashesMatch
<1>4. JSpec => []DInv
  BY InitDInv, NextDInv, PTL DEF JSpec
<1>5. QED
  BY <1>1, <1>2, <1>3, <1>4, PTL DEF JSpec

\* What a write that overlaps no other has done at each of its places: a
\* branch is entered for the standing command, and left when it was executed.
Progress(w) ==
    /\ wpc[w] \in {"idle", "copy_head"} => ~lost[w]
    /\ wpc[w] \in {"load_base", "load_size", "load_pid", "copy", "crc", "store", "smp"} =>
          cmd[w] = standing /\ standing # "zero"
    /\ wpc[w] \in {"idle", "copy_head", "copy_cmd", "dispatch", "load_base", "load_size", "load_pid",
                   "copy", "crc", "store", "smp", "oops"} => done[w] = <<>>
    /\ wpc[w] \in {"in_tramp", "ipi", "ret"} =>
          \/ done[w] = <<standing>> /\ standing # "zero"
          \/ done[w] = <<>> /\ standing = "zero"

EInv == ~woverlap => OneWriter /\ pp.cmd = standing /\ \A w \in Callers : Progress(w)

LEMMA StepStanding ==
    ASSUME [JNext]_jvars, pp.cmd = standing
    PROVE  pp'.cmd = standing'
  BY DEF JNext, WriterStep, Reschedule, WriteCall, UserStore, Machine, CopyHead, CopyCmd, Dispatch, LoadBase,
         LoadSize, CallTrampoline, WildWalk, TrampolineStep, TrampolineReturns, CopyPage, CrcPage, StoreCrc,
         SmpCall, Ptid, WriteReturns, dvars, jvars

LEMMA StepEInv ==
    ASSUME DInv, HType, EInv, [JNext]_jvars
    PROVE  EInv'
<1> SUFFICES ASSUME ~woverlap', NEW u \in Callers
             PROVE  Progress(u)'
  BY StepOneWriter, StepStanding DEF EInv
<1>0. ~woverlap /\ OneWriter /\ pp.cmd = standing /\ \A w \in Callers : Progress(w)
  BY StepOneWriter DEF EInv
<1> USE DEF At, To, DInv, DTypeOK, HType
<1>1. ASSUME NEW w \in Callers, Writing(w), u # w, wpc'[u] = wpc[u], done'[u] = done[u], lost'[u] = lost[u]
      PROVE  Progress(u)'
  <2>1. wpc[u] \in {"idle", "oops"}
    BY <1>0, <1>1 DEF OneWriter, Writing
  <2>2. QED
    BY <1>0, <1>1, <2>1 DEF Progress
<1>2. ASSUME NEW w \in Callers, WriterStep(w), ~TrampolineStep(w)
      PROVE  /\ Writing(w)
             /\ u # w => wpc'[u] = wpc[u] /\ done'[u] = done[u] /\ lost'[u] = lost[u]
  BY <1>2 DEF WriterStep, Writing, CopyHead, CopyCmd, Dispatch, LoadBase, LoadSize, CallTrampoline, WildWalk,
     TrampolineReturns, CopyPage, CrcPage, StoreCrc, SmpCall, Ptid, WriteReturns, Executes
<1>3. CASE CopyHead(u)
  BY <1>0, <1>3 DEF CopyHead, Progress
<1>4. CASE CopyCmd(u)
  BY <1>0, <1>4 DEF CopyCmd, Progress
<1>5. CASE Dispatch(u)
  <2>1. /\ standing' = standing /\ done' = done /\ lost' = lost /\ cmd'[u] = standing
        /\ wpc'[u] = Branch(standing, Commands) /\ standing \in Commands
        /\ done[u] = <<>>
    BY <1>0, <1>5 DEF Dispatch, Progress
  <2>2. CASE standing = "zero"
    <3>1. wpc'[u] = "ret"
      BY <2>1, <2>2 DEF Branch, Kinds
    <3>2. QED
      BY <2>1, <2>2, <3>1 DEF Progress
  <2>3. CASE standing # "zero"
    <3>1. wpc'[u] \in {"load_base", "copy", "smp"}
      BY <2>1, <2>3 DEF Branch, Kinds, Commands
    <3>2. QED
      BY <2>1, <2>3, <3>1 DEF Progress
  <2>4. QED
    BY <2>2, <2>3
<1>6. CASE LoadBase(u) \/ LoadSize(u) \/ CopyPage(u) \/ CrcPage(u)
  BY <1>0, <1>6 DEF LoadBase, LoadSize, CopyPage, CrcPage, Progress
<1>7. CASE WildWalk(u) \/ TrampolineReturns(u) \/ Ptid(u) \/ WriteReturns(u)
  BY <1>0, <1>7 DEF WildWalk, TrampolineReturns, Ptid, WriteReturns, Progress
<1>8. ASSUME NEW c \in Cpus, CallTrampoline(u, c) PROVE Progress(u)'
  <2>1. done[u] = <<>> /\ cmd[u] = standing /\ standing # "zero"
    BY <1>0, <1>8 DEF CallTrampoline, Progress
  <2>2. wpc'[u] = "in_tramp" /\ standing' = standing /\ done'[u] = <<standing>>
    BY <1>8, <2>1 DEF CallTrampoline, Executes
  <2>3. QED
    BY <2>1, <2>2 DEF Progress
<1>9. CASE SmpCall(u)
  <2>1. done[u] = <<>> /\ cmd[u] = standing /\ standing # "zero"
    BY <1>0, <1>9 DEF SmpCall, Progress
  <2>2. wpc'[u] = "ipi" /\ standing' = standing /\ done'[u] = <<standing>>
    BY <1>9, <2>1 DEF SmpCall, Executes
  <2>3. QED
    BY <2>1, <2>2 DEF Progress
<1>10. CASE StoreCrc(u)
  <2>1. /\ pp.cmd = cmd[u] /\ cmd[u] \in Kinds /\ done[u] = <<>>
        /\ cmd[u] = standing /\ standing # "zero"
    BY <1>0, <1>10 DEF StoreCrc, CmdAt, Progress
  <2>2. wpc'[u] = "ret"
    BY <1>10, <2>1 DEF StoreCrc, Branch, Kinds
  <2>3. done'[u] = <<standing>> /\ standing' = standing
    BY <1>10, <2>1 DEF StoreCrc, Executes
  <2>4. QED
    BY <2>1, <2>2, <2>3 DEF Progress
<1>11. ASSUME NEW w \in Callers, WriterStep(w) PROVE Progress(u)'
  <2>1. CASE TrampolineStep(w)
    BY <1>0, <2>1 DEF TrampolineStep, dvars, Progress
  <2>2. CASE w # u /\ ~TrampolineStep(w)
    BY <1>1, <1>2, <1>11, <2>2
  <2>3. CASE w = u /\ ~TrampolineStep(w)
    BY <1>3, <1>4, <1>5, <1>6, <1>7, <1>8, <1>9, <1>10, <1>11, <2>3 DEF WriterStep
  <2>4. QED
    BY <2>1, <2>2, <2>3
<1>12. ASSUME NEW w \in Callers, NEW b \in Buffers,
              UserStore(w, b) \/ \E n \in Sizes : WriteCall(w, b, n)
       PROVE  Progress(u)'
  BY <1>0, <1>12 DEF WriteCall, UserStore, Progress
<1>13. CASE (\E w \in Callers : Reschedule(w)) \/ UNCHANGED dvars
  BY <1>0, <1>13 DEF Reschedule, dvars, Progress
<1>14. QED
  BY <1>11, <1>12, <1>13 DEF JNext, Machine, jvars

\* A write that overlaps no other executes the command that stands in byte 700
\* after its copy, its own or one left by an earlier write, once and nothing
\* else, for any number of writers and any sizes.
THEOREM DeviceExecutesWhatWasAsked == JSpec => []ExecutesWhatWasAsked
<1>1. JInit => HType /\ EInv
  <2>e. <<>> \in Seq(Commands)
    OBVIOUS
  <2>1. JInit => HType
    BY <2>e DEF JInit, HType, Sums, Commands
  <2>2. JInit => EInv
    BY DEF JInit, EInv, Progress, OneWriter, Writing, Zero
  <2>3. QED
    BY <2>1, <2>2
<1>2. DInv /\ HType /\ EInv /\ [JNext]_jvars => HType' /\ EInv'
  BY StepHType, StepEInv
<1>3. DInv /\ EInv => ExecutesWhatWasAsked
  <2> SUFFICES ASSUME DInv, EInv, ~woverlap, NEW w \in Callers
               PROVE  /\ done[w] \in {<<>>, <<standing>>}
                      /\ wpc[w] = "ret" => (done[w] = <<>> <=> standing = "zero")
    BY DEF ExecutesWhatWasAsked
  <2>1. Progress(w) /\ wpc[w] \in WLabels
    BY DEF EInv, DInv, DTypeOK
  <2>2. <<standing>> # <<>>
    OBVIOUS
  <2>3. QED
    BY <2>1, <2>2 DEF Progress, WLabels
<1>4. JSpec => []DInv
  BY InitDInv, NextDInv, PTL DEF JSpec
<1>5. QED
  BY <1>1, <1>2, <1>3, <1>4, PTL DEF JSpec
-----------------------------------------------------------------------------
(* Whole pages.                                                            *)

WholePages == (\A a \in HostArgs : a.psize % Byte = 0) /\ Sizes = {4} /\ ~Racy

\* The size byte is 0 wherever a write of the host program carries it, and a
\* call of trampoline goes through both loops without a turn.
SizeZero(w) ==
    /\ wpc[w] \in {"copy_head", "copy_cmd"} => size[w] = 4
    /\ wpc[w] = "copy_cmd" => (ubuf[w].cmd = "cc" => pp.head.b2 = 0)
    /\ wpc[w] = "dispatch" => (pp.cmd = "cc" => pp.head.b2 = 0)
    /\ wpc[w] \in {"load_base", "load_size"} => pp.head.b2 = 0
    /\ wpc[w] = "load_pid" => args[w].b2 = 0
NoTurn(w) ==
    /\ pc[w] \in {"idle", "hide", "restore"}
    /\ pc[w] = "hide" => req[w].size = 0 /\ i[w] = 0
    /\ pc[w] = "restore" => i[w] = 0
WInv ==
    ~woverlap =>
        /\ OneWriter
        /\ \A w \in Callers : SizeZero(w) /\ NoTurn(w)
        /\ index = 0
        /\ pt = want

LEMMA HostSizeZero ==
    ASSUME WholePages, NEW b \in Buffers \union {Zero}, b.cmd = "cc"
    PROVE  b.head.b2 = 0
  BY DEF WholePages, Buffers, TrampolineBuffer, Zero

\* What the steps of the device do to the size byte.
LEMMA StepSizeZero ==
    ASSUME WholePages, DInv, WInv, [JNext]_jvars, ~woverlap', NEW u \in Callers
    PROVE  SizeZero(u)'
<1>0. ~woverlap /\ OneWriter /\ \A w \in Callers : SizeZero(w)
  BY StepOneWriter DEF WInv
<1> USE DEF At, To, DInv, DTypeOK
<1>1. ASSUME NEW w \in Callers, Writing(w), u # w, wpc'[u] = wpc[u]
      PROVE  SizeZero(u)'
  <2>1. wpc[u] \in {"idle", "oops"}
    BY <1>0, <1>1 DEF OneWriter, Writing
  <2>2. QED
    BY <1>1, <2>1 DEF SizeZero
<1>2. ASSUME NEW w \in Callers, WriterStep(w), ~TrampolineStep(w)
      PROVE  Writing(w) /\ (u # w => wpc'[u] = wpc[u])
  BY <1>2 DEF WriterStep, Writing, CopyHead, CopyCmd, Dispatch, LoadBase, LoadSize, CallTrampoline, WildWalk,
     TrampolineReturns, CopyPage, CrcPage, StoreCrc, SmpCall, Ptid, WriteReturns
<1>3. CASE CopyHead(u)
  <2>0. size[u] = 4
    BY <1>0, <1>3 DEF CopyHead, SizeZero
  <2>1. wpc'[u] = "copy_cmd" /\ ubuf' = ubuf /\ size' = size /\ pp'.head.b2 \in {ubuf[u].head.b2, 0}
    BY <1>3, <2>0 DEF CopyHead, CopiedHead, NoBytes
  <2>2. ubuf[u].cmd = "cc" => ubuf[u].head.b2 = 0
    BY HostSizeZero
  <2>3. QED
    BY <2>0, <2>1, <2>2 DEF SizeZero
<1>4. CASE CopyCmd(u)
  <2>1. wpc'[u] = "dispatch" /\ pp'.head = pp.head /\ pp'.cmd \in {ubuf[u].cmd, "zero"}
    BY <1>0, <1>4 DEF CopyCmd, SizeZero
  <2>2. ubuf[u].cmd = "cc" => pp.head.b2 = 0
    BY <1>0, <1>4 DEF CopyCmd, SizeZero
  <2>3. QED
    BY <2>1, <2>2 DEF SizeZero
<1>5. CASE Dispatch(u)
  <2>1. pp' = pp /\ wpc'[u] = Branch(pp.cmd, Commands) /\ (pp.cmd = "cc" => pp.head.b2 = 0)
    BY <1>0, <1>5 DEF Dispatch, SizeZero
  <2>2. wpc'[u] \in {"load_base", "copy", "smp", "ret"} /\ (wpc'[u] = "load_base" => pp.cmd = "cc")
    BY <2>1, BranchType
  <2>3. QED
    BY <2>1, <2>2 DEF SizeZero
<1>6. CASE LoadBase(u)
  BY <1>0, <1>6 DEF LoadBase, SizeZero
<1>7. CASE LoadSize(u)
  <2>1. wpc'[u] = "load_pid" /\ args'[u].b2 = pp.head.b2 /\ pp.head.b2 = 0
    BY <1>0, <1>7 DEF LoadSize, SizeZero
  <2>2. QED
    BY <2>1 DEF SizeZero
<1>8. CASE StoreCrc(u)
  <2> DEFINE left == IF cmd[u] = "aa" THEN {"bb", "dd"} ELSE {"dd"}
  <2>1. wpc'[u] = Branch(pp.cmd, left) /\ left \in SUBSET Commands /\ "cc" \notin left
    BY <1>8 DEF StoreCrc, Commands
  <2> HIDE DEF left
  <2>2. wpc'[u] \in {"copy", "smp", "ret"}
    BY <2>1, BranchType
  <2>3. QED
    BY <2>2 DEF SizeZero
<1>9. ASSUME wpc'[u] \in {"in_tramp", "oops", "ret", "crc", "store", "ipi", "idle"}
      PROVE  SizeZero(u)'
  BY <1>9 DEF SizeZero
<1>10. ASSUME NEW w \in Callers, WriterStep(w) PROVE SizeZero(u)'
  <2>1. CASE TrampolineStep(w)
    BY <1>0, <2>1 DEF TrampolineStep, dvars, SizeZero
  <2>2. CASE w # u /\ ~TrampolineStep(w)
    BY <1>1, <1>2, <1>10, <2>2
  <2>3. CASE w = u /\ ~TrampolineStep(w)
    BY <1>3, <1>4, <1>5, <1>6, <1>7, <1>8, <1>9, <1>10, <2>3
       DEF WriterStep, CallTrampoline, WildWalk, TrampolineReturns, CopyPage, CrcPage, SmpCall, Ptid, WriteReturns
  <2>4. QED
    BY <2>1, <2>2, <2>3
<1>11. ASSUME NEW w \in Callers, NEW b \in Buffers, NEW n \in Sizes, WriteCall(w, b, n) PROVE SizeZero(u)'
  <2>1. n = 4
    BY DEF WholePages
  <2>2. QED
    BY <1>0, <1>11, <2>1 DEF WriteCall, SizeZero
<1>12. ~ \E w \in Callers, b \in Buffers : UserStore(w, b)
  BY DEF UserStore, WholePages
<1>13. CASE (\E w \in Callers : Reschedule(w)) \/ UNCHANGED dvars
  BY <1>0, <1>13 DEF Reschedule, dvars, SizeZero
<1>14. QED
  BY <1>10, <1>11, <1>12, <1>13 DEF JNext, Machine, jvars

\* What they do to the trampoline and the page tables.
LEMMA StepNoTurn ==
    ASSUME WholePages, TInv, DInv, WInv, [JNext]_jvars, ~woverlap'
    PROVE  (\A u \in Callers : NoTurn(u)') /\ index' = 0 /\ pt' = want'
<1>0. /\ ~woverlap /\ OneWriter /\ \A w \in Callers : SizeZero(w) /\ NoTurn(w)
      /\ index = 0 /\ pt = want
  BY StepOneWriter DEF WInv
<1> USE PageAssumption DEF TInv, TypeOK
<1>1. CASE UNCHANGED <<pc, req, i, index, pt, want>>
  BY <1>0, <1>1 DEF NoTurn
<1>2. ASSUME NEW w \in Callers, NEW c \in Cpus, CallTrampoline(w, c)
      PROVE  (\A u \in Callers : NoTurn(u)') /\ index' = 0 /\ pt' = want'
  <2>1. DeviceRequest(Loaded(w)).size = 0
    BY <1>0, <1>2 DEF CallTrampoline, At, SizeZero, DeviceRequest, Loaded
  <2>2. Enter(w, c, DeviceRequest(Loaded(w)))
    BY <1>2 DEF CallTrampoline
  <2> DEFINE r == DeviceRequest(Loaded(w))
  <2> HIDE DEF r
  <2>3. QED
    BY <1>0, <2>1, <2>2 DEF Enter, Goto, NoTurn, r
<1>3. ASSUME NEW w \in Callers, Step(w)
      PROVE  (\A u \in Callers : NoTurn(u)') /\ index' = 0 /\ pt' = want'
  <2>1. HideDone(w) \/ Return(w)
    <3>1. pc[w] = "hide" => ~(i[w] * PageSize < req[w].size)
      BY <1>0 DEF NoTurn
    <3>2. ~HideNext(w)
      BY <3>1 DEF HideNext, Goto
    <3>3. ~RestoreNext(w)
      BY <1>0 DEF RestoreNext, Goto, NoTurn
    <3>4. QED
      BY <1>0, <1>3, <3>2, <3>3 DEF Step, SaveVir, SavePhy, Clear, LoadVir, LoadPhy, EnV2p, Goto, NoTurn
  <2>2. QED
    BY <1>0, <2>1 DEF HideDone, Return, Goto, hist, NoTurn
<1>4. ASSUME NEW p \in Pids, NEW v \in Pages, NEW f \in Frames, Remap(p, v, f)
      PROVE  (\A u \in Callers : NoTurn(u)') /\ index' = 0 /\ pt' = want'
  BY <1>0, <1>4 DEF Remap, NoTurn
<1>5. CASE \E w \in Callers : WriterStep(w)
  BY <1>1, <1>2, <1>3, <1>5
     DEF WriterStep, CopyHead, CopyCmd, Dispatch, LoadBase, LoadSize, WildWalk, TrampolineStep, TrampolineReturns,
         CopyPage, CrcPage, StoreCrc, SmpCall, Ptid, WriteReturns, vars
<1>6. CASE Machine
  BY <1>1, <1>4, <1>6 DEF Machine, Access, ReloadCr3, hist
<1>7. QED
  BY <1>1, <1>5, <1>6 DEF JNext, Reschedule, WriteCall, UserStore, jvars, vars

\* The host program's one-page requests (psize = 0x1000) hide nothing, however
\* many threads write in turn and wherever the kernel moves pages meanwhile.
THEOREM DeviceWholePages == JSpec => []WholePagesHideNothing
<1>1. JInit => WInv
  BY DEF JInit, Init, WInv, OneWriter, Writing, SizeZero, NoTurn
<1>2. ASSUME WholePages PROVE TInv /\ DInv /\ WInv /\ [JNext]_jvars => WInv'
  BY <1>2, StepOneWriter, StepSizeZero, StepNoTurn DEF WInv
<1>3. ASSUME WholePages PROVE WInv => WholePagesHideNothing
  BY DEF WInv, WholePagesHideNothing
<1>4. ASSUME ~WholePages PROVE WholePagesHideNothing
  BY <1>4 DEF WholePages, WholePagesHideNothing
<1>5. JSpec => []DInv
  BY InitDInv, NextDInv, PTL DEF JSpec
<1>6. JSpec => []TInv
  BY DeviceCallsTrampoline, TableSafe, PTL
<1>7. CASE WholePages
  BY <1>1, <1>2, <1>3, <1>5, <1>6, <1>7, PTL DEF JSpec
<1>8. CASE ~WholePages
  BY <1>4, <1>8, PTL
<1>9. QED
  BY <1>7, <1>8
=============================================================================
