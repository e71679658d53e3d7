----------------------------- MODULE Trampoline -----------------------------
(***************************************************************************)
(* The kernel module va_tr23/va_tr/limit.c.  `trampoline(pi, base, size)`  *)
(* makes the pages of [base, base+size) of process pi non-present          *)
(* (laucher_non_v2p), and then writes the saved page-table entries back    *)
(* (launch_en_v2p).  The saved entries live in ONE global table `pinfo`    *)
(* with ONE global length `index`; no lock protects them, and no           *)
(* page-table lock is taken.  Every load and store of shared memory that   *)
(* another CPU could observe is a step of its own.                         *)
(*                                                                         *)
(* An address is a record [page, off]: the walk uses vaddr >> 12 only, so  *)
(* base + k * 0x1000 is [page + k, off].  A page-table entry is the frame  *)
(* it names and its present bit.  The upper levels of the walk exist for   *)
(* every page of a request (mapped user memory), and the process is alive. *)
(***************************************************************************)
EXTENDS Integers

CONSTANTS Callers,         \* kernel threads that call trampoline
          Cpus,
          Pids,
          LastPage,        \* virtual pages are 0..LastPage
          Frames,
          Owner,           \* Owner[f]: the only <<pid, page>> frame f may back
          PageSize,        \* 0x1000
          Slots,           \* length of pinfo[]: 1000
          RandomDataPage,  \* the address of random_data_page
          Touched,         \* the pages programs use meanwhile
          Requests         \* the arguments callers pass to trampoline

Pages   == 0..LastPage
Pte     == [frame : Frames, present : BOOLEAN]
Address == [page : Pages, off : 0..(PageSize - 1)]

ASSUME PageAssumption ==
    /\ LastPage \in Nat
    /\ PageSize \in Nat \ {0}
    /\ Slots \in Nat \ {0}
    /\ Cpus # {}
    /\ Frames # {}
    /\ Requests # {}
    /\ Touched \subseteq Pages
    /\ Owner \in [Frames -> Pids \X Pages]

\* A request names memory of the address space: its pages exist.
ASSUME RequestAssumption ==
    /\ \A r \in Requests : r.pid \in Pids /\ r.base \in Address /\ r.size \in Nat
    /\ \A r \in Requests : \A k \in 0..(LastPage + 1) :
          k * PageSize < r.size => r.base.page + k <= LastPage

VARIABLES
    pt,       \* pt[pid][page]: the page tables
    tlb,      \* tlb[cpu]: the translations <<pid, page>> the CPU has cached
    vir_addr, phy_addr,  \* struct PageInfo pinfo[1000], a function per field
    index,    \* int index
    pc,       \* where each caller is
    cpu,      \* the CPU it runs on (its kernel code is not preempted)
    req,      \* its arguments pi, app_baseaddr, app_size
    i,        \* the loop variable of laucher_non_v2p / launch_en_v2p
    vir, phy, \* the arguments of en_v2p; phy is also *pte as read by non_v2p
    want,     \* history: the entry the kernel last installed for each page
    raced,    \* history: pages the kernel changed inside a save/clear window
    overlap   \* history: two calls of trampoline have been active at once

vars == <<pt, tlb, vir_addr, phy_addr, index, pc, cpu, req, i, vir, phy,
          want, raced, overlap>>
hist == <<want, raced, overlap>>

Labels == {"idle", "hide", "save_vir", "save_phy", "clear",
           "restore", "load_vir", "load_phy", "store", "overrun"}

Hiding    == {"hide", "save_vir", "save_phy", "clear", "overrun"}
Restoring == {"restore", "load_vir", "load_phy", "store"}
Active(t) == pc[t] \in Hiding \union Restoring

\* Values of locals that are dead.
NoPte   == [frame |-> CHOOSE f \in Frames : TRUE, present |-> FALSE]
ZeroVir == [page |-> 0, off |-> 0]
NoCpu   == CHOOSE c \in Cpus : TRUE
NoReq   == CHOOSE r \in Requests : TRUE

\* current_vaddr = app_baseaddr + k * 0x1000
Vaddr(r, k) == [page |-> r.base.page + k, off |-> r.base.off]

\* The entry v2p, non_v2p and en_v2p arrive at: the walk from p->mm->pgd.
Walk(p, va) == pt[p][va.page]

Hidden(e) == [frame |-> e.frame, present |-> FALSE]

Init ==
    /\ want \in [Pids -> [Pages -> Pte]]
    /\ \A p \in Pids, v \in Pages : Owner[want[p][v].frame] = <<p, v>>
    /\ pt = want
    /\ tlb = [c \in Cpus |-> {}]
    /\ vir_addr = [k \in 0..(Slots - 1) |-> ZeroVir]
    /\ phy_addr = [k \in 0..(Slots - 1) |-> NoPte]
    /\ index = 0
    /\ pc = [t \in Callers |-> "idle"]
    /\ cpu = [t \in Callers |-> NoCpu]
    /\ req = [t \in Callers |-> NoReq]
    /\ i = [t \in Callers |-> 0]
    /\ vir = [t \in Callers |-> ZeroVir]
    /\ phy = [t \in Callers |-> NoPte]
    /\ raced = {}
    /\ overlap = FALSE

Goto(t, from, to) == pc[t] = from /\ pc' = [pc EXCEPT ![t] = to]
FlushLocal(t)     == tlb' = [tlb EXCEPT ![cpu[t]] = {}]

-----------------------------------------------------------------------------
\* trampoline(): reload cr3 and enter laucher_non_v2p with i = 0.
Enter(t, c, r) ==
    /\ \A u \in Callers : Active(u) => cpu[u] # c
    /\ Goto(t, "idle", "hide")
    /\ cpu' = [cpu EXCEPT ![t] = c]
    /\ req' = [req EXCEPT ![t] = r]
    /\ i' = [i EXCEPT ![t] = 0]
    /\ tlb' = [tlb EXCEPT ![c] = {}]
    /\ overlap' = (overlap \/ \E u \in Callers : Active(u))
    /\ UNCHANGED <<pt, vir_addr, phy_addr, index, vir, phy, want, raced>>

\* Faulty variants of the steps below, named for the bug they add.  They are
\* part of no specification; each is a bug the properties must notice.

\* The loop counts bytes, not pages.
HideNextByBytes(t) ==
    /\ i[t] < req[t].size
    /\ Vaddr(req[t], i[t]) # RandomDataPage
    /\ Goto(t, "hide", IF i[t] < Slots THEN "save_vir" ELSE "overrun")
    /\ FlushLocal(t)
    /\ UNCHANGED <<pt, vir_addr, phy_addr, index, cpu, req, i, vir, phy, hist>>

\* page_size <= app_size
HideNextInclusive(t) ==
    /\ i[t] * PageSize <= req[t].size
    /\ Vaddr(req[t], i[t]) # RandomDataPage
    /\ Goto(t, "hide", IF i[t] < Slots THEN "save_vir" ELSE "overrun")
    /\ FlushLocal(t)
    /\ UNCHANGED <<pt, vir_addr, phy_addr, index, cpu, req, i, vir, phy, hist>>

\* pinfo[index].phy_addr = *pte
SavePhyAtIndex(t) ==
    LET e == Walk(req[t].pid, Vaddr(req[t], i[t]))
    IN  /\ Goto(t, "save_phy", "clear")
        /\ phy_addr' = [phy_addr EXCEPT ![index] = e]
        /\ phy' = [phy EXCEPT ![t] = e]
        /\ UNCHANGED <<pt, tlb, vir_addr, index, cpu, req, i, vir, hist>>

\* No flush after the store.
ClearNoFlush(t) ==
    /\ Goto(t, "clear", "hide")
    /\ pt' = [pt EXCEPT ![req[t].pid][Vaddr(req[t], i[t]).page] = Hidden(phy[t])]
    /\ i' = [i EXCEPT ![t] = @ + 1]
    /\ phy' = [phy EXCEPT ![t] = NoPte]
    /\ UNCHANGED <<tlb, vir_addr, phy_addr, index, cpu, req, vir, hist>>

\* index is one too large, or is not set.
HideDoneIndex(t, n) ==
    /\ \/ ~(i[t] * PageSize < req[t].size)
       \/ Vaddr(req[t], i[t]) = RandomDataPage
    /\ Goto(t, "hide", "restore")
    /\ index' = n
    /\ i' = [i EXCEPT ![t] = 0]
    /\ UNCHANGED <<pt, tlb, vir_addr, phy_addr, cpu, req, vir, phy, hist>>

HideDoneNoIndex(t)  == HideDoneIndex(t, index)

\* The loop ends one page early.
HideDoneEarly(t) ==
    /\ (i[t] + 1) * PageSize >= req[t].size
    /\ Goto(t, "hide", "restore")
    /\ index' = i[t]
    /\ i' = [i EXCEPT ![t] = 0]
    /\ UNCHANGED <<pt, tlb, vir_addr, phy_addr, cpu, req, vir, phy, hist>>

\* The restoring loop does not advance.
EnV2pStuck(t) ==
    /\ Goto(t, "store", "restore")
    /\ pt' = [pt EXCEPT ![req[t].pid][vir[t].page] = phy[t]]
    /\ vir' = [vir EXCEPT ![t] = ZeroVir]
    /\ phy' = [phy EXCEPT ![t] = NoPte]
    /\ UNCHANGED <<tlb, vir_addr, phy_addr, index, cpu, req, i, hist>>

-----------------------------------------------------------------------------
\* laucher_non_v2p: one more page to hide.
HideNext(t) ==
    /\ i[t] * PageSize < req[t].size
    /\ Vaddr(req[t], i[t]) # RandomDataPage
    /\ Goto(t, "hide", IF i[t] < Slots THEN "save_vir" ELSE "overrun")
    /\ FlushLocal(t)
    /\ UNCHANGED <<pt, vir_addr, phy_addr, index, cpu, req, i, vir, phy, hist>>

\* non_v2p: pinfo[i].vir_addr = vaddr
SaveVir(t) ==
    /\ Goto(t, "save_vir", "save_phy")
    /\ vir_addr' = [vir_addr EXCEPT ![i[t]] = Vaddr(req[t], i[t])]
    /\ UNCHANGED <<pt, tlb, phy_addr, index, cpu, req, i, vir, phy, hist>>

\* non_v2p: pinfo[i].phy_addr = *pte
SavePhy(t) ==
    LET e == Walk(req[t].pid, Vaddr(req[t], i[t]))
    IN  /\ Goto(t, "save_phy", "clear")
        /\ phy_addr' = [phy_addr EXCEPT ![i[t]] = e]
        /\ phy' = [phy EXCEPT ![t] = e]
        /\ UNCHANGED <<pt, tlb, vir_addr, index, cpu, req, i, vir, hist>>

\* non_v2p: *pte = *pte & ~1.  The load may be the one already made for the
\* save (nothing is volatile) or a fresh one.  Only this CPU is flushed.
Clear(t) ==
    /\ Goto(t, "clear", "hide")
    /\ \E e \in {phy[t], Walk(req[t].pid, Vaddr(req[t], i[t]))} :
          pt' = [pt EXCEPT ![req[t].pid][Vaddr(req[t], i[t]).page] = Hidden(e)]
    /\ FlushLocal(t)
    /\ i' = [i EXCEPT ![t] = @ + 1]
    /\ phy' = [phy EXCEPT ![t] = NoPte]
    /\ UNCHANGED <<vir_addr, phy_addr, index, cpu, req, vir, hist>>

\* The loop ends, or stops at random_data_page: index = i.
HideDone(t) ==
    /\ \/ ~(i[t] * PageSize < req[t].size) /\ UNCHANGED tlb
       \/ i[t] * PageSize < req[t].size /\ Vaddr(req[t], i[t]) = RandomDataPage /\ FlushLocal(t)
    /\ Goto(t, "hide", "restore")
    /\ index' = i[t]
    /\ i' = [i EXCEPT ![t] = 0]
    /\ UNCHANGED <<pt, vir_addr, phy_addr, cpu, req, vir, phy, hist>>

\* launch_en_v2p: for (i = 0; i < index; i++), index read again every time.
RestoreNext(t) ==
    /\ i[t] < index
    /\ Goto(t, "restore", "load_vir")
    /\ FlushLocal(t)
    /\ UNCHANGED <<pt, vir_addr, phy_addr, index, cpu, req, i, vir, phy, hist>>

\* The two fields of pinfo[i] are read by separate loads.
LoadVir(t) ==
    /\ Goto(t, "load_vir", "load_phy")
    /\ vir' = [vir EXCEPT ![t] = vir_addr[i[t]]]
    /\ UNCHANGED <<pt, tlb, vir_addr, phy_addr, index, cpu, req, i, phy, hist>>

LoadPhy(t) ==
    /\ Goto(t, "load_phy", "store")
    /\ phy' = [phy EXCEPT ![t] = phy_addr[i[t]]]
    /\ UNCHANGED <<pt, tlb, vir_addr, phy_addr, index, cpu, req, i, vir, hist>>

\* en_v2p: *pte = phy_addr, without a flush.
EnV2p(t) ==
    /\ Goto(t, "store", "restore")
    /\ pt' = [pt EXCEPT ![req[t].pid][vir[t].page] = phy[t]]
    /\ i' = [i EXCEPT ![t] = @ + 1]
    /\ vir' = [vir EXCEPT ![t] = ZeroVir]
    /\ phy' = [phy EXCEPT ![t] = NoPte]
    /\ UNCHANGED <<tlb, vir_addr, phy_addr, index, cpu, req, hist>>

Return(t) ==
    /\ ~(i[t] < index)
    /\ Goto(t, "restore", "idle")
    /\ cpu' = [cpu EXCEPT ![t] = NoCpu]
    /\ req' = [req EXCEPT ![t] = NoReq]
    /\ i' = [i EXCEPT ![t] = 0]
    /\ UNCHANGED <<pt, tlb, vir_addr, phy_addr, index, vir, phy, hist>>

-----------------------------------------------------------------------------
(* The rest of the machine, as limit.c meets it.                           *)

\* The MMU of CPU c caches a present entry, for a program that uses the page
\* or speculatively.
Access(c, p, v) ==
    /\ pt[p][v].present
    /\ tlb' = [tlb EXCEPT ![c] = @ \union {<<p, v>>}]
    /\ UNCHANGED <<pt, vir_addr, phy_addr, index, pc, cpu, req, i, vir, phy, hist>>

\* CPU c reloads cr3: a context switch, or a read of the device (jxdev_read).
ReloadCr3(c) ==
    /\ tlb' = [tlb EXCEPT ![c] = {}]
    /\ UNCHANGED <<pt, vir_addr, phy_addr, index, pc, cpu, req, i, vir, phy, hist>>

InWindow(p, v) ==
    \E t \in Callers : /\ pc[t] = "clear"
                       /\ req[t].pid = p
                       /\ req[t].base.page + i[t] = v

\* The kernel moves a present page (copy on write, migration) under the
\* page-table lock limit.c does not take, and flushes every CPU.
Remap(p, v, f) ==
    /\ pt[p][v].present
    /\ Owner[f] = <<p, v>>
    /\ pt' = [pt EXCEPT ![p][v] = [frame |-> f, present |-> TRUE]]
    /\ want' = [want EXCEPT ![p][v] = [frame |-> f, present |-> TRUE]]
    /\ raced' = IF InWindow(p, v) THEN raced \union {<<p, v>>} ELSE raced
    /\ tlb' = [c \in Cpus |-> tlb[c] \ {<<p, v>>}]
    /\ UNCHANGED <<vir_addr, phy_addr, index, pc, cpu, req, i, vir, phy, overlap>>

Step(t) ==
    \/ HideNext(t) \/ SaveVir(t) \/ SavePhy(t) \/ Clear(t) \/ HideDone(t)
    \/ RestoreNext(t) \/ LoadVir(t) \/ LoadPhy(t) \/ EnV2p(t) \/ Return(t)

Next ==
    \/ \E t \in Callers : Step(t)
    \/ \E t \in Callers, c \in Cpus, r \in Requests : Enter(t, c, r)
    \/ \E c \in Cpus, p \in Pids, v \in Touched : Access(c, p, v)
    \/ \E c \in Cpus : ReloadCr3(c)
    \/ \E p \in Pids, v \in Pages, f \in Frames : Remap(p, v, f)

Spec     == Init /\ [][Next]_vars
\* Kernel code that never sleeps runs to its end on its CPU.
FairSpec == Spec /\ \A t \in Callers : WF_vars(Step(t))

-----------------------------------------------------------------------------
TypeOK ==
    /\ pt \in [Pids -> [Pages -> Pte]]
    /\ tlb \in [Cpus -> SUBSET (Pids \X Pages)]
    /\ vir_addr \in [0..(Slots - 1) -> Address]
    /\ phy_addr \in [0..(Slots - 1) -> Pte]
    /\ index \in 0..(LastPage + 1)
    /\ pc \in [Callers -> Labels]
    /\ cpu \in [Callers -> Cpus]
    /\ req \in [Callers -> Requests]
    /\ i \in [Callers -> 0..(LastPage + 1)]
    /\ vir \in [Callers -> Address]
    /\ phy \in [Callers -> Pte]
    /\ want \in [Pids -> [Pages -> Pte]]
    /\ raced \subseteq Pids \X Pages
    /\ overlap \in BOOLEAN

\* The pages a call has made non-present and not yet restored.
HiddenBy(t) ==
    {v \in Pages : LET k == v - req[t].base.page
                   IN  \/ pc[t] \in Hiding /\ 0 <= k /\ k < i[t]
                       \/ pc[t] \in Restoring /\ i[t] <= k /\ k < index}

\* As long as no two calls overlapped, the page tables are exactly what the
\* kernel installed, with the present bit cleared on the pages the running
\* call has hidden and not yet restored; in particular a finished call leaves
\* no page hidden and no page changed.  Excepted are the pages whose entry the
\* kernel changed between non_v2p's load (limit.c:134) and its store
\* (limit.c:136).
PageTableExact ==
    ~overlap =>
        \A p \in Pids, v \in Pages : <<p, v>> \notin raced =>
            pt[p][v] = IF \E t \in Callers : req[t].pid = p /\ v \in HiddenBy(t)
                       THEN Hidden(want[p][v])
                       ELSE want[p][v]

\* While a call keeps a page hidden, the CPU it runs on cannot reach the page
\* through a cached translation: the flush follows the store of every entry.
\* (Other CPUs are never flushed; the property is false for them.)
HiddenLocally ==
    ~overlap =>
        \A t \in Callers : \A v \in HiddenBy(t) :
            <<req[t].pid, v>> \notin tlb[cpu[t]]

\* When the hiding loop of a page-aligned request is over, every byte of
\* [base, base + size) below random_data_page is on a non-present page.
HidesWholeRange ==
    \A t \in Callers :
        (/\ ~overlap
         /\ pc[t] = "restore"
         /\ i[t] = 0
         /\ req[t].base.off = 0) =>
            \A a \in 0..(req[t].size - 1) :
                LET k == a \div PageSize
                IN  \/ ~pt[req[t].pid][req[t].base.page + k].present
                    \/ \E j \in 0..k : Vaddr(req[t], j) = RandomDataPage

\* A call writes past pinfo[] exactly when it has more than Slots pages to
\* hide: the table has no bound check (limit.c:235-249), its length is the
\* only protection.
OverrunOnlyIfTooBig ==
    \A t \in Callers :
        /\ pc[t] = "overrun" => req[t].size > Slots * PageSize
        /\ pc[t] \in Restoring /\ req[t].size > Slots * PageSize =>
              \E k \in 0..Slots : Vaddr(req[t], k) = RandomDataPage

\* Even when calls overlap and mix each other's saved entries, a page is never
\* mapped to the frame of another page, provided all calls hide the same
\* process from the same base: slot k of pinfo then always belongs to page
\* base + k.
SameTarget ==
    \A r, s \in Requests : r.pid = s.pid /\ r.base = s.base

FramesIntact ==
    SameTarget => \A p \in Pids, v \in Pages : Owner[pt[p][v].frame] = <<p, v>>

\* Every call of trampoline returns, whatever the other callers do to index,
\* unless it runs past the table.
CallsReturn ==
    \A t \in Callers : pc[t] = "hide" ~> pc[t] \in {"idle", "overrun"}
=============================================================================
