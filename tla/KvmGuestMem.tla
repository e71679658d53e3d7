---------------------------- MODULE KvmGuestMem -----------------------------
(***************************************************************************)
(* How KVM reaches guest memory by virtual address on behalf of a VCPU     *)
(* (kvm/x86.c) while other VCPUs change the guest's page table and user    *)
(* space adds memory slots:                                                *)
(*   - accesses of the emulator, whose translation may come from the VCPU's*)
(*     cached MMIO page (vcpu_mmio_gva_to_gpa);                            *)
(*   - plain copies that go page by page (kvm_read_guest_virt_helper, the  *)
(*     write helper) for KVM's own reading of operands and descriptors;    *)
(*   - locked instructions (emulator_cmpxchg_emulated), here increments of *)
(*     a counter the frame holds.                                          *)
(* A page-table entry is [gfn, user, write]; gfn 0 is not present.         *)
(***************************************************************************)
EXTENDS Naturals, FiniteSets

CONSTANTS
  Vcpus,
  VPages,          \* virtual page numbers; in mmio_gva 0 says that no page is cached
  Frames,          \* guest frames; those that are not RAM are devices
  Ram0,            \* frames that are RAM at first
  Apic,            \* APIC_DEFAULT_PHYS_BASE's frame
  Ptes,            \* entries the guest may write
  MaxPte, MaxInc, MaxStd  \* bounds: changes of the page table, locked increments, copies of several pages

ASSUME MemAssumption ==
  /\ Frames \subseteq Nat \ {0} /\ Ram0 \subseteq Frames /\ Apic \in Frames \ Ram0
  /\ \A e \in Ptes : e.gfn \in Frames \cup {0}
  /\ 0 \notin VPages

Unmapped == [gfn |-> 0, user |-> FALSE, write |-> FALSE]

VARIABLES
  pt, changes,     \* the guest's page table
  memSince,           \* entries a VCPU may still have in its TLB
  ram, gen,        \* memory slots and their generation
  cpl3,            \* the VCPU is in user mode
  memCache,           \* mmio_gva, mmio_gfn, mmio_access, mmio_gen
  use,             \* the VCPU's last emulated access
  op,              \* the VCPU's copy of several pages: [page, last, user, write, strict, exc, res]
  copies,
  mem, incs, torn, \* counters in frames, increments, frames with an exchange done as a write
  locked           \* the VCPU's locked instruction: [gfn, old]

memVars == <<pt, changes, memSince, ram, gen, cpl3, memCache, use, op, copies, mem, incs, torn, locked>>

NoUse == [how |-> "none", gfn |-> 0, user |-> FALSE, write |-> FALSE, seen |-> {}, ram |-> FALSE]
NoOp == [page |-> 0, last |-> 0, user |-> FALSE, write |-> FALSE, strict |-> FALSE, exc |-> "none", res |-> "none"]
NoLock == [on |-> FALSE, page |-> 0, gfn |-> 0, old |-> 0]

MemInit ==
  /\ pt = [p \in VPages |-> Unmapped] /\ changes = 0
  /\ memSince = [v \in Vcpus |-> [p \in VPages |-> {Unmapped}]]
  /\ ram = Ram0 /\ gen = 0 /\ cpl3 = [v \in Vcpus |-> FALSE]
  /\ memCache = [v \in Vcpus |-> [page |-> 0, pte |-> Unmapped, gen |-> 0]]
  /\ use = [v \in Vcpus |-> NoUse] /\ op = [v \in Vcpus |-> NoOp] /\ copies = 0
  /\ mem = [f \in Frames |-> 0] /\ incs = [f \in Frames |-> 0] /\ torn = {}
  /\ locked = [v \in Vcpus |-> NoLock]

-----------------------------------------------------------------------------
permission_fault(e, user, write) == (user /\ ~e.user) \/ (write /\ ~e.write)
(* walk_mmu->gva_to_gpa: the frame, or 0 for UNMAPPED_GVA *)
gva_to_gpa(p, user, write) == IF permission_fault(pt[p], user, write) THEN 0 ELSE pt[p].gfn
(* kvm_mmu_gva_to_gpa_write: the CPL decides *)
kvm_mmu_gva_to_gpa_write(v, p) == gva_to_gpa(p, cpl3[v], TRUE)

(* x86.h: the cached page, of this generation of the slots *)
vcpu_match_mmio_gva(v, p) == memCache[v].page = p /\ memCache[v].gen = gen
vcpu_match_mmio_gpa(v, f) == memCache[v].page # 0 /\ memCache[v].gen = gen /\ memCache[v].pte.gfn = f

vcpu_is_mmio_gpa(v, f) == f = Apic \/ vcpu_match_mmio_gpa(v, f)

(* vcpu_mmio_gva_to_gpa: the frame and whether it is known to be a device *)
vcpu_mmio_gva_to_gpa(v, p, write) ==
  IF vcpu_match_mmio_gva(v, p) /\ ~permission_fault(memCache[v].pte, cpl3[v], write)
  THEN [gfn |-> memCache[v].pte.gfn, mmio |-> TRUE]
  ELSE LET f == gva_to_gpa(p, cpl3[v], write) IN [gfn |-> f, mmio |-> f # 0 /\ vcpu_is_mmio_gpa(v, f)]

(* An access of the emulator: memory if it may be and is, else the device *)
Access(v, p, write) ==
  LET a == vcpu_mmio_gva_to_gpa(v, p, write)
  IN  /\ use' = [use EXCEPT ![v] =
           [how |-> CASE a.gfn = 0 -> "fault" [] a.gfn # 0 /\ ~a.mmio /\ a.gfn \in ram -> "ram" [] OTHER -> "mmio",
            gfn |-> a.gfn, user |-> cpl3[v], write |-> write, seen |-> memSince[v][p], ram |-> a.gfn \in ram]]
      /\ UNCHANGED <<pt, changes, memSince, ram, gen, cpl3, memCache, op, copies, mem, incs, torn, locked>>

(* a page fault on a frame without a slot fills the cache (mmu.c) *)
CacheMmio(v, p) ==
  /\ pt[p].gfn \in Frames \ ram
  /\ memCache' = [memCache EXCEPT ![v] = [page |-> p, pte |-> pt[p], gen |-> gen]]
  /\ UNCHANGED <<pt, changes, memSince, ram, gen, cpl3, use, op, copies, mem, incs, torn, locked>>

-----------------------------------------------------------------------------
(* kvm_read_guest_virt and kvm_fetch_guest_virt (strict = FALSE: the caller injects a fault whatever *)
(* the error), emulator_read_std, emulator_write_std and kvm_write_guest_virt_system (only a fault is *)
(* injected). "zero" is the cleared exception of kvm_read_guest_virt, "stack" what was in memory. *)
StartException(strict) == IF strict THEN "stack" ELSE "zero"
(* system accesses ignore the CPL *)
UserAccess(v, system) == ~system /\ cpl3[v]
Start(v, p, last, system, write, strict) ==
  /\ op[v].page = 0 /\ copies < MaxStd /\ (write => strict) /\ (system => strict)
  /\ copies' = copies + 1
  /\ op' = [op EXCEPT ![v] = [page |-> p, last |-> last, user |-> UserAccess(v, system), write |-> write,
                              strict |-> strict, exc |-> StartException(strict), res |-> "busy"]]
  /\ UNCHANGED <<pt, changes, memSince, ram, gen, cpl3, memCache, use, mem, incs, torn, locked>>
(* what a turn of either helper makes of the page's frame *)
CopyResult(o, f) ==
  CASE f = 0 -> [o EXCEPT !.res = "propagate_fault", !.exc = "fault"]
    [] f # 0 /\ f \notin ram -> [o EXCEPT !.res = "io_needed"]
    [] f \in ram /\ o.page = o.last -> [o EXCEPT !.res = "continue"]
    [] OTHER -> [o EXCEPT !.page = @ + 1]
(* one turn of kvm_read_guest_virt_helper or kvm_write_guest_virt_helper *)
CopyPage(v) ==
  LET o == op[v]
      f == gva_to_gpa(o.page, o.user, o.write)
  IN  /\ o.res = "busy"
      /\ op' = [op EXCEPT ![v] = CopyResult(o, f)]
      /\ UNCHANGED <<pt, changes, memSince, ram, gen, cpl3, memCache, use, copies, mem, incs, torn, locked>>
(* what the caller injects into the guest *)
Injects(o) == o.res = "propagate_fault" \/ (o.res = "io_needed" /\ ~o.strict)
Done(v) ==
  /\ op[v].res \in {"continue", "propagate_fault", "io_needed"} /\ op' = [op EXCEPT ![v] = NoOp]
  /\ UNCHANGED <<pt, changes, memSince, ram, gen, cpl3, memCache, use, copies, mem, incs, torn, locked>>

-----------------------------------------------------------------------------
(* A locked increment: the emulator reads the operand ... *)
LockLoad(v, p) ==
  /\ ~locked[v].on /\ kvm_mmu_gva_to_gpa_write(v, p) \in ram
  /\ LET f == pt[p].gfn IN locked' = [locked EXCEPT ![v] = [on |-> TRUE, page |-> p, gfn |-> f, old |-> mem[f]]]
  /\ UNCHANGED <<pt, changes, memSince, ram, gen, cpl3, memCache, use, op, copies, mem, incs, torn>>
Store(v, f, atomic) ==
  /\ mem' = [mem EXCEPT ![f] = locked[v].old + 1] /\ incs' = [incs EXCEPT ![f] = @ + 1]
  /\ torn' = IF atomic THEN torn ELSE torn \cup {f}
(* ... and exchanges it; wide: more than 8 bytes, or across a page or a cache line. A failed exchange *)
(* restarts the instruction. *)
emulator_cmpxchg_emulated(v, wide) ==
  LET l == locked[v]
      f == kvm_mmu_gva_to_gpa_write(v, l.page)
      map == ~wide /\ f \in ram
  IN  /\ l.on /\ locked' = [locked EXCEPT ![v] = NoLock]
      /\ (f \in ram => incs[f] < MaxInc)
      /\ CASE map /\ mem[f] = l.old -> Store(v, f, TRUE)
           [] ~map /\ f \in ram -> Store(v, f, FALSE)
           [] OTHER -> UNCHANGED <<mem, incs, torn>>
      /\ UNCHANGED <<pt, changes, memSince, ram, gen, cpl3, memCache, use, op, copies>>

-----------------------------------------------------------------------------
(* The guest writes its page table, flushes a page (INVLPG: kvm_mmu_invlpg drops the cached MMIO page) *)
(* and changes privilege; user space adds a slot. *)
SetPte(p, e) ==
  /\ changes < MaxPte /\ e # pt[p] /\ changes' = changes + 1 /\ pt' = [pt EXCEPT ![p] = e]
  /\ memSince' = [v \in Vcpus |-> [memSince[v] EXCEPT ![p] = @ \cup {e}]]
  /\ UNCHANGED <<ram, gen, cpl3, memCache, use, op, copies, mem, incs, torn, locked>>
Flush(v, p) ==
  /\ memSince' = [memSince EXCEPT ![v][p] = {pt[p]}]
  /\ memCache' = [memCache EXCEPT ![v].page = IF @ = p THEN 0 ELSE @]
  /\ UNCHANGED <<pt, changes, ram, gen, cpl3, use, op, copies, mem, incs, torn, locked>>
SetCpl(v) ==
  /\ cpl3' = [cpl3 EXCEPT ![v] = ~@] /\ op[v].page = 0 /\ ~locked[v].on
  /\ UNCHANGED <<pt, changes, memSince, ram, gen, memCache, use, op, copies, mem, incs, torn, locked>>
AddSlot(f) ==
  /\ f \in Frames \ (ram \cup {Apic}) /\ ram' = ram \cup {f} /\ gen' = gen + 1
  /\ UNCHANGED <<pt, changes, memSince, cpl3, memCache, use, op, copies, mem, incs, torn, locked>>

MemNext ==
  \/ \E v \in Vcpus, p \in VPages :
       \/ (\E w \in BOOLEAN : Access(v, p, w)) \/ CacheMmio(v, p) \/ Flush(v, p) \/ LockLoad(v, p)
       \/ \E q \in VPages, s, w, x \in BOOLEAN : q \in p..(p + 1) /\ Start(v, p, q, s, w, x)
  \/ \E v \in Vcpus : CopyPage(v) \/ Done(v) \/ SetCpl(v) \/ (\E w \in BOOLEAN : emulator_cmpxchg_emulated(v, w))
  \/ \E p \in VPages, e \in Ptes : SetPte(p, e)
  \/ \E f \in Frames : AddSlot(f)

MemSpec == MemInit /\ [][MemNext]_memVars

-----------------------------------------------------------------------------
(* An emulated access uses a translation that a TLB could hold: one the page table had since the VCPU *)
(* flushed the page, with rights for this access, whether it came from the cache or from a walk. *)
TranslationIsTlbLike ==
  \A v \in Vcpus : LET u == use[v] IN
    u.how \in {"ram", "mmio"} => \E e \in u.seen : e.gfn = u.gfn /\ ~permission_fault(e, u.user, u.write)

(* A device access never goes to a frame that had become memory, and memory access never to a device. *)
RightPlace == \A v \in Vcpus : use[v].how \in {"ram", "mmio"} => (use[v].how = "ram") = use[v].ram

(* A fault that is injected for a failed copy carries the walk's fault or zeroes, never the contents *)
(* of kernel memory ("do not leak uninitialized kernel stack memory into cr2 and error code"). *)
InjectedIsKnown == \A v \in Vcpus : Injects(op[v]) => op[v].exc \in {"zero", "fault"}

(* Locked increments are never lost: a frame whose exchanges were all done as exchanges counts them, *)
(* whatever other VCPUs stored between the load and the exchange. *)
NoIncrementLost == \A f \in Frames \ torn : mem[f] = incs[f]
=============================================================================
