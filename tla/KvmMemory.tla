----------------------------- MODULE KvmMemory ------------------------------
(***************************************************************************)
(* Paging as the guest sets it up, in three parts: the control registers,  *)
(* the roots kept for PCIDs, and memory slots.                             *)
(***************************************************************************)
EXTENDS Naturals, FiniteSets, Sequences, SequencesExt

(***************************************************************************)
(* Control registers and EFER of a virtual CPU (kvm/x86.c): set by the     *)
(* guest (kvm_set_cr0, kvm_set_cr3, kvm_set_cr4, set_efer) and by          *)
(* userspace (KVM_SET_SREGS, KVM_SET_SREGS2), with the MMU context that is *)
(* built for them and the PDPTRs that PAE paging caches.                   *)
(*                                                                         *)
(* A register is the set of its bits that matter; a page table is named by *)
(* the CR3 that points to it, with PCID 0: KvmPcid has the others. What    *)
(* turning paging off does to asynchronous page faults is in KvmAsyncPf.   *)
(***************************************************************************)

CONSTANTS
  Tables, CregsZero,   \* values of CR3, the one it has after a reset
  Cpuids,      \* the sets of features a guest may have: "PCID", "LM", "NX", "LA57"
  Cr0Bits, Cr4Bits, EferBits,   \* the bits that are modelled
  Files        \* the register files userspace may load

(* __set_sregs, __set_sregs2: userspace may give the PDPTRs along *)
Sregs == [cr0 : SUBSET Cr0Bits, cr3 : Tables, cr4 : SUBSET Cr4Bits, efer : SUBSET EferBits,
          l : BOOLEAN, given : BOOLEAN]

ASSUME CregsAssumption ==
  /\ CregsZero \in Tables /\ Files \subseteq Sregs
  /\ Cr0Bits \subseteq {"PE", "PG", "WP", "CD", "NW"}
  /\ Cr4Bits \subseteq {"PAE", "PCIDE", "LA57", "SMEP"}
  /\ EferBits \subseteq {"LME", "LMA", "NX"}
  /\ "PE" \in Cr0Bits /\ ("LME" \in EferBits => "LMA" \in EferBits)

User == "user"

VARIABLES
  cpuid, good,      \* the guest's features; the tables whose PDPTEs are all valid
  cr0, cregsCr3, cregsCr4, efer, csL,
  pdptrs,           \* where the cached PDPTRs were read: a table, User, or "none"
  role,             \* the registers the MMU context was last reset for
  ignored           \* the PDPTRs could not be loaded for userspace, which is not told

cregsVars == <<cpuid, good, cr0, cregsCr3, cregsCr4, efer, csL, pdptrs, role, ignored>>

Role(c0, c4, e) == [cr0 |-> c0 \cap {"PG", "WP"}, cr4 |-> c4 \cap {"PAE", "LA57", "SMEP"},
                    efer |-> e \cap {"NX", "LMA"}]

CregsInit ==
  /\ cpuid \in Cpuids /\ good \in SUBSET Tables
  /\ cr0 = Cr0Bits \cap {"CD", "NW"} /\ cregsCr3 = CregsZero /\ cregsCr4 = {} /\ efer = {} /\ csL = FALSE
  /\ pdptrs = "none" /\ role = Role(cr0, cregsCr4, efer) /\ ignored = FALSE

is_paging == "PG" \in cr0
is_long_mode == "LMA" \in efer
is_pae == "PAE" \in cregsCr4
PaePaging(c0, c4, e) == "PG" \in c0 /\ "PAE" \in c4 /\ "LMA" \notin e
Changed(S, T) == (S \ T) \cup (T \ S)
(* static_call(kvm_x86_set_cr0): long mode becomes active with paging *)
Lma(c0, e) == IF "LME" \in e /\ "PG" \in c0 THEN e \cup {"LMA"} ELSE e \ {"LMA"}

(* #GP for the guest, EINVAL for userspace *)
Refuse == UNCHANGED cregsVars
Accept == UNCHANGED <<cpuid, good, csL>>
Load(t) == pdptrs' = t /\ ignored' = FALSE
Keep == UNCHANGED <<pdptrs, ignored>>

-----------------------------------------------------------------------------
(* kvm_set_cr0 *)
Cr0Loads(c0) ==
  "LME" \notin efer /\ "PG" \in c0 /\ is_pae /\ Changed(c0, cr0) \cap {"CD", "NW", "PG"} # {}
Cr0Refused(c0) ==
  \/ "NW" \in c0 /\ "CD" \notin c0
  \/ "PG" \in c0 /\ "PE" \notin c0
  \/ "LME" \in efer /\ ~is_paging /\ "PG" \in c0 /\ (~is_pae \/ csL)
  \/ Cr0Loads(c0) /\ cregsCr3 \notin good
  \/ "PG" \notin c0 /\ "PCIDE" \in cregsCr4
kvm_set_cr0(c0) ==
  /\ IF Cr0Refused(c0) THEN Refuse
     ELSE /\ Accept
          /\ cr0' = c0 /\ efer' = IF "PG" \in Changed(c0, cr0) THEN Lma(c0, efer) ELSE efer
          /\ IF Cr0Loads(c0) THEN Load(cregsCr3) ELSE Keep
          /\ role' = IF Changed(c0, cr0) \cap {"PG", "WP"} # {} THEN Role(c0, cregsCr4, efer') ELSE role
          /\ UNCHANGED <<cregsCr3, cregsCr4>>

(* kvm_lmsw: the low four bits, of which only PE can be set and not cleared *)
kvm_lmsw(msw) == kvm_set_cr0(cr0 \cup msw)

(* kvm_set_cr4 *)
Cr4Loads(c4) ==
  ~is_long_mode /\ is_paging /\ "PAE" \in c4 /\ Changed(c4, cregsCr4) \cap {"PAE", "SMEP"} # {}
Cr4Valid(c4) == ("LA57" \in c4 => "LA57" \in cpuid)
Cr4Refused(c4) ==
  \/ ~Cr4Valid(c4)
  \/ is_long_mode /\ ("PAE" \notin c4 \/ "LA57" \in Changed(c4, cregsCr4))
  \/ Cr4Loads(c4) /\ cregsCr3 \notin good
(* refused as well, but with the PDPTRs already loaded *)
PcidRefused(c4) == "PCIDE" \in c4 \ cregsCr4 /\ ("PCID" \notin cpuid \/ ~is_long_mode)
Cr4Role(c4) == Changed(c4, cregsCr4) \cap {"PAE", "LA57", "SMEP"} # {} \/ "PCIDE" \in cregsCr4 \ c4
kvm_set_cr4(c4) ==
  /\ IF Cr4Refused(c4) THEN Refuse
     ELSE /\ Accept
          /\ IF Cr4Loads(c4) THEN Load(cregsCr3) ELSE Keep
          /\ IF PcidRefused(c4) THEN UNCHANGED <<cregsCr4, role>>
             ELSE /\ cregsCr4' = c4
                  /\ role' = IF Cr4Role(c4) THEN Role(cr0, c4, efer) ELSE role
          /\ UNCHANGED <<cr0, cregsCr3, efer>>

(* kvm_set_cr3: "PDPTRs are always reloaded for PAE paging" *)
Cr3Loads == PaePaging(cr0, cregsCr4, efer)
kvm_set_cr3_cregs(t) ==
  /\ IF Cr3Loads /\ t \notin good THEN Refuse
     ELSE /\ Accept /\ cregsCr3' = t
          /\ IF Cr3Loads THEN Load(t) ELSE Keep
          /\ UNCHANGED <<cr0, cregsCr4, efer, role>>

(* set_efer, for the guest *)
set_efer(e) ==
  /\ IF \/ "LM" \notin cpuid /\ e \cap {"LME", "LMA"} # {}
        \/ "NX" \notin cpuid /\ "NX" \in e
        \/ is_paging /\ "LME" \in Changed(e, efer)
     THEN Refuse
     ELSE /\ Accept
          /\ efer' = (e \ {"LMA"}) \cup (efer \cap {"LMA"})
          /\ role' = IF "NX" \in Changed(e, efer) THEN Role(cr0, cregsCr4, efer') ELSE role
          /\ Keep /\ UNCHANGED <<cr0, cregsCr3, cregsCr4>>

(* the guest loads its code segment, writes its page tables *)
LoadCs(l) ==
  /\ (l => is_long_mode) /\ csL' = l
  /\ UNCHANGED <<cpuid, good, cr0, cregsCr3, cregsCr4, efer, pdptrs, role, ignored>>
CregsWriteTable(t) ==
  /\ good' = (good \cup {t}) \ (good \cap {t})
  /\ UNCHANGED <<cpuid, cr0, cregsCr3, cregsCr4, efer, csL, pdptrs, role, ignored>>

-----------------------------------------------------------------------------
(* kvm_is_valid_sregs *)
ValidSregs(s) ==
  /\ IF "LME" \in s.efer /\ "PG" \in s.cr0 THEN "PAE" \in s.cr4 /\ "LMA" \in s.efer
                                          ELSE "LMA" \notin s.efer /\ ~s.l
  /\ Cr4Valid(s.cr4)

SregsPae(s) == PaePaging(s.cr0, s.cr4, s.efer)
SregsReset(s) ==
  \/ cregsCr3 # s.cr3 \/ efer # s.efer \/ cr0 # s.cr0 \/ cregsCr4 # s.cr4 \/ SregsPae(s)
set_sregs(s) ==
  /\ IF ~ValidSregs(s) \/ (s.given /\ ~SregsPae(s)) THEN Refuse
     ELSE /\ csL' = s.l
          /\ cr0' = s.cr0 /\ cregsCr3' = s.cr3 /\ cregsCr4' = s.cr4 /\ efer' = s.efer
          /\ IF s.given THEN Load(User)
             ELSE IF SregsPae(s)
             THEN IF s.cr3 \in good THEN Load(s.cr3) ELSE pdptrs' = pdptrs /\ ignored' = TRUE
             ELSE Keep
          /\ role' = IF SregsReset(s) THEN Role(s.cr0, s.cr4, s.efer) ELSE role
          /\ UNCHANGED <<cpuid, good>>

(* kvm_vcpu_reset, for an INIT: "CR0.CD/NW are ... preserved"; the MMU context stays when *)
(* paging was off, because the bits it was reset for are then ignored                      *)
InitResets == is_paging
kvm_vcpu_reset ==
  /\ cr0' = cr0 \cap {"CD", "NW"} /\ cregsCr3' = CregsZero /\ cregsCr4' = {} /\ efer' = {} /\ csL' = FALSE
  /\ role' = IF InitResets THEN Role(cr0', {}, {}) ELSE role
  /\ UNCHANGED <<cpuid, good, pdptrs, ignored>>

CregsNext ==
  \/ kvm_vcpu_reset
  \/ \E c0 \in SUBSET Cr0Bits : kvm_set_cr0(c0)
  \/ kvm_lmsw({"PE"})
  \/ \E c4 \in SUBSET Cr4Bits : kvm_set_cr4(c4)
  \/ \E t \in Tables : kvm_set_cr3_cregs(t) \/ CregsWriteTable(t)
  \/ \E e \in SUBSET EferBits : set_efer(e)
  \/ \E l \in BOOLEAN : LoadCs(l)
  \/ \E s \in Files : set_sregs(s)
CregsSpec == CregsInit /\ [][CregsNext]_cregsVars

-----------------------------------------------------------------------------
(* The registers hold bits they have; the long mode of the processor is consistent, whoever *)
(* sets the registers: LMA exactly with LME and paging, and only with PAE.                    *)
CregsTypeOK ==
  /\ cr0 \subseteq Cr0Bits /\ cregsCr4 \subseteq Cr4Bits /\ efer \subseteq EferBits
  /\ cregsCr3 \in Tables /\ pdptrs \in Tables \cup {User, "none"}
  /\ is_long_mode <=> "LME" \in efer /\ is_paging
  /\ is_long_mode => is_pae

(* The MMU context is the one for the registers the guest runs with, whichever way they got *)
(* their values; without paging the other bits do not matter.                                *)
MmuFollowsRegisters ==
  role = Role(cr0, cregsCr4, efer) \/ (~is_paging /\ "PG" \notin role.cr0)

(* PAE paging walks from the table CR3 points to, not from PDPTRs cached for an earlier one *)
(* or for another mode - unless userspace gave them, or gave a table that cannot be loaded. *)
PdptrsAreCurrent ==
  PaePaging(cr0, cregsCr4, efer) => pdptrs \in {cregsCr3, User} \/ ignored

(* No instruction of the guest takes a legal combination to one no processor has: paging *)
(* without protection, NW without CD, PCIDs outside of long mode.                          *)
Legal(c0, c4, e) ==
  ("PG" \in c0 => "PE" \in c0) /\ ("NW" \in c0 => "CD" \in c0) /\ ("PCIDE" \in c4 => "LMA" \in e)
GuestStaysLegal ==
  [][Legal(cr0, cregsCr4, efer) =>
       Legal(cr0', cregsCr4', efer') \/ \E s \in Files : set_sregs(s)]_cregsVars

-----------------------------------------------------------------------------
(***************************************************************************)
(* Process-context identifiers under shadow paging (kvm/x86.c): loads of   *)
(* CR3, CR4.PCIDE and INVPCID against the roots the MMU keeps for earlier  *)
(* values of CR3, which are used again without being brought up to date.   *)
(*                                                                         *)
(* What a root translates is the version of the guest's tables it was last *)
(* synchronised with; what the guest may rely on is the version its tables *)
(* had when it last flushed the PCID. The MMU itself (mmu.c) is external.  *)
(***************************************************************************)

CONSTANTS
  Pgds,         \* page tables
  Pcids,        \* identifiers, 0 one of them
  NPrev,        \* KVM_MMU_NUM_PREV_ROOTS
  MaxVersion    \* bound on the versions of a table

ASSUME PcidAssumption == 0 \in Pcids /\ Pcids \subseteq Nat /\ NPrev \in Nat /\ MaxVersion \in Nat

Cr3s == Pgds \X Pcids
PcidNone == MaxVersion + 1
Get(r) == r[2]

VARIABLES
  mem,       \* version of each table in the guest's memory
  pcidCr3, pcide,
  prev,      \* prev_roots: the earlier values of CR3, the latest first
  shadow,    \* version the root of a CR3 translates, None without one
  pcidReqs,      \* requests: "sync", "guest"
  running,   \* the guest runs
  pcidOwed       \* version each CR3 must translate at least

pcidVars == <<mem, pcidCr3, pcide, prev, shadow, pcidReqs, running, pcidOwed>>

PcidInit ==
  /\ mem = [p \in Pgds |-> 0] /\ pcidCr3 \in Pgds \X {0} /\ pcide = FALSE
  /\ prev = <<>> /\ shadow = [r \in Cr3s |-> PcidNone] /\ pcidReqs = {} /\ running = FALSE
  /\ pcidOwed = [r \in Cr3s |-> 0]

(* kvm_get_pcid: without PCIDs everything belongs to PCID 0 *)
Pcid(r) == IF pcide THEN Get(r) ELSE 0
Free(S) == [r \in Cr3s |-> IF r \in S THEN PcidNone ELSE shadow[r]]
FreeIn(sh, S) == [r \in Cr3s |-> IF r \in S THEN PcidNone ELSE sh[r]]
(* what the processor promises for a flush of the PCIDs in P *)
Owe(P) == pcidOwed' = [r \in Cr3s |-> IF Pcid(r) \in P THEN mem[r[1]] ELSE pcidOwed[r]]

-----------------------------------------------------------------------------
PcidWriteTable(p) ==
  /\ running /\ mem[p] < MaxVersion /\ mem' = [mem EXCEPT ![p] = @ + 1]
  /\ UNCHANGED <<pcidCr3, pcide, prev, shadow, pcidReqs, running, pcidOwed>>

(* kvm_mmu_new_pgd: the current root joins the earlier ones, of which the last is dropped; *)
(* an earlier root of the new CR3 is used again as it is                                    *)
Shifted(n) == [j \in 1..n |-> IF j = 1 THEN pcidCr3 ELSE prev[j - 1]]
NewPrev(r) ==
  IF r \in Range(prev)
  THEN LET k == CHOOSE j \in DOMAIN prev : prev[j] = r
       IN  [j \in 1..Len(prev) |-> IF j <= k THEN Shifted(k)[j] ELSE prev[j]]
  ELSE Shifted(IF Len(prev) < NPrev THEN Len(prev) + 1 ELSE NPrev)
NewShadow(r) ==
  Free({q \in Cr3s : q # r /\ q \notin Range(NewPrev(r))} \cup (IF r \in Range(prev) THEN {} ELSE {r}))

(* kvm_invalidate_pcid: the root in use by request, the earlier ones at once *)
Invalidated(list, p) == {q \in Range(list) : Pcid(q) = p}

(* kvm_set_cr3, with the bit that asks to keep the translations of the PCID *)
Skips(noflush) == pcide /\ noflush
SetCr3(r, noflush) ==
  LET same == r = pcidCr3
      list == IF same THEN prev ELSE NewPrev(r)
      sh == IF same THEN shadow ELSE NewShadow(r)
  IN /\ pcidCr3' = r /\ prev' = list
     /\ IF Skips(noflush) THEN shadow' = sh /\ UNCHANGED pcidReqs
        ELSE /\ shadow' = FreeIn(sh, Invalidated(list, Pcid(r)))
             /\ pcidReqs' = pcidReqs \cup {"sync"}
kvm_set_cr3_pcid(r, noflush) ==
  /\ running
  /\ SetCr3(r, noflush) /\ running' = FALSE
  /\ IF pcide /\ noflush THEN UNCHANGED pcidOwed ELSE Owe({Pcid(r)})
  /\ UNCHANGED <<mem, pcide>>

(* kvm_set_cr4: PCIDs on, for a CR3 with PCID 0, and off, which resets the MMU context *)
OffFrees == Cr3s
SetPcide(on) ==
  /\ running /\ pcide # on /\ (on => Get(pcidCr3) = 0) /\ pcide' = on /\ running' = FALSE
  /\ IF on THEN UNCHANGED <<shadow, prev, pcidOwed>> ELSE shadow' = Free(OffFrees) /\ prev' = <<>> /\ Owe(Pcids)
  /\ UNCHANGED <<mem, pcidCr3, pcidReqs>>

(* kvm_handle_invpcid *)
InvpcidSingle(p) ==
  /\ running /\ (~pcide => p = 0) /\ running' = FALSE
  /\ shadow' = Free(Invalidated(prev, p))
  /\ pcidReqs' = IF Pcid(pcidCr3) = p THEN pcidReqs \cup {"sync"} ELSE pcidReqs
  /\ Owe({p}) /\ UNCHANGED <<mem, pcidCr3, pcide, prev>>
InvpcidAll ==
  /\ running /\ running' = FALSE /\ pcidReqs' = pcidReqs \cup {"guest"}
  /\ Owe(Pcids) /\ UNCHANGED <<mem, pcidCr3, pcide, prev, shadow>>

-----------------------------------------------------------------------------
(* vcpu_enter_guest: the requests first - kvm_mmu_sync_roots for the root in use, and        *)
(* kvm_vcpu_flush_tlb_guest, which unloads the shadow MMU; it is reloaded when it has no root *)
GuestFrees == Cr3s
PcidEnter ==
  /\ ~running /\ running' = TRUE /\ pcidReqs' = {}
  /\ LET sh == IF "guest" \in pcidReqs THEN Free(GuestFrees) ELSE shadow
     IN shadow' = [sh EXCEPT ![pcidCr3] = IF "sync" \in pcidReqs \/ @ = PcidNone THEN mem[pcidCr3[1]] ELSE @]
  /\ UNCHANGED <<mem, pcidCr3, pcide, prev, pcidOwed>>

PcidNext ==
  \/ \E p \in Pgds : PcidWriteTable(p)
  \/ \E r \in Cr3s, n \in BOOLEAN : kvm_set_cr3_pcid(r, n)
  \/ \E on \in BOOLEAN : SetPcide(on)
  \/ \E p \in Pcids : InvpcidSingle(p)
  \/ InvpcidAll \/ PcidEnter
PcidSpec == PcidInit /\ [][PcidNext]_pcidVars

-----------------------------------------------------------------------------
(* Only CR3s the MMU remembers have a root, and it remembers a bounded number of others. *)
PcidTypeOK ==
  /\ Len(prev) <= NPrev /\ pcidCr3 \notin Range(prev) /\ pcidReqs \subseteq {"sync", "guest"}
  /\ \A r \in Cr3s : shadow[r] # PcidNone => r = pcidCr3 \/ r \in Range(prev)

(* The guest never runs on translations it has flushed, however it flushed them - and in *)
(* whatever order it left the CR3 and came back to it with the flush suppressed.          *)
FlushedIsGone == running => shadow[pcidCr3] # PcidNone /\ shadow[pcidCr3] >= pcidOwed[pcidCr3]

(* A root that is kept for later is no older than what the guest has flushed, except while *)
(* a flush of everything waits for the next entry.                                          *)
KeptRootsAreCurrent ==
  "guest" \notin pcidReqs =>
    \A r \in Range(prev) : shadow[r] # PcidNone => shadow[r] >= pcidOwed[r]

-----------------------------------------------------------------------------
(***************************************************************************)
(* What x86 keeps for each memory slot (kvm/x86.c): the reverse maps, made *)
(* for all slots the first time a shadow page table needs them, the large  *)
(* pages that are ruled out, and the dirty logging of the processor.       *)
(*                                                                         *)
(* A change of the slots (kvm_main.c, external) prepares and installs the  *)
(* new slot under slots_arch_lock and commits it after releasing it; the   *)
(* ioctls that change slots exclude each other by slots_lock. A level l    *)
(* page has 2^(l - 1) frames here.                                         *)
(***************************************************************************)

CONSTANTS
  Ids,            \* slot ids
  SlotsVcpus,
  Bases, Sizes, Hvas,   \* guest frames, lengths and host frames of slots
  HasPml          \* kvm_x86_ops.cpu_dirty_log_size # 0

ASSUME MemslotAssumption ==
  /\ Bases \subseteq Nat /\ Hvas \subseteq Nat /\ Sizes \subseteq Nat \ {0} /\ HasPml \in BOOLEAN
  /\ IsFiniteSet(Ids) /\ "none" \notin Ids

Levels == 1 .. 3
Frames(l) == <<1, 2, 4>>[l]
Mapper == "mmu"
Absent == [present |-> FALSE, base |-> 0, n |-> 1, hva |-> 0, log |-> FALSE, rmap |-> {}]

VARIABLES
  slotsSlot,        \* the installed slots
  have_rmaps,  \* memslots_have_rmaps
  slotsLock,        \* who has slots_arch_lock
  todo,        \* slots the mapper has still to give reverse maps
  change,      \* a change installed but not committed: its old slot, its id
  logging,     \* cpu_dirty_logging_count
  slotsReqs,        \* VCPUs with KVM_REQ_UPDATE_CPU_DIRTY_LOGGING
  pml          \* the logging each VCPU runs with

slotsVars == <<slotsSlot, have_rmaps, slotsLock, todo, change, logging, slotsReqs, pml>>
NoChange == [id |-> "none", old |-> Absent]

SlotsInit ==
  /\ slotsSlot = [i \in Ids |-> Absent] /\ have_rmaps = FALSE /\ slotsLock = "none" /\ todo = {}
  /\ change = NoChange /\ logging = 0 /\ slotsReqs = {} /\ pml = [v \in SlotsVcpus |-> FALSE]

-----------------------------------------------------------------------------
(* Large pages: index of a frame, the pages of a slot and those ruled out.  *)
Index(gfn, base, l) == (gfn \div Frames(l)) - (base \div Frames(l))
lpages(s, l) == Index(s.base + s.n - 1, s.base, l) + 1

Ends(s, l) ==
  {p \in {0} : s.base % Frames(l) # 0}
  \cup {p \in {lpages(s, l) - 1} : (s.base + s.n) % Frames(l) # 0}
disallow_lpage(s, l) ==
  IF s.base % Frames(l) # s.hva % Frames(l) THEN 0 .. lpages(s, l) - 1 ELSE Ends(s, l)

-----------------------------------------------------------------------------
(* kvm_arch_prepare_memory_region for a new or moved slot: reverse maps only *)
(* once every slot has them; an allocation that fails leaves nothing.        *)
Rmaps == IF have_rmaps THEN Levels ELSE {}

Install(i, new) ==
  /\ slotsSlot' = [slotsSlot EXCEPT ![i] = new]
  /\ change' = [id |-> i, old |-> slotsSlot[i]]
  /\ UNCHANGED <<have_rmaps, todo, logging, slotsReqs, pml, slotsLock>>

Ready == slotsLock = "none" /\ change = NoChange
CreateOrMove(i) ==
  /\ Ready
  /\ \E b \in Bases, n \in Sizes, h \in Hvas, log \in BOOLEAN :
       /\ slotsSlot[i].present => n = slotsSlot[i].n /\ h = slotsSlot[i].hva /\ b # slotsSlot[i].base /\ log = slotsSlot[i].log
       /\ Install(i, [present |-> TRUE, base |-> b, n |-> n, hva |-> h, log |-> log, rmap |-> Rmaps])
FlagsOnly(i) ==
  /\ Ready /\ slotsSlot[i].present
  /\ Install(i, [slotsSlot[i] EXCEPT !.log = ~@])
Delete(i) ==
  /\ Ready /\ slotsSlot[i].present
  /\ Install(i, Absent)

(* kvm_mmu_update_cpu_dirty_logging *)
Counted(old, new) ==
  IF old.log # new.log
  THEN IF new.log THEN logging + 1 ELSE logging - 1
  ELSE logging
Requests(n) == {v \in SlotsVcpus : (n = 1 /\ logging = 0) \/ (n = 0 /\ logging = 1)}

(* kvm_arch_commit_memory_region, with kvm_mmu_slot_apply_flags: the memory  *)
(* of a moved or deleted slot is freed.                                      *)
kvm_arch_commit_memory_region ==
  /\ change # NoChange
  /\ \E n \in {Counted(change.old, slotsSlot[change.id])} :
       IF HasPml THEN logging' = n /\ slotsReqs' = slotsReqs \cup Requests(n)
       ELSE UNCHANGED <<logging, slotsReqs>>
  /\ change' = NoChange
  /\ UNCHANGED <<slotsSlot, have_rmaps, slotsLock, todo, pml>>

-----------------------------------------------------------------------------
(* alloc_all_memslots_rmaps, on the way to the first shadow root *)
AllocLocks ==
  /\ ~have_rmaps /\ slotsLock = "none" /\ slotsLock' = Mapper
  /\ todo' = {i \in Ids : slotsSlot[i].present}
  /\ UNCHANGED <<slotsSlot, have_rmaps, change, logging, slotsReqs, pml>>
(* memslot_rmap_alloc: a level whose allocation fails frees the slot's others *)
memslot_rmap_alloc(i) ==
  /\ slotsLock = Mapper /\ i \in todo
  /\ slotsSlot' = [slotsSlot EXCEPT ![i].rmap = Levels] /\ todo' = todo \ {i}
  /\ UNCHANGED <<have_rmaps, slotsLock, change, logging, slotsReqs, pml>>
AllocFails(i) ==
  /\ slotsLock = Mapper /\ i \in todo
  /\ slotsSlot' = [slotsSlot EXCEPT ![i].rmap = {}] /\ todo' = {} /\ slotsLock' = "none"
  /\ UNCHANGED <<have_rmaps, change, logging, slotsReqs, pml>>
AllocDone ==
  /\ slotsLock = Mapper /\ todo = {}
  /\ have_rmaps' = TRUE /\ slotsLock' = "none"
  /\ UNCHANGED <<slotsSlot, todo, change, logging, slotsReqs, pml>>

(* vcpu_enter_guest: the request takes the count as it is now *)
UpdateCpuDirtyLogging(v) ==
  /\ v \in slotsReqs /\ slotsReqs' = slotsReqs \ {v} /\ pml' = [pml EXCEPT ![v] = logging > 0]
  /\ UNCHANGED <<slotsSlot, have_rmaps, slotsLock, todo, change, logging>>

SlotsNext ==
  \/ \E i \in Ids : CreateOrMove(i) \/ FlagsOnly(i) \/ Delete(i)
                    \/ memslot_rmap_alloc(i) \/ AllocFails(i)
  \/ kvm_arch_commit_memory_region \/ AllocLocks \/ AllocDone
  \/ \E v \in SlotsVcpus : UpdateCpuDirtyLogging(v)

SlotsSpec == SlotsInit /\ [][SlotsNext]_slotsVars
-----------------------------------------------------------------------------
(* Properties *)

\* The variables keep their types.
SlotsTypeOK ==
  /\ \A i \in Ids : slotsSlot[i].rmap \subseteq Levels /\ (~slotsSlot[i].present => slotsSlot[i] = Absent)
  /\ have_rmaps \in BOOLEAN /\ slotsLock \in {"none", Mapper} /\ todo \subseteq Ids
  /\ logging \in Nat /\ slotsReqs \subseteq SlotsVcpus

\* "Ensure that memslots_have_rmaps becomes true strictly after all the rmap
\* pointers are set" (x86.c:11874): once the flag is set every slot has all
\* its reverse maps, also a slot made while they were being allocated, or
\* after an earlier attempt has failed half-way.
RmapsComplete == have_rmaps => \A i \in Ids : slotsSlot[i].present => slotsSlot[i].rmap = Levels

\* A large page that is not ruled out lies within its slot, and its host
\* frames are aligned like its guest frames.
LargePagesFit ==
  \A i \in Ids, l \in {2, 3} :
    LET s == slotsSlot[i] IN
    s.present => \A p \in (0 .. lpages(s, l) - 1) \ disallow_lpage(s, l) :
      LET first == ((s.base \div Frames(l)) + p) * Frames(l)
      IN  /\ first >= s.base /\ first + Frames(l) <= s.base + s.n
          /\ (s.hva + (first - s.base)) % Frames(l) = 0

\* Outside of a change the count is that of the slots that log, and a VCPU
\* that logs when it need not, or does not when it must, has a request.
LoggingFollows ==
  (HasPml /\ change = NoChange) =>
    /\ logging = Cardinality({i \in Ids : slotsSlot[i].log})
    /\ \A v \in SlotsVcpus : pml[v] = (logging > 0) \/ v \in slotsReqs
=============================================================================
