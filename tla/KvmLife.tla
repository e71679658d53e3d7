------------------------------ MODULE KvmLife -------------------------------
(***************************************************************************)
(* From the load of the module to the calls of user space, in six parts:   *)
(* the module, a VM's life, the creation of a virtual CPU, the             *)
(* configuration of a VM, capabilities, and the calls on a virtual CPU.    *)
(***************************************************************************)
EXTENDS Naturals, FiniteSets, Sequences, SequencesExt, TLC

(***************************************************************************)
(* Loading and unloading of the hypervisor (kvm_arch_init, kvm_arch_exit   *)
(* and kvm_arch_hardware_setup of kvm/x86.c), while the kernel's clock     *)
(* notifies it of changes: the notifier queues an interrupt work, which    *)
(* queues a work, whose code is gone once the module is.                   *)
(***************************************************************************)

CONSTANTS
  Vendors,      \* the modules that may be loaded: "vmx", "svm"
  Supported,    \* those this processor supports
  ModuleMaxLoads      \* bound on the attempts to load

ASSUME ModuleAssumption == Supported \subseteq Vendors /\ ModuleMaxLoads \in Nat

VARIABLES
  modulePc,           \* where the module that is being loaded or unloaded is, or "absent", "loaded"
  who,          \* which module that is
  ops,          \* kvm_x86_ops.hardware_enable is set
  moduleHeld,         \* caches, per-processor values and registrations
  irq_work, work,    \* "idle", "queued"
  moduleLoads

moduleVars == <<modulePc, who, ops, moduleHeld, irq_work, work, moduleLoads>>

Caches == <<"fpu_cache", "emulator_cache", "percpu", "mmu">>
Callbacks == {"cpufreq", "perf", "gtod"}

ModuleInit ==
  /\ modulePc = "absent" /\ who = "none" /\ ops = FALSE /\ moduleHeld = {} /\ irq_work = "idle" /\ work = "idle"
  /\ moduleLoads = 0

-----------------------------------------------------------------------------
(* kvm_arch_init: refused without support, in the BIOS or with another module there *)
Begin(v) ==
  /\ modulePc = "absent" /\ moduleLoads < ModuleMaxLoads /\ moduleLoads' = moduleLoads + 1
  /\ IF ops \/ v \notin Supported THEN UNCHANGED <<modulePc, who>> ELSE modulePc' = "init" /\ who' = v
  /\ UNCHANGED <<ops, moduleHeld, irq_work, work>>

Got == Cardinality(moduleHeld \cap Range(Caches))
ModuleGet ==
  /\ modulePc = "init" /\ Got < Len(Caches)
  /\ moduleHeld' = moduleHeld \cup {Caches[Got + 1]}
  /\ UNCHANGED <<modulePc, who, ops, irq_work, work, moduleLoads>>
(* the error path gives back what there is *)
Undone(n) == {Caches[i] : i \in 1 .. n}
GetFails ==
  /\ modulePc = "init" /\ Got < Len(Caches)
  /\ moduleHeld' = moduleHeld \ Undone(Got) /\ modulePc' = "absent" /\ who' = "none"
  /\ UNCHANGED <<ops, irq_work, work, moduleLoads>>
Register ==
  /\ modulePc = "init" /\ Got = Len(Caches)
  /\ moduleHeld' = moduleHeld \cup Callbacks /\ modulePc' = "setup"
  /\ UNCHANGED <<who, ops, irq_work, work, moduleLoads>>

(* kvm_arch_hardware_setup; when it fails kvm_init (kvm_main.c) calls kvm_arch_exit *)
kvm_arch_hardware_setup ==
  /\ modulePc = "setup"
  /\ \/ ops' = TRUE /\ modulePc' = "loaded"
     \/ modulePc' = "exit" /\ UNCHANGED ops
  /\ UNCHANGED <<who, moduleHeld, irq_work, work, moduleLoads>>

-----------------------------------------------------------------------------
(* kvm_arch_exit *)
ModuleUnload ==
  /\ modulePc = "loaded" /\ modulePc' = "exit"
  /\ UNCHANGED <<who, ops, moduleHeld, irq_work, work, moduleLoads>>
Unregister ==
  /\ modulePc = "exit" /\ moduleHeld' = moduleHeld \ Callbacks /\ modulePc' = "irq_work_sync"
  /\ UNCHANGED <<who, ops, irq_work, work, moduleLoads>>
(* waits for the interrupt work, so that it cannot queue the work any more *)
irq_work_sync ==
  /\ modulePc = "irq_work_sync" /\ irq_work = "idle" /\ modulePc' = "cancel_work"
  /\ UNCHANGED <<who, ops, moduleHeld, irq_work, work, moduleLoads>>
cancel_work_sync ==
  /\ modulePc = "cancel_work" /\ work' = "idle" /\ modulePc' = "free"
  /\ UNCHANGED <<who, ops, moduleHeld, irq_work, moduleLoads>>
ModuleFree ==
  /\ modulePc = "free" /\ ops' = FALSE /\ moduleHeld' = moduleHeld \ Undone(Len(Caches)) /\ modulePc' = "absent" /\ who' = "none"
  /\ UNCHANGED <<irq_work, work, moduleLoads>>

-----------------------------------------------------------------------------
(* the clock no longer runs on the TSC *)
pvclock_gtod_notify ==
  /\ "gtod" \in moduleHeld /\ irq_work' = "queued"
  /\ UNCHANGED <<modulePc, who, ops, moduleHeld, work, moduleLoads>>
pvclock_irq_work_fn ==
  /\ irq_work = "queued" /\ irq_work' = "idle" /\ work' = "queued"
  /\ UNCHANGED <<modulePc, who, ops, moduleHeld, moduleLoads>>
pvclock_gtod_update_fn ==
  /\ work = "queued" /\ work' = "idle"
  /\ UNCHANGED <<modulePc, who, ops, moduleHeld, irq_work, moduleLoads>>

Exit == Unregister \/ irq_work_sync \/ cancel_work_sync \/ ModuleFree
ModuleLoad == ModuleGet \/ GetFails \/ Register \/ kvm_arch_hardware_setup
ModuleNext ==
  \/ \E v \in Vendors : Begin(v)
  \/ ModuleLoad \/ ModuleUnload \/ Exit
  \/ pvclock_gtod_notify \/ pvclock_irq_work_fn \/ pvclock_gtod_update_fn

(* interrupts are served, and the loading thread runs on *)
ModuleSpec == ModuleInit /\ [][ModuleNext]_moduleVars /\ WF_moduleVars(Exit) /\ WF_moduleVars(pvclock_irq_work_fn)
-----------------------------------------------------------------------------
(* Properties *)

\* The variables keep their types, and a failed or unloaded module leaves
\* neither memory nor registrations behind.
NothingLeft ==
  /\ irq_work \in {"idle", "queued"} /\ work \in {"idle", "queued"} /\ ops \in BOOLEAN
  /\ modulePc = "absent" => moduleHeld = {} /\ ~ops

\* No work of the module is pending when its code is gone, however the clock's
\* notifications fall into the unloading.
NoWorkAfterExit == modulePc = "absent" => irq_work = "idle" /\ work = "idle"

\* Unloading ends although the notifier may have queued work at any time.
ExitEnds == modulePc = "exit" ~> modulePc = "absent"

-----------------------------------------------------------------------------
(***************************************************************************)
(* A VM from kvm_arch_init_vm to kvm_arch_destroy_vm (kvm/x86.c): its      *)
(* VCPUs, the delayed works of its clock, which schedule each other, and   *)
(* the internal memory slots, each of them in both address spaces and      *)
(* backed by a mapping of the process.                                     *)
(*                                                                         *)
(* kvm_main.c (external) destroys the VM when the last file is closed: no  *)
(* VCPU runs then. The process that closes it may be another one than the  *)
(* one that created it.                                                    *)
(***************************************************************************)

CONSTANTS
  VmVcpus,
  First,       \* the VCPU with index 0
  Regions,     \* the internal slots: TSS, identity map, APIC access page
  MaxMaps      \* bound on the mappings

ASSUME LifeAssumption == First \in VmVcpus /\ MaxMaps \in Nat

Spaces == 0 .. 1
NoHva == 0

VARIABLES
  vmState,          \* "none", "failed", "live", then the steps of the destruction, "freed"
  online,      \* VCPUs
  mmu,         \* VCPUs whose MMU is loaded
  sync_work, update_work,    \* kvmclock_sync_work and kvmclock_update_work are queued
  hva,         \* address of a region in each address space
  maps,        \* mappings of the process
  fresh,       \* next address
  ours,        \* the process that destroys is the one that created
  page_track,  \* what kvm_page_track_init took is held
  stray        \* history: mappings of a call of __x86_set_memory_region that failed half-way

regionVars == <<hva, maps, fresh, stray>>
vmVars == <<vmState, online, mmu, sync_work, update_work, hva, maps, fresh, ours, page_track, stray>>

VmInit ==
  /\ vmState = "none" /\ online = {} /\ mmu = {} /\ sync_work = FALSE /\ update_work = FALSE
  /\ hva = [r \in Regions |-> [s \in Spaces |-> NoHva]] /\ maps = {} /\ fresh = 1 /\ ours = TRUE
  /\ page_track = FALSE /\ stray = {}

(* refused with a type or without memory for the page track; when the vendor's vm_init fails *)
(* kvm_create_vm (external) frees the VM without kvm_arch_destroy_vm                         *)
kvm_arch_init_vm ==
  /\ vmState = "none"
  /\ \/ vmState' = "live" /\ page_track' = TRUE
     \/ vmState' = "failed" /\ page_track' \in BOOLEAN
  /\ UNCHANGED <<online, mmu, sync_work, update_work, ours, regionVars>>

(* kvm_arch_vcpu_postcreate: the first VCPU starts the periodic work, unless it is killed *)
kvm_arch_vcpu_postcreate(v) ==
  /\ vmState = "live" /\ v \notin online /\ online' = online \cup {v}
  /\ (v # First => First \in online)
  /\ \/ v = First /\ sync_work' = TRUE
     \/ UNCHANGED sync_work
  /\ UNCHANGED <<vmState, mmu, update_work, ours, page_track, regionVars>>

(* a VCPU runs: its MMU is loaded, and it may ask for a new clock *)
Run(v) ==
  /\ vmState = "live" /\ v \in online /\ mmu' = mmu \cup {v} /\ update_work' \in {update_work, TRUE}
  /\ UNCHANGED <<vmState, online, sync_work, ours, page_track, regionVars>>

kvmclock_sync_fn ==
  /\ sync_work /\ update_work' = TRUE /\ UNCHANGED sync_work
  /\ UNCHANGED <<vmState, online, mmu, ours, page_track, regionVars>>
kvmclock_update_fn ==
  /\ update_work /\ update_work' = FALSE
  /\ UNCHANGED <<vmState, online, mmu, sync_work, ours, page_track, regionVars>>

-----------------------------------------------------------------------------
(* __x86_set_memory_region with a size: -EEXIST if the slot is there; the slot of either address *)
(* space may fail, and the mapping stays then                                                    *)
AddRegion(r) ==
  /\ vmState = "live" /\ hva[r][0] = NoHva /\ fresh <= MaxMaps
  /\ maps' = maps \cup {fresh} /\ fresh' = fresh + 1
  /\ \E done \in SUBSET Spaces :
       /\ 1 \in done => 0 \in done
       /\ hva' = [hva EXCEPT ![r] = [s \in Spaces |-> IF s \in done THEN fresh ELSE @[s]]]
       /\ stray' = IF done = Spaces THEN stray ELSE stray \cup {fresh}
  /\ UNCHANGED <<vmState, online, mmu, sync_work, update_work, ours, page_track>>

(* with size 0: out of one address space after the other, as far as it gets; only then the mapping *)
(* goes. A slot that is not there cannot be removed.                                               *)
Removable(r, d) ==
  /\ d \in SUBSET Spaces /\ (1 \in d => 0 \in d)
  /\ \A s \in d : hva[r][s] # NoHva

-----------------------------------------------------------------------------
VmClose ==
  /\ vmState = "live" /\ vmState' = "sync" /\ ours' \in BOOLEAN
  /\ UNCHANGED <<online, mmu, sync_work, update_work, page_track, regionVars>>
(* kvm_arch_sync_events: the work that schedules the other one first *)
CancelSync ==
  /\ vmState = "sync" /\ sync_work' = FALSE /\ vmState' = "sync2"
  /\ UNCHANGED <<online, mmu, update_work, ours, page_track, regionVars>>
CancelUpdate ==
  /\ vmState = "sync2" /\ update_work' = FALSE /\ vmState' = "regions"
  /\ UNCHANGED <<online, mmu, sync_work, ours, page_track, regionVars>>
(* kvm_arch_destroy_vm *)
FreeRegions ==
  /\ vmState = "regions" /\ vmState' = "unload"
  /\ IF ours
     THEN \E done \in [Regions -> SUBSET Spaces] :
            /\ \A r \in Regions : Removable(r, done[r])
            /\ hva' = [r \in Regions |-> [s \in Spaces |-> IF s \in done[r] THEN NoHva ELSE hva[r][s]]]
            /\ maps' = maps \ {hva[r][0] : r \in {q \in Regions : done[q] = Spaces}}
            /\ stray' = stray \cup {hva[r][0] : r \in {q \in Regions : done[q] # Spaces /\ hva[q][0] # NoHva}}
     ELSE UNCHANGED <<maps, hva, stray>>
  /\ UNCHANGED <<online, mmu, sync_work, update_work, fresh, ours, page_track>>
(* kvm_free_vcpus: all MMUs are unloaded before the first VCPU goes *)
kvm_unload_vcpu_mmu(v) ==
  /\ vmState = "unload" /\ v \in mmu /\ mmu' = mmu \ {v}
  /\ UNCHANGED <<vmState, online, sync_work, update_work, ours, page_track, regionVars>>
Unloaded == mmu = {}
kvm_vcpu_destroy(v) ==
  /\ vmState \in {"unload", "vcpus"} /\ Unloaded /\ v \in online
  /\ vmState' = "vcpus" /\ online' = online \ {v}
  /\ UNCHANGED <<mmu, sync_work, update_work, ours, page_track, regionVars>>
FreeVmEmpty ==
  /\ vmState = "vcpus" /\ online = {} /\ vmState' = "freed" /\ page_track' = FALSE
  /\ UNCHANGED <<online, mmu, sync_work, update_work, ours, regionVars>>
FreeVm ==
  /\ vmState \in {"unload", "vcpus"} /\ online = {} /\ vmState' = "freed" /\ page_track' = FALSE
  /\ UNCHANGED <<online, mmu, sync_work, update_work, ours, regionVars>>

Destroy ==
  \/ CancelSync \/ CancelUpdate \/ FreeRegions \/ FreeVm
  \/ \E v \in VmVcpus : kvm_unload_vcpu_mmu(v) \/ kvm_vcpu_destroy(v)
VmNext ==
  \/ kvm_arch_init_vm \/ VmClose \/ Destroy \/ kvmclock_sync_fn \/ kvmclock_update_fn
  \/ \E v \in VmVcpus : kvm_arch_vcpu_postcreate(v) \/ Run(v)
  \/ \E r \in Regions : AddRegion(r)

VmSpec == VmInit /\ [][VmNext]_vmVars /\ WF_vmVars(Destroy)
-----------------------------------------------------------------------------
(* Properties *)

\* No work of the VM is queued when its memory is freed, although the
\* periodic one queues itself and the other at any time.
NoWorkAfterFree == vmState \in {"unload", "vcpus", "freed"} => ~sync_work /\ ~update_work

\* "Unpin any mmu pages first" (x86.c:11668): while a VCPU is destroyed no
\* other VCPU has its MMU loaded.
UnpinnedFirst == vmState \in {"vcpus", "freed"} => mmu = {}

\* "the GPA->HVA translation will not change" until the VM is destroyed
\* (x86.c:11711): an address, once returned, stays.
TranslationStays ==
  [][vmState = "live" => \A r \in Regions, s \in Spaces : hva[r][s] # NoHva => hva'[r][s] = hva[r][s]]_vmVars

\* An address of a region is mapped as long as the slot is there, in either
\* address space.
SlotsAreMapped == \A r \in Regions, s \in Spaces : hva[r][s] # NoHva => hva[r][s] \in maps

\* kvm_arch_destroy_vm by the process that made them takes the mappings of
\* the internal slots out of it, all but those of a call that failed
\* half-way, which nothing remembers (x86.c:11757-11763).
MapsGivenBack == vmState \in {"unload", "vcpus", "freed"} /\ ours => maps \subseteq stray

\* What kvm_page_track_init took is there as long as the VM is used and gone
\* with it.
PageTrackHeld ==
  /\ vmState \notin {"none", "failed", "freed"} => page_track
  /\ vmState = "freed" => ~page_track

\* A VM whose file is closed is freed.
IsFreed == vmState = "sync" ~> vmState = "freed"

-----------------------------------------------------------------------------
(***************************************************************************)
(* Creation and destruction of VCPUs (kvm_arch_vcpu_create and             *)
(* kvm_arch_vcpu_destroy of kvm/x86.c), of several VMs at a time. A VCPU   *)
(* is built from a list of parts; when one cannot be had the error path    *)
(* gives back, in the reverse order and from a label on, the ones before   *)
(* it. VCPUs of VMs without an in-kernel irqchip are counted in a key that *)
(* all VMs share, kvm_has_noapic_vcpu.                                     *)
(***************************************************************************)

CONSTANTS
  VcpuVcpus,
  Irqchip,     \* the VCPUs of VMs with an in-kernel irqchip
  MaxTries     \* bound on the creations

ASSUME CreateAssumption == IsFiniteSet(VcpuVcpus) /\ Irqchip \subseteq VcpuVcpus /\ MaxTries \in Nat

VARIABLES
  vcpuState,       \* of each VCPU: "none", "create", "undo", "live", "destroy"
  vcpuAt,          \* the next part to get or to give back
  vcpuHeld,        \* the parts it has
  noapic,      \* kvm_has_noapic_vcpu
  tries,
  leaked       \* history: VCPUs that were counted in noapic and could not be created

vcpuVars == <<vcpuState, vcpuAt, vcpuHeld, noapic, tries, leaked>>

VcpuInit ==
  /\ vcpuState = [v \in VcpuVcpus |-> "none"] /\ vcpuAt = [v \in VcpuVcpus |-> 0] /\ vcpuHeld = [v \in VcpuVcpus |-> {}]
  /\ noapic = 0 /\ tries = 0 /\ leaked = 0

(* the parts in the order kvm_arch_vcpu_create gets them *)
VcpuParts == <<"mmu", "lapic", "pio_data", "mce_banks", "wbinvd_dirty_mask", "emulate_ctxt",
           "user_fpu", "guest_fpu", "vendor">>
(* the labels of its error path, in the order of the text *)
Labels == <<"guest_fpu", "user_fpu", "emulate_ctxt", "wbinvd_dirty_mask", "mce_banks", "pio_data",
            "lapic", "mmu">>
(* where it goes when a part cannot be had: past the last label for the first part *)
Entry(part) == 10 - part

(* the parts kvm_arch_vcpu_destroy gives back *)
Destroyed == <<"vendor", "emulate_ctxt", "wbinvd_dirty_mask", "user_fpu", "guest_fpu",
               "mce_banks", "lapic", "mmu", "pio_data", "cpuid_entries">>

-----------------------------------------------------------------------------
Start(v) ==
  /\ vcpuState[v] = "none" /\ tries < MaxTries
  /\ vcpuState' = [vcpuState EXCEPT ![v] = "create"] /\ vcpuAt' = [vcpuAt EXCEPT ![v] = 1] /\ tries' = tries + 1
  /\ UNCHANGED <<vcpuHeld, noapic, leaked>>

(* without an irqchip there is no local APIC to allocate, only the count, which the error path *)
(* does not take back                                                                          *)
NeedsNone(v) == VcpuParts[vcpuAt[v]] = "lapic" /\ v \notin Irqchip
Counts(v) == IF NeedsNone(v) THEN 1 ELSE 0

VcpuGet(v) ==
  /\ vcpuState[v] = "create" /\ vcpuAt[v] <= Len(VcpuParts)
  /\ vcpuHeld' = [vcpuHeld EXCEPT ![v] = IF NeedsNone(v) THEN @ ELSE @ \cup {VcpuParts[vcpuAt[v]]}]
  /\ noapic' = noapic + Counts(v)
  /\ vcpuAt' = [vcpuAt EXCEPT ![v] = @ + 1]
  /\ UNCHANGED <<vcpuState, tries, leaked>>

Fail(v) ==
  /\ vcpuState[v] = "create" /\ vcpuAt[v] <= Len(VcpuParts) /\ ~NeedsNone(v)
  /\ vcpuState' = [vcpuState EXCEPT ![v] = "undo"] /\ vcpuAt' = [vcpuAt EXCEPT ![v] = Entry(vcpuAt[v])]
  /\ leaked' = IF v \notin Irqchip /\ vcpuAt[v] > 2 THEN leaked + 1 ELSE leaked
  /\ UNCHANGED <<vcpuHeld, noapic, tries>>

Created(v) ==
  /\ vcpuState[v] = "create" /\ vcpuAt[v] > Len(VcpuParts)
  /\ vcpuState' = [vcpuState EXCEPT ![v] = "live"] /\ vcpuAt' = [vcpuAt EXCEPT ![v] = 0]
  /\ UNCHANGED <<vcpuHeld, noapic, tries, leaked>>

SetCpuid(v) ==
  /\ vcpuState[v] = "live" /\ vcpuHeld' = [vcpuHeld EXCEPT ![v] = @ \cup {"cpuid_entries"}]
  /\ UNCHANGED <<vcpuState, vcpuAt, noapic, tries, leaked>>

(* kvm_free_lapic and kvfree do nothing without the part *)
Undo(v) ==
  /\ vcpuState[v] = "undo" /\ vcpuAt[v] <= Len(Labels)
  /\ vcpuHeld' = [vcpuHeld EXCEPT ![v] = @ \ {Labels[vcpuAt[v]]}] /\ vcpuAt' = [vcpuAt EXCEPT ![v] = @ + 1]
  /\ UNCHANGED <<vcpuState, noapic, tries, leaked>>
Failed(v) ==
  /\ vcpuState[v] = "undo" /\ vcpuAt[v] > Len(Labels)
  /\ vcpuState' = [vcpuState EXCEPT ![v] = "none"] /\ vcpuAt' = [vcpuAt EXCEPT ![v] = 0]
  /\ UNCHANGED <<vcpuHeld, noapic, tries, leaked>>

kvm_arch_vcpu_destroy(v) ==
  /\ vcpuState[v] = "live" /\ vcpuState' = [vcpuState EXCEPT ![v] = "destroy"] /\ vcpuAt' = [vcpuAt EXCEPT ![v] = 1]
  /\ UNCHANGED <<vcpuHeld, noapic, tries, leaked>>
VcpuFree(v) ==
  /\ vcpuState[v] = "destroy" /\ vcpuAt[v] <= Len(Destroyed)
  /\ vcpuHeld' = [vcpuHeld EXCEPT ![v] = @ \ {Destroyed[vcpuAt[v]]}] /\ vcpuAt' = [vcpuAt EXCEPT ![v] = @ + 1]
  /\ UNCHANGED <<vcpuState, noapic, tries, leaked>>
Freed(v) ==
  /\ vcpuState[v] = "destroy" /\ vcpuAt[v] > Len(Destroyed)
  /\ noapic' = IF v \in Irqchip THEN noapic ELSE noapic - 1
  /\ vcpuState' = [vcpuState EXCEPT ![v] = "none"] /\ vcpuAt' = [vcpuAt EXCEPT ![v] = 0]
  /\ UNCHANGED <<vcpuHeld, tries, leaked>>

VcpuNext == \E v \in VcpuVcpus :
  \/ Start(v) \/ VcpuGet(v) \/ Fail(v) \/ Created(v) \/ SetCpuid(v) \/ Undo(v) \/ Failed(v)
  \/ kvm_arch_vcpu_destroy(v) \/ VcpuFree(v) \/ Freed(v)

VcpuSpec == VcpuInit /\ [][VcpuNext]_vcpuVars
-----------------------------------------------------------------------------
(* Properties *)

\* The variables keep their types, and the count does not drop below zero.
VcpuTypeOK ==
  /\ \A v \in VcpuVcpus : vcpuHeld[v] \subseteq Range(VcpuParts) \cup {"cpuid_entries"}
  /\ vcpuAt \in [VcpuVcpus -> 0 .. 11] /\ noapic \in Nat

\* A VCPU that could not be created, whichever part was missing, or that has
\* been destroyed, has given back all it had.
NothingIsLost == \A v \in VcpuVcpus : vcpuState[v] = "none" => vcpuHeld[v] = {}

\* Nothing is given back that was not had, or twice; only the local APIC,
\* which a VM without irqchip has not got, and the CPUID table are passed to
\* a function that looks first.
FreesWhatItHas ==
  \A v \in VcpuVcpus :
    /\ (vcpuState[v] = "undo" /\ vcpuAt[v] <= Len(Labels)) => Labels[vcpuAt[v]] \in vcpuHeld[v] \cup {"lapic"}
    /\ (vcpuState[v] = "destroy" /\ vcpuAt[v] <= Len(Destroyed))
         => Destroyed[vcpuAt[v]] \in vcpuHeld[v] \cup {"lapic", "cpuid_entries"}

\* The VCPUs without a local APIC that have been counted and not yet freed.
Counted ==
  {v \in VcpuVcpus \ Irqchip : \/ vcpuState[v] = "create" /\ vcpuAt[v] > 2
                               \/ vcpuState[v] \in {"live", "destroy"}}

\* While the key is off lapic_in_kernel answers yes for every VCPU. It is on
\* as long as a VCPU without a local APIC lives, and the one thing that keeps
\* it on longer is a creation that failed after the count: each of them, and
\* nothing else, leaves it one too high for good (x86.c:11130-11136).
KeyCounts == noapic = Cardinality(Counted) + leaked

-----------------------------------------------------------------------------
(***************************************************************************)
(* How user space sets a virtual machine up (kvm/x86.c,                    *)
(* kvm_arch_vm_ioctl and kvm_vm_ioctl_enable_cap): threads create the      *)
(* interrupt controllers, in the kernel or split, the timer (PIT), the     *)
(* VCPUs and choose the boot processor, in any order and at the same time. *)
(* Creating holds kvm->lock; the calls that use what was created do not,   *)
(* they look at a mode or a pointer and go on.                             *)
(***************************************************************************)

CONSTANTS
  SetupThreads, SetupVcpus,
  Pins,            \* numbers of reserved IOAPIC pins, > 0
  MaxPit           \* bound: writes of the timer's state

SetupNone == "none"

ASSUME SetupAssumption == SetupNone \notin SetupThreads /\ Pins \subseteq Nat \ {0} /\ MaxPit \in Nat

VARIABLES
  lock, pit_lock,          \* holders of kvm->lock and pit_state.lock
  irqchip_mode,            \* "none" | "kernel" | "split"
  pic, ioapic, routing,    \* allocated
  nr_pins,                 \* nr_reserved_ioapic_pins
  vpit, channels, setupFlags,   \* the timer and the write its channels and flags are from
  created,                 \* created_vcpus, as the set
  setupVcpu,                    \* what a VCPU saw when it was created
  bsp,                     \* bsp_vcpu_id
  setupPc,                      \* each thread: [op, at, v]
  writes,                  \* writes of the timer so far
  states                   \* states the timer has been in, as <<channels, flags>>

devices == <<irqchip_mode, pic, ioapic, routing, nr_pins>>
pit == <<vpit, channels, setupFlags, writes, states>>
cpus == <<created, setupVcpu, bsp>>
setupVars == <<lock, pit_lock, devices, pit, cpus, setupPc>>

SetupIdle == [op |-> "idle", at |-> "user", v |-> 0, w |-> 0]
NotYet == [made |-> FALSE, lapic |-> FALSE, pins |-> 0, boot |-> FALSE]
SetupOp(op, at) == [SetupIdle EXCEPT !.op = op, !.at = at]

(* kvm_arch_init_vm: nothing exists; the boot processor is VCPU 0 *)
SetupInit ==
  /\ lock = SetupNone /\ pit_lock = SetupNone
  /\ irqchip_mode = "none" /\ pic = FALSE /\ ioapic = FALSE /\ routing = FALSE /\ nr_pins = 0
  /\ vpit = FALSE /\ channels = 0 /\ setupFlags = 0 /\ writes = 0 /\ states = {<<0, 0>>}
  /\ created = {} /\ setupVcpu = [c \in SetupVcpus |-> NotYet] /\ bsp \in SetupVcpus
  /\ setupPc = [t \in SetupThreads |-> SetupIdle]

irqchip_in_kernel == irqchip_mode # "none"
irqchip_kernel == irqchip_mode = "kernel"

At(t, op, at) == setupPc[t].op = op /\ setupPc[t].at = at
SetupGoto(t, at) == setupPc' = [setupPc EXCEPT ![t].at = at]
SetupReturn(t) == setupPc' = [setupPc EXCEPT ![t] = SetupIdle]
mutex_lock(t) == lock = SetupNone /\ lock' = t
SetupUnlock(t) == lock' = SetupNone /\ SetupReturn(t)

-----------------------------------------------------------------------------
(* KVM_CREATE_IRQCHIP *)
CreateIrqchip(t) ==
  /\ setupPc[t] = SetupIdle /\ mutex_lock(t)
  /\ setupPc' = [setupPc EXCEPT ![t] = SetupOp("irqchip", IF irqchip_in_kernel \/ created # {} THEN "unlock" ELSE "pic")]
  /\ UNCHANGED <<pit_lock, devices, pit, cpus>>
kvm_pic_init(t, ok) ==
  /\ At(t, "irqchip", "pic") /\ pic' = ok /\ SetupGoto(t, IF ok THEN "ioapic" ELSE "unlock")
  /\ UNCHANGED <<lock, pit_lock, irqchip_mode, ioapic, routing, nr_pins, pit, cpus>>
kvm_ioapic_init(t, ok) ==
  /\ At(t, "irqchip", "ioapic") /\ ioapic' = ok /\ pic' = ok /\ SetupGoto(t, IF ok THEN "routing" ELSE "unlock")
  /\ UNCHANGED <<lock, pit_lock, irqchip_mode, routing, nr_pins, pit, cpus>>
kvm_setup_default_irq_routing(t, ok) ==
  /\ At(t, "irqchip", "routing") /\ routing' = ok /\ ioapic' = ok /\ pic' = ok
  /\ SetupGoto(t, IF ok THEN "publish" ELSE "unlock")
  /\ UNCHANGED <<lock, pit_lock, irqchip_mode, nr_pins, pit, cpus>>
PublishKernel(t) ==
  /\ At(t, "irqchip", "publish") /\ irqchip_mode' = "kernel" /\ SetupGoto(t, "unlock")
  /\ UNCHANGED <<lock, pit_lock, pic, ioapic, routing, nr_pins, pit, cpus>>

(* KVM_CAP_SPLIT_IRQCHIP *)
SplitIrqchip(t, n) ==
  /\ setupPc[t] = SetupIdle /\ mutex_lock(t)
  /\ setupPc' = [setupPc EXCEPT ![t] = [SetupOp("split", IF irqchip_in_kernel \/ created # {} THEN "unlock" ELSE "routing") EXCEPT !.v = n]]
  /\ UNCHANGED <<pit_lock, devices, pit, cpus>>
kvm_setup_empty_irq_routing(t, ok) ==
  /\ At(t, "split", "routing") /\ routing' = ok /\ SetupGoto(t, IF ok THEN "publish" ELSE "unlock")
  /\ UNCHANGED <<lock, pit_lock, irqchip_mode, pic, ioapic, nr_pins, pit, cpus>>
PublishSplit(t) ==
  /\ At(t, "split", "publish") /\ irqchip_mode' = "split" /\ SetupGoto(t, "pins")
  /\ UNCHANGED <<lock, pit_lock, pic, ioapic, routing, nr_pins, pit, cpus>>
ReservePins(t) ==
  /\ At(t, "split", "pins") /\ nr_pins' = setupPc[t].v /\ SetupGoto(t, "unlock")
  /\ UNCHANGED <<lock, pit_lock, irqchip_mode, pic, ioapic, routing, pit, cpus>>

mutex_unlock(t) ==
  /\ setupPc[t].at = "unlock" /\ lock = t /\ SetupUnlock(t) /\ UNCHANGED <<pit_lock, devices, pit, cpus>>

(* KVM_CREATE_PIT, KVM_CREATE_PIT2 *)
CreatePit(t, ok) ==
  /\ setupPc[t] = SetupIdle /\ mutex_lock(t) /\ setupPc' = [setupPc EXCEPT ![t] = SetupOp("pit", "unlock")]
  /\ vpit' = (vpit \/ ok)
  /\ UNCHANGED <<pit_lock, devices, channels, setupFlags, writes, states, cpus>>

(* KVM_SET_BOOT_CPU_ID *)
SetBootCpu(t, c) ==
  /\ setupPc[t] = SetupIdle /\ lock = SetupNone /\ bsp' = IF created # {} THEN bsp ELSE c
  /\ UNCHANGED <<lock, pit_lock, devices, pit, created, setupVcpu, setupPc>>

(* KVM_CREATE_VCPU: kvm_main.c counts the VCPU under the lock and creates it after *)
SetupCreateVcpu(t, c) ==
  /\ setupPc[t] = SetupIdle /\ c \notin created /\ lock = SetupNone
  /\ created' = created \cup {c} /\ setupPc' = [setupPc EXCEPT ![t] = [SetupOp("vcpu", "create") EXCEPT !.v = c]]
  /\ UNCHANGED <<lock, pit_lock, devices, pit, setupVcpu, bsp>>
kvm_arch_vcpu_create(t) ==
  LET c == setupPc[t].v
  IN  /\ At(t, "vcpu", "create") /\ SetupReturn(t)
      /\ setupVcpu' = [setupVcpu EXCEPT ![c] = [made |-> TRUE, lapic |-> irqchip_in_kernel, pins |-> nr_pins, boot |-> c = bsp]]
      /\ UNCHANGED <<lock, pit_lock, devices, pit, created, bsp>>

-----------------------------------------------------------------------------
(* KVM_GET_IRQCHIP and KVM_SET_IRQCHIP look at the mode, KVM_IRQ_LINE at any controller; no lock. *)
CheckChip(t) ==
  /\ setupPc[t] = SetupIdle /\ setupPc' = [setupPc EXCEPT ![t] = IF irqchip_kernel THEN SetupOp("chip", "use") ELSE SetupIdle]
  /\ UNCHANGED <<lock, pit_lock, devices, pit, cpus>>
CheckLine(t) ==
  /\ setupPc[t] = SetupIdle /\ setupPc' = [setupPc EXCEPT ![t] = IF irqchip_in_kernel THEN SetupOp("line", "use") ELSE SetupIdle]
  /\ UNCHANGED <<lock, pit_lock, devices, pit, cpus>>
Use(t) ==
  /\ setupPc[t].at = "use" /\ SetupReturn(t) /\ UNCHANGED <<lock, pit_lock, devices, pit, cpus>>

-----------------------------------------------------------------------------
(* KVM_SET_PIT (channels) and KVM_SET_PIT2 (channels and flags), both locks *)
SetPit(t, op) ==
  /\ setupPc[t] = SetupIdle /\ mutex_lock(t) /\ writes < MaxPit
  /\ writes' = writes + 1
  /\ setupPc' = [setupPc EXCEPT ![t] = [SetupOp(op, IF vpit THEN "lock" ELSE "unlock") EXCEPT !.w = writes']]
  /\ UNCHANGED <<pit_lock, devices, vpit, channels, setupFlags, states, cpus>>
(* KVM_GET_PIT2 looks at the pointer without a lock *)
GetPit(t) ==
  /\ setupPc[t] = SetupIdle /\ vpit /\ setupPc' = [setupPc EXCEPT ![t] = SetupOp("get_pit", "lock")]
  /\ UNCHANGED <<lock, pit_lock, devices, pit, cpus>>
PitLock(t) ==
  /\ setupPc[t].at = "lock" /\ pit_lock = SetupNone /\ pit_lock' = t
  /\ SetupGoto(t, "channels") /\ UNCHANGED <<lock, devices, pit, cpus>>
CopyChannels(t) ==
  /\ setupPc[t].at = "channels"
  /\ IF setupPc[t].op = "get_pit"
     THEN /\ setupPc' = [setupPc EXCEPT ![t].at = "flags", ![t].v = channels] /\ UNCHANGED channels
     ELSE /\ SetupGoto(t, IF setupPc[t].op = "set_pit2" THEN "flags" ELSE "pit_unlock") /\ channels' = setupPc[t].w
  /\ UNCHANGED <<lock, pit_lock, devices, vpit, setupFlags, writes, states, cpus>>
CopyFlags(t) ==
  /\ setupPc[t].at = "flags"
  /\ IF setupPc[t].op = "get_pit"
     THEN /\ setupPc' = [setupPc EXCEPT ![t].at = "pit_unlock", ![t].w = setupFlags] /\ UNCHANGED setupFlags
     ELSE /\ SetupGoto(t, "pit_unlock") /\ setupFlags' = setupPc[t].w
  /\ UNCHANGED <<lock, pit_lock, devices, vpit, channels, writes, states, cpus>>
PitUnlock(t) ==
  /\ setupPc[t].at = "pit_unlock" /\ pit_lock' = SetupNone
  /\ IF setupPc[t].op = "get_pit" THEN SetupGoto(t, "got") /\ UNCHANGED states
     ELSE SetupGoto(t, "unlock") /\ states' = states \cup {<<channels, setupFlags>>}
  /\ UNCHANGED <<lock, devices, vpit, channels, setupFlags, writes, cpus>>
GotPit(t) == setupPc[t].at = "got" /\ SetupReturn(t) /\ UNCHANGED <<lock, pit_lock, devices, pit, cpus>>

SetupNext == \E t \in SetupThreads :
  \/ CreateIrqchip(t) \/ (\E ok \in BOOLEAN : kvm_pic_init(t, ok) \/ kvm_ioapic_init(t, ok)
                           \/ kvm_setup_default_irq_routing(t, ok) \/ kvm_setup_empty_irq_routing(t, ok) \/ CreatePit(t, ok))
  \/ PublishKernel(t) \/ (\E n \in Pins : SplitIrqchip(t, n)) \/ PublishSplit(t) \/ ReservePins(t) \/ mutex_unlock(t)
  \/ (\E c \in SetupVcpus : SetBootCpu(t, c) \/ SetupCreateVcpu(t, c)) \/ kvm_arch_vcpu_create(t)
  \/ CheckChip(t) \/ CheckLine(t) \/ Use(t)
  \/ (\E op \in {"set_pit", "set_pit2"} : SetPit(t, op)) \/ GetPit(t) \/ PitLock(t) \/ CopyChannels(t) \/ CopyFlags(t)
  \/ PitUnlock(t) \/ GotPit(t)

SetupSpec == SetupInit /\ [][SetupNext]_setupVars

-----------------------------------------------------------------------------
(* A thread that saw a controller's mode finds what it uses: the routing, and the PIC and IOAPIC when *)
(* they are in the kernel ("Write kvm->irq_routing before enabling irqchip_in_kernel"). *)
UseIsSafe == \A t \in SetupThreads : setupPc[t].at = "use" => routing /\ (setupPc[t].op = "chip" => pic /\ ioapic)

(* Every VCPU agrees with the machine about the local APIC and the reserved pins: the mode cannot *)
(* change once a VCPU is counted, although the VCPU is created after the lock was dropped. *)
VcpusAgree == \A c \in SetupVcpus : setupVcpu[c].made => setupVcpu[c].lapic = irqchip_in_kernel /\ setupVcpu[c].pins = nr_pins

(* At most one VCPU starts as the boot processor, and it is the one the machine names. *)
OneBootCpu == \A c \in SetupVcpus : setupVcpu[c].made => (setupVcpu[c].boot <=> c = bsp)

(* A creation that failed leaves no device behind. *)
FailureLeavesNothing == lock = SetupNone /\ ~irqchip_in_kernel => ~pic /\ ~ioapic /\ ~routing

(* KVM_GET_PIT2 reports a state the timer was in, never half of a KVM_SET_PIT2. *)
PitSnapshot == \A t \in SetupThreads : setupPc[t].at = "got" => <<setupPc[t].v, setupPc[t].w>> \in states

-----------------------------------------------------------------------------
(***************************************************************************)
(* Capabilities (kvm/x86.c): what KVM_CHECK_EXTENSION reports and what     *)
(* KVM_ENABLE_CAP of a virtual machine and of a VCPU accepts and does.     *)
(*                                                                         *)
(* An argument is a set of bits; "odd" is a bit that no capability has.    *)
(* What the processor and the vendor module offer is external.             *)
(***************************************************************************)

CONSTANTS
  CapHosts,          \* what there is: subsets of {"mwait", "bus_lock", "evmcs", "tlbflush", "copy_enc", "provision"}
  CapMaxCalls        \* bound on the calls

ASSUME CapsAssumption == CapMaxCalls \in Nat

ExitBits == {"hlt", "pause", "cstate", "mwait"}
X2ApicBits == {"ids32", "no_broadcast_quirk"}
BusLockBits == {"off", "exit"}
HypercallBits == {"map_gpa_range"}

VARIABLES
  capHost,
  vcpus,          \* kvm->created_vcpus
  capVm,             \* fields of kvm->arch
  capVcpu,           \* fields of vcpu->arch
  calls,
  last            \* the last call: [cap, arg, r]

capVars == <<capHost, vcpus, capVm, capVcpu, calls, last>>

Quiet == [cap |-> "none", arg |-> {}, r |-> "ok"]
CapInit ==
  /\ capHost \in CapHosts /\ vcpus = 0 /\ calls = 0 /\ last = Quiet
  /\ capVm = [quirks |-> {}, irqchip |-> FALSE, x2apic |-> {}, exits |-> {}, flags |-> {}, user_msr |-> {},
           bus_lock |-> FALSE, provision |-> FALSE, copied |-> FALSE, hypercall |-> {}]
  /\ capVcpu = [synic |-> "no", evmcs |-> FALSE, tlbflush |-> FALSE, enforce |-> {}]

-----------------------------------------------------------------------------
(* kvm_vm_ioctl_check_extension *)
kvm_vm_ioctl_check_extension(cap) ==
  CASE cap = "X86_DISABLE_EXITS" -> {"hlt", "pause", "cstate"} \cup (capHost \cap {"mwait"})
    [] cap = "X2APIC_API" -> X2ApicBits
    [] cap = "X86_BUS_LOCK_EXIT" -> IF "bus_lock" \in capHost THEN BusLockBits ELSE {}
    [] cap = "EXIT_HYPERCALL" -> HypercallBits
    [] cap = "HYPERV_ENLIGHTENED_VMCS" -> IF "evmcs" \in capHost THEN {"one"} ELSE {}
    [] cap = "HYPERV_DIRECT_TLBFLUSH" -> IF "tlbflush" \in capHost THEN {"one"} ELSE {}
    [] cap \in {"DISABLE_QUIRKS", "SPLIT_IRQCHIP", "MSR_PLATFORM_INFO", "EXCEPTION_PAYLOAD", "X86_USER_SPACE_MSR",
                "SGX_ATTRIBUTE", "VM_COPY_ENC_CONTEXT_FROM", "EXIT_ON_EMULATION_FAILURE", "HYPERV_SYNIC",
                "HYPERV_SYNIC2", "HYPERV_ENFORCE_CPUID", "ENFORCE_PV_FEATURE_CPUID"} -> {"one"}
    [] OTHER -> {}

-----------------------------------------------------------------------------
(* KVM_ENABLE_CAP: what a virtual machine becomes, and what is returned *)
Ok(new) == [vm |-> new, r |-> "ok"]
Fails(e) == [vm |-> capVm, r |-> e]
Flag(f, on) == [capVm EXCEPT !.flags = IF on THEN @ \cup {f} ELSE @ \ {f}]
CapX2Apic(arg) == IF arg \subseteq X2ApicBits THEN Ok([capVm EXCEPT !.x2apic = @ \cup arg]) ELSE Fails("EINVAL")
DisableExits(arg) ==
  IF arg \subseteq ExitBits
  THEN Ok([capVm EXCEPT !.exits = @ \cup (arg \ ({"mwait"} \ capHost))])
  ELSE Fails("EINVAL")
BusLock(arg) ==
  IF arg \subseteq BusLockBits /\ ~BusLockBits \subseteq arg
  THEN Ok([capVm EXCEPT !.bus_lock = @ \/ ("bus_lock" \in capHost /\ "exit" \in arg)])
  ELSE Fails("EINVAL")
Sgx(arg) == IF arg = {"provision"} /\ "provision" \in capHost THEN Ok([capVm EXCEPT !.provision = TRUE]) ELSE Fails("EINVAL")
Hypercall(arg) == IF arg \subseteq HypercallBits THEN Ok([capVm EXCEPT !.hypercall = arg]) ELSE Fails("EINVAL")
(* routed: kvm_setup_empty_irq_routing has the memory *)
Split(arg, routed) ==
  IF "odd" \in arg THEN Fails("EINVAL")
  ELSE IF capVm.irqchip \/ vcpus > 0 THEN Fails("EEXIST")
  ELSE IF routed THEN Ok([capVm EXCEPT !.irqchip = TRUE]) ELSE Fails("ENOMEM")

VmCaps == {"DISABLE_QUIRKS", "SPLIT_IRQCHIP", "X2APIC_API", "X86_DISABLE_EXITS", "MSR_PLATFORM_INFO",
           "EXCEPTION_PAYLOAD", "X86_USER_SPACE_MSR", "X86_BUS_LOCK_EXIT", "SGX_ATTRIBUTE",
           "VM_COPY_ENC_CONTEXT_FROM", "EXIT_HYPERCALL", "EXIT_ON_EMULATION_FAILURE"}
Enabled(cap, arg, routed) ==
  CASE cap = "DISABLE_QUIRKS" -> Ok([capVm EXCEPT !.quirks = arg])
    [] cap = "SPLIT_IRQCHIP" -> Split(arg, routed)
    [] cap = "X2APIC_API" -> CapX2Apic(arg)
    [] cap = "X86_DISABLE_EXITS" -> DisableExits(arg)
    [] cap \in {"MSR_PLATFORM_INFO", "EXCEPTION_PAYLOAD"} -> Ok(Flag(cap, arg # {}))
    [] cap = "X86_USER_SPACE_MSR" -> Ok([capVm EXCEPT !.user_msr = arg])
    [] cap = "X86_BUS_LOCK_EXIT" -> BusLock(arg)
    [] cap = "SGX_ATTRIBUTE" -> Sgx(arg)
    [] cap = "VM_COPY_ENC_CONTEXT_FROM" -> IF "copy_enc" \in capHost THEN Ok([capVm EXCEPT !.copied = TRUE]) ELSE Fails("EINVAL")
    [] cap = "EXIT_HYPERCALL" -> Hypercall(arg)
    [] cap = "EXIT_ON_EMULATION_FAILURE" -> IF "odd" \in arg THEN Fails("EINVAL") ELSE Ok(Flag(cap, arg # {}))
    [] OTHER -> Fails("EINVAL")

Args(cap) ==
  SUBSET (CASE cap = "X86_DISABLE_EXITS" -> ExitBits \cup {"odd"}
            [] cap = "X2APIC_API" -> X2ApicBits \cup {"odd"}
            [] cap = "X86_BUS_LOCK_EXIT" -> BusLockBits \cup {"odd"}
            [] cap = "EXIT_HYPERCALL" -> HypercallBits \cup {"odd"}
            [] cap = "SGX_ATTRIBUTE" -> {"provision", "odd"}
            [] OTHER -> {"odd"})
kvm_vm_ioctl_enable_cap ==
  /\ calls < CapMaxCalls /\ calls' = calls + 1
  /\ \E cap \in VmCaps \cup {"OTHER"} : \E arg \in Args(cap), flags, routed \in BOOLEAN :
       LET e == IF flags THEN Fails("EINVAL") ELSE Enabled(cap, arg, routed) IN
       capVm' = e.vm /\ last' = [cap |-> IF flags THEN "flags" ELSE cap, arg |-> arg, r |-> e.r]
  /\ UNCHANGED <<capHost, vcpus, capVcpu>>

CapCreateVcpu ==
  /\ vcpus = 0 /\ vcpus' = 1 /\ last' = Quiet
  /\ UNCHANGED <<capHost, capVm, capVcpu, calls>>

-----------------------------------------------------------------------------
(* KVM_ENABLE_CAP of a VCPU: hyperv.c and the vendor (external) may refuse, for want of memory *)
VcpuOk(new) == [vcpu |-> new, r |-> "ok"]
VcpuFails(e) == [vcpu |-> capVcpu, r |-> e]
Synic(cap, arg) ==
  IF (cap = "HYPERV_SYNIC2" /\ arg # {}) \/ ~capVm.irqchip THEN {VcpuFails("EINVAL")}
  ELSE {VcpuOk([capVcpu EXCEPT !.synic = IF cap = "HYPERV_SYNIC2" THEN "no_auto_eoi" ELSE "auto_eoi"]),
        VcpuFails("ENOMEM")}
(* the version is copied after the feature was enabled: the copy may fail *)
EnlightenedVmcs ==
  IF "evmcs" \notin capHost THEN {VcpuFails("ENOTTY")}
  ELSE {[vcpu |-> [capVcpu EXCEPT !.evmcs = TRUE], r |-> r] : r \in {"ok", "EFAULT"}} \cup {VcpuFails("EINVAL")}
DirectTlbflush ==
  IF "tlbflush" \notin capHost THEN {VcpuFails("ENOTTY")}
  ELSE {VcpuOk([capVcpu EXCEPT !.tlbflush = TRUE]), VcpuFails("ENOMEM")}
Enforce(cap, arg) == VcpuOk([capVcpu EXCEPT !.enforce = IF arg # {} THEN @ \cup {cap} ELSE @ \ {cap}])
VcpuEnabled(cap, arg) ==
  CASE cap \in {"HYPERV_SYNIC", "HYPERV_SYNIC2"} -> Synic(cap, arg)
    [] cap = "HYPERV_ENLIGHTENED_VMCS" -> EnlightenedVmcs
    [] cap = "HYPERV_DIRECT_TLBFLUSH" -> DirectTlbflush
    [] cap = "HYPERV_ENFORCE_CPUID" -> {Enforce(cap, arg), VcpuFails("ENOMEM")}
    [] cap = "ENFORCE_PV_FEATURE_CPUID" -> {Enforce(cap, arg)}
    [] OTHER -> {VcpuFails("EINVAL")}
VcpuCaps == {"HYPERV_SYNIC", "HYPERV_SYNIC2", "HYPERV_ENLIGHTENED_VMCS", "HYPERV_DIRECT_TLBFLUSH",
             "HYPERV_ENFORCE_CPUID", "ENFORCE_PV_FEATURE_CPUID"}
kvm_vcpu_ioctl_enable_cap ==
  /\ vcpus > 0 /\ calls < CapMaxCalls /\ calls' = calls + 1
  /\ \E cap \in VcpuCaps \cup {"OTHER"} : \E arg \in SUBSET {"odd"}, flags \in BOOLEAN :
       \E e \in IF flags THEN {VcpuFails("EINVAL")} ELSE VcpuEnabled(cap, arg) :
         capVcpu' = e.vcpu /\ last' = [cap |-> IF flags THEN "flags" ELSE cap, arg |-> arg, r |-> e.r]
  /\ UNCHANGED <<capHost, vcpus, capVm>>

CapNext == kvm_vm_ioctl_enable_cap \/ kvm_vcpu_ioctl_enable_cap \/ CapCreateVcpu
CapSpec == CapInit /\ [][CapNext]_capVars

-----------------------------------------------------------------------------
(* What is in force is what KVM_CHECK_EXTENSION reports: an argument that asks for more is cut down or *)
(* refused, in any sequence of calls.                                                                  *)
InForceIsReported ==
  /\ capVm.exits \subseteq kvm_vm_ioctl_check_extension("X86_DISABLE_EXITS")
  /\ capVm.x2apic \subseteq kvm_vm_ioctl_check_extension("X2APIC_API")
  /\ capVm.hypercall \subseteq kvm_vm_ioctl_check_extension("EXIT_HYPERCALL")
  /\ capVm.bus_lock => "exit" \in kvm_vm_ioctl_check_extension("X86_BUS_LOCK_EXIT")
  /\ capVcpu.evmcs => kvm_vm_ioctl_check_extension("HYPERV_ENLIGHTENED_VMCS") # {}
  /\ capVcpu.tlbflush => kvm_vm_ioctl_check_extension("HYPERV_DIRECT_TLBFLUSH") # {}

(* And what it reports can be had: a call for reported bits of a mask is accepted and they are in force *)
(* afterwards. Turning bus lock detection on and off in one call is the exception.                      *)
ReportedCanBeHad ==
  LET c == last.cap IN
  (c \in {"X86_DISABLE_EXITS", "X2APIC_API", "EXIT_HYPERCALL", "X86_BUS_LOCK_EXIT"}
   /\ last.arg \subseteq kvm_vm_ioctl_check_extension(c) /\ ~BusLockBits \subseteq last.arg) =>
     /\ last.r = "ok"
     /\ c = "X86_DISABLE_EXITS" => last.arg \subseteq capVm.exits
     /\ c = "X2APIC_API" => last.arg \subseteq capVm.x2apic
     /\ c = "EXIT_HYPERCALL" => last.arg = capVm.hypercall
     /\ c = "X86_BUS_LOCK_EXIT" /\ "exit" \in last.arg => capVm.bus_lock

(* A synthetic interrupt controller needs the kernel's APIC, which cannot appear once VCPUs exist: *)
(* whoever finds it missing finds it missing for good.                                             *)
SynicNeedsApic == [][(last.cap \in {"HYPERV_SYNIC", "HYPERV_SYNIC2"} /\ last.r = "EINVAL" /\ last.arg = {})
                       => capVm'.irqchip = capVm.irqchip]_capVars

(* A call that fails changes nothing, except that the enlightened VMCS stays enabled when its version *)
(* cannot be copied out.                                                                              *)
RefusedChangesNothing ==
  [][last'.r # "ok" => capVm' = capVm /\ (capVcpu' = capVcpu \/ last'.r = "EFAULT")]_capVars

-----------------------------------------------------------------------------
(***************************************************************************)
(* kvm_arch_vcpu_ioctl (kvm/x86.c): some forty calls that read or set a    *)
(* part of a VCPU's state, through a structure on the stack or on the      *)
(* heap. Each may fail at every step, and whatever it has taken by then    *)
(* must be given back: the buffer, the VCPU, the read lock of SRCU.        *)
(*                                                                         *)
(* A call is described by what it does at each step (its shape). Of the    *)
(* state it is enough that it has two halves, written one after the other; *)
(* user space gives a VCPU's ioctls to several threads, and the mutex of   *)
(* the VCPU is taken by the caller (kvm_vcpu_ioctl, external).             *)
(***************************************************************************)

CONSTANTS
  IoctlThreads,
  IoctlMaxCalls,       \* bound on the calls of a thread
  MaxSize,        \* bound on the size of a nested state
  IoctlNone

ASSUME IoctlAssumption == IoctlNone \notin IoctlThreads /\ IoctlMaxCalls \in Nat /\ MaxSize \in Nat \ {0}

(* in: where an argument is copied to before the operation; out: where its result is copied from; srcu: *)
(* what runs under the read lock, nothing, the operation or the whole call with its copies; lapic: only  *)
(* with an APIC in the kernel; sets: it writes state                                                     *)
Shape(in, op, out) == [in |-> in, sets |-> op = "set", out |-> out, srcu |-> "no", lapic |-> FALSE]
Srcu(s) == [s EXCEPT !.srcu = "op"]
SrcuAll(s) == [s EXCEPT !.srcu = "call"]
NeedsApic(s) == [s EXCEPT !.lapic = TRUE]
LapicCalls == ("GET_LAPIC" :> NeedsApic(Shape("none", "get", "heap"))) @@
              ("SET_LAPIC" :> NeedsApic(Shape("heap", "set", "none")))
EventCalls == ("INTERRUPT" :> Shape("stack", "set", "none")) @@ ("NMI" :> Shape("none", "set", "none"))
CpuidCalls == ("SET_CPUID2" :> Shape("stack", "set", "none")) @@ ("GET_CPUID2" :> Shape("stack", "get", "stack"))
MsrCalls == ("GET_MSRS" :> SrcuAll(Shape("heap", "get", "heap"))) @@
            ("SET_MSRS" :> SrcuAll(Shape("heap", "set", "none")))
TprCalls == ("TPR_ACCESS_REPORTING" :> Shape("stack", "set", "stack")) @@
            ("SET_VAPIC_ADDR" :> Srcu(NeedsApic(Shape("stack", "set", "none"))))
SmallCalls == ("SETUP_MCE" :> Shape("stack", "set", "none")) @@ ("GET_VCPU_EVENTS" :> Shape("none", "get", "stack"))
XsaveCalls == ("GET_XSAVE" :> Shape("none", "get", "heap")) @@ ("SET_XSAVE" :> Shape("heap", "set", "none"))
ValueCalls == ("SET_TSC_KHZ" :> Shape("none", "set", "none")) @@ ("ENABLE_CAP" :> Shape("stack", "set", "none"))
XenCalls == ("XEN_GET_ATTR" :> Shape("stack", "get", "stack")) @@ ("XEN_SET_ATTR" :> Shape("stack", "set", "none"))
SregsCalls == ("GET_SREGS2" :> Shape("none", "get", "heap")) @@ ("SET_SREGS2" :> Shape("heap", "set", "none"))
NestedCalls == ("GET_NESTED" :> Shape("stack", "get", "stack")) @@ ("SET_NESTED" :> Srcu(Shape("stack", "set", "none")))
Calls == LapicCalls @@ EventCalls @@ CpuidCalls @@ MsrCalls @@ TprCalls @@ SmallCalls @@ XsaveCalls @@ ValueCalls
         @@ XenCalls @@ SregsCalls @@ NestedCalls

VARIABLES
  apic,           \* the VCPU has its APIC in the kernel
  ioctlState,          \* the two halves of the VCPU's state
  nested,         \* flags of the nested state
  nsize,          \* its size
  holder,         \* who holds vcpu->mutex
  loaded, srcu,   \* vcpu_load, srcu_read_lock
  heap,           \* buffers that are allocated
  ioctlFreed,          \* kfree was given an error pointer
  ioctlPc, call, buf, seen, ret, count,
  given           \* what user space got last: two halves

ioctlVars == <<apic, ioctlState, nested, nsize, holder, loaded, srcu, heap, ioctlFreed, ioctlPc, call, buf, seen, ret, count, given>>

Whole == <<0, 0>>
IoctlInit ==
  /\ apic \in BOOLEAN /\ ioctlState = Whole /\ nested = {} /\ nsize \in 1 .. MaxSize
  /\ holder = IoctlNone /\ loaded = 0 /\ srcu = 0 /\ heap = {} /\ ioctlFreed = FALSE
  /\ ioctlPc = [t \in IoctlThreads |-> "user"] /\ call = [t \in IoctlThreads |-> IoctlNone]
  /\ buf = [t \in IoctlThreads |-> "null"] /\ seen = [t \in IoctlThreads |-> Whole]
  /\ ret = [t \in IoctlThreads |-> "none"] /\ count = [t \in IoctlThreads |-> 0] /\ given = Whole

Sh(t) == Calls[call[t]]
IoctlGoto(t, p) == ioctlPc' = [ioctlPc EXCEPT ![t] = p]
IoctlReturn(t, r) == ret' = [ret EXCEPT ![t] = r]

-----------------------------------------------------------------------------
(* vcpu_load, and the way in *)
Enter(t) ==
  /\ ioctlPc[t] = "user" /\ count[t] < IoctlMaxCalls
  /\ holder = IoctlNone /\ holder' = t /\ loaded' = loaded + 1
  /\ \E c \in DOMAIN Calls :
       /\ call' = [call EXCEPT ![t] = c] /\ IoctlGoto(t, IF Calls[c].srcu = "call" THEN "lock" ELSE "in")
  /\ count' = [count EXCEPT ![t] = @ + 1] /\ buf' = [buf EXCEPT ![t] = "null"]
  /\ IoctlReturn(t, "none")
  /\ UNCHANGED <<apic, ioctlState, nested, nsize, srcu, heap, ioctlFreed, seen, given>>

(* srcu_read_lock around msr_io *)
LockCall(t) ==
  /\ ioctlPc[t] = "lock" /\ srcu' = srcu + 1 /\ IoctlGoto(t, "in")
  /\ UNCHANGED <<apic, ioctlState, nested, nsize, holder, loaded, heap, ioctlFreed, call, buf, seen, ret, count, given>>

(* an early way out, past the unlock of a call that is locked as a whole *)
Bail(t) == IF Sh(t).srcu = "call" THEN "unlock" ELSE "out"
(* lapic_in_kernel *)
NoApic(t) ==
  /\ ioctlPc[t] = "in" /\ Sh(t).lapic /\ ~apic
  /\ IoctlReturn(t, "EINVAL") /\ IoctlGoto(t, Bail(t))
  /\ UNCHANGED <<apic, ioctlState, nested, nsize, holder, loaded, srcu, heap, ioctlFreed, call, buf, seen, count, given>>
(* memdup_user: an error pointer when it fails, and the way out that frees nothing *)
MemdupFailsToOut(t) ==
  CASE Sh(t).srcu = "call" -> <<"null", "unlock">>
    [] Sh(t).srcu # "call" /\ call[t] = "SET_SREGS2" -> <<"null", "out">>
    [] OTHER -> <<"error", "out">>
MemdupFails(t) ==
  CASE Sh(t).srcu = "call" -> <<"null", "unlock">>
    [] Sh(t).srcu # "call" /\ call[t] = "SET_SREGS2" -> <<"null", "out">>
    [] OTHER -> <<"error", "nofree">>
CopyIn(t) ==
  /\ ioctlPc[t] = "in" /\ (Sh(t).lapic => apic)
  /\ \/ /\ Sh(t).in \in {"none", "stack"} \/ call[t] \in DOMAIN NestedCalls
        /\ IF Sh(t).out = "heap"
           THEN \/ heap' = heap \cup {t} /\ buf' = [buf EXCEPT ![t] = "allocated"] /\ IoctlGoto(t, "op") /\ UNCHANGED ret
                \/ IoctlReturn(t, "ENOMEM") /\ IoctlGoto(t, Bail(t)) /\ UNCHANGED <<heap, buf>>
           ELSE IoctlGoto(t, "op") /\ UNCHANGED <<heap, buf, ret>>
     \/ /\ Sh(t).in = "stack" /\ IoctlReturn(t, "EFAULT") /\ IoctlGoto(t, Bail(t)) /\ UNCHANGED <<heap, buf>>
     \/ /\ Sh(t).in = "heap" /\ IoctlGoto(t, "op")
        /\ heap' = heap \cup {t} /\ buf' = [buf EXCEPT ![t] = "allocated"] /\ UNCHANGED ret
     \/ /\ Sh(t).in = "heap" /\ IoctlReturn(t, "EFAULT")
        /\ buf' = [buf EXCEPT ![t] = MemdupFails(t)[1]] /\ IoctlGoto(t, MemdupFails(t)[2]) /\ UNCHANGED heap
  /\ UNCHANGED <<apic, ioctlState, nested, nsize, holder, loaded, srcu, ioctlFreed, call, seen, count, given>>

-----------------------------------------------------------------------------
(* the operation: under srcu_read_lock where the shape says so, in two halves, or refused *)
Lock(t) == srcu' = IF Sh(t).srcu = "op" THEN srcu + 1 ELSE srcu
(* msr_io copies its result out and frees its buffer before the lock is released *)
Done(t, r) ==
  IF Sh(t).srcu # "call" THEN "unlock"
  ELSE IF r = "ok" /\ Sh(t).out # "none" THEN "copyout" ELSE "kfree"
IoctlOp(t) ==
  /\ ioctlPc[t] = "op" /\ call[t] \notin DOMAIN NestedCalls
  /\ Lock(t)
  /\ \/ /\ Sh(t).sets /\ ioctlState' = [ioctlState EXCEPT ![1] = (@ + 1) % 3] /\ UNCHANGED <<seen, ret>>
        /\ IoctlGoto(t, "op2")
     \/ /\ ~Sh(t).sets /\ seen' = [seen EXCEPT ![t][1] = ioctlState[1]] /\ UNCHANGED <<ioctlState, ret>>
        /\ IoctlGoto(t, "op2")
     \/ /\ IoctlReturn(t, "EINVAL") /\ IoctlGoto(t, Done(t, "EINVAL")) /\ UNCHANGED <<ioctlState, seen>>
  /\ UNCHANGED <<apic, nested, nsize, holder, loaded, heap, ioctlFreed, call, buf, count, given>>
Op2(t) ==
  /\ ioctlPc[t] = "op2" /\ IoctlReturn(t, "ok") /\ IoctlGoto(t, Done(t, "ok"))
  /\ IF Sh(t).sets
     THEN ioctlState' = [ioctlState EXCEPT ![2] = (@ + 1) % 3] /\ seen' = [seen EXCEPT ![t] = ioctlState']
     ELSE seen' = [seen EXCEPT ![t][2] = ioctlState[2]] /\ UNCHANGED ioctlState
  /\ UNCHANGED <<apic, nested, nsize, holder, loaded, srcu, heap, ioctlFreed, call, buf, count, given>>

(* KVM_GET_NESTED_STATE: the size user space has room for is compared with the size there is *)
GetNested(t) ==
  /\ ioctlPc[t] = "op" /\ call[t] = "GET_NESTED" /\ IoctlGoto(t, Bail(t))
  /\ \E room \in 0 .. MaxSize : \/ IoctlReturn(t, IF nsize > room THEN "E2BIG" ELSE "ok") \/ IoctlReturn(t, "EFAULT")
  /\ UNCHANGED <<apic, ioctlState, nested, nsize, holder, loaded, srcu, heap, ioctlFreed, call, buf, seen, count, given>>
(* KVM_SET_NESTED_STATE *)
NestedFlags == {"run_pending", "guest_mode", "evmcs"}
Legal(flags, size) == size > 0 /\ flags \subseteq NestedFlags /\ ("run_pending" \in flags => "guest_mode" \in flags)
SetNested(t) ==
  /\ ioctlPc[t] = "op" /\ call[t] = "SET_NESTED"
  /\ \E flags \in SUBSET (NestedFlags \cup {"odd"}), size \in 0 .. MaxSize :
       IF Legal(flags, size)
       THEN /\ Lock(t) /\ IoctlGoto(t, "unlock")
            /\ \/ nested' = flags /\ nsize' = size /\ IoctlReturn(t, "ok")
               \/ IoctlReturn(t, "EINVAL") /\ UNCHANGED <<nested, nsize>>
       ELSE IoctlReturn(t, "EINVAL") /\ IoctlGoto(t, Bail(t)) /\ UNCHANGED <<nested, nsize, srcu>>
  /\ UNCHANGED <<apic, ioctlState, holder, loaded, heap, ioctlFreed, call, buf, seen, count, given>>

IoctlUnlock(t) ==
  /\ ioctlPc[t] = "unlock"
  /\ srcu' = IF Sh(t).srcu \in {"op", "call"} THEN srcu - 1 ELSE srcu
  /\ IoctlGoto(t, IF ret[t] = "ok" /\ Sh(t).out # "none" /\ Sh(t).srcu # "call" THEN "copyout" ELSE "out")
  /\ UNCHANGED <<apic, ioctlState, nested, nsize, holder, loaded, heap, ioctlFreed, call, buf, seen, ret, count, given>>
CopyOut(t) ==
  /\ ioctlPc[t] = "copyout" /\ IoctlGoto(t, IF Sh(t).srcu = "call" THEN "kfree" ELSE "out")
  /\ \/ given' = seen[t] /\ UNCHANGED ret
     \/ IoctlReturn(t, "EFAULT") /\ UNCHANGED given
  /\ UNCHANGED <<apic, ioctlState, nested, nsize, holder, loaded, srcu, heap, ioctlFreed, call, buf, seen, count>>

(* out_free of msr_io *)
FreeEntries(t) ==
  /\ ioctlPc[t] = "kfree" /\ IoctlGoto(t, "unlock") /\ heap' = heap \ {t} /\ buf' = [buf EXCEPT ![t] = "null"]
  /\ UNCHANGED <<apic, ioctlState, nested, nsize, holder, loaded, srcu, ioctlFreed, call, seen, ret, count, given>>

(* out: kfree(u.buffer); out_nofree: vcpu_put *)
Out(t) ==
  /\ ioctlPc[t] = "out" /\ IoctlGoto(t, "nofree") /\ ioctlFreed' = (ioctlFreed \/ buf[t] = "error")
  /\ heap' = heap \ {t}
  /\ UNCHANGED <<apic, ioctlState, nested, nsize, holder, loaded, srcu, call, buf, seen, ret, count, given>>
OutNofree(t) ==
  /\ ioctlPc[t] = "nofree" /\ IoctlGoto(t, "user") /\ loaded' = loaded - 1 /\ holder' = IoctlNone
  /\ UNCHANGED <<apic, ioctlState, nested, nsize, srcu, heap, ioctlFreed, call, buf, seen, ret, count, given>>

IoctlNext ==
  \E t \in IoctlThreads :
    \/ Enter(t) \/ LockCall(t) \/ FreeEntries(t) \/ NoApic(t) \/ CopyIn(t) \/ IoctlOp(t) \/ Op2(t) \/ GetNested(t) \/ SetNested(t)
    \/ IoctlUnlock(t) \/ CopyOut(t) \/ Out(t) \/ OutNofree(t)
IoctlSpec == IoctlInit /\ [][IoctlNext]_ioctlVars

-----------------------------------------------------------------------------
(* Only a buffer is freed, never the error pointer that a failed copy left in the same variable. *)
OnlyBuffersFreed == ~ioctlFreed

(* When no call is under way, everything that calls took is back: no buffer leaks and the VCPU and the *)
(* read lock are released, whichever step failed.                                                      *)
NothingHeld ==
  (\A t \in IoctlThreads : ioctlPc[t] = "user") => heap = {} /\ loaded = 0 /\ srcu = 0 /\ holder = IoctlNone

(* What user space reads is the state as one call left it, never half of one call and half of the next. *)
ReadsAreWhole == given[1] = given[2]

(* A pending nested entry is only ever set together with guest mode ("nested_run_pending implies *)
(* guest_mode").                                                                                 *)
RunPendingInGuestMode == "run_pending" \in nested => "guest_mode" \in nested
=============================================================================
