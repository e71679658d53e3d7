-------------------------- MODULE KvmMachineProofs --------------------------
(***************************************************************************)
(* Virtual machines (MCKvmMachine), for every value of the constants: what *)
(* a machine, a virtual CPU or a call has taken is given back exactly once *)
(* whichever step fails, but for three things the code leaves behind, each *)
(* of them counted; nothing runs on what was freed, the parts of a machine *)
(* agree whichever thread comes first, and a VCPU that sleeps is on the    *)
(* list that wakes it.                                                     *)
(***************************************************************************)
EXTENDS MCKvmMachine, FiniteSetTheorems, TLAPS

-----------------------------------------------------------------------------
(***************************************************************************)
(* The module.  What it holds is told by where its loading or unloading    *)
(* is; the clock can queue work only while the notifier is registered.     *)
(***************************************************************************)
AllCaches == Undone(4)
Quiescent == irq_work = "idle" /\ work = "idle"

ModuleInv ==
  /\ irq_work \in {"idle", "queued"} /\ work \in {"idle", "queued"} /\ ops \in BOOLEAN
  /\ modulePc \in {"absent", "init", "setup", "loaded", "exit", "irq_work_sync", "cancel_work", "free"}
  /\ modulePc = "absent" => moduleHeld = {} /\ ~ops /\ Quiescent
  /\ modulePc = "init" => ~ops /\ Quiescent /\ \E n \in 0 .. 4 : moduleHeld = Undone(n)
  /\ modulePc \in {"setup", "loaded", "exit"} => moduleHeld = AllCaches \cup Callbacks
  /\ modulePc \in {"irq_work_sync", "cancel_work", "free"} => moduleHeld = AllCaches
  /\ modulePc \in {"cancel_work", "free"} => irq_work = "idle"
  /\ modulePc = "free" => work = "idle"

(***************************************************************************)
(* The life of a machine.  The periodic work is cancelled before the one   *)
(* it queues, and a VCPU whose MMU is loaded is online.                    *)
(***************************************************************************)
Slotted == {"none", "failed", "live", "sync", "sync2", "regions"}
Unslotted == {"unload", "vcpus", "freed"}
VmStates == Slotted \cup Unslotted

(* The slot of the second address space is made after that of the first and at the same address; no two *)
(* regions share an address; a mapping belongs to both slots of a region or to a call that failed.      *)
SecondFollows == \A r \in Regions : hva[r][1] # NoHva => hva[r][1] = hva[r][0]
Apart == \A r \in Regions : /\ hva[r][0] < fresh
                            /\ \A q \in Regions : q # r /\ hva[r][0] # NoHva => hva[q][0] # hva[r][0]
Accounted == \A m \in maps : m \in stray \/ \E r \in Regions : hva[r][0] = m /\ hva[r][1] = m

VmSlots ==
  /\ hva \in [Regions -> [Spaces -> Nat]] /\ fresh \in Nat \ {0} /\ NoHva \notin maps
  /\ SlotsAreMapped
  /\ vmState \in Slotted => SecondFollows /\ Apart /\ Accounted
  /\ MapsGivenBack

VmInv ==
  /\ vmState \in VmStates /\ sync_work \in BOOLEAN /\ update_work \in BOOLEAN
  /\ vmState \notin {"none", "failed", "live", "sync"} => ~sync_work
  /\ vmState \notin {"none", "failed", "live", "sync", "sync2"} => ~update_work
  /\ mmu \subseteq online
  /\ UnpinnedFirst /\ PageTrackHeld /\ VmSlots

(***************************************************************************)
(* The creation of VCPUs.  What a VCPU has is told by how far it came:     *)
(* the parts before the next one while it is created, those whose labels   *)
(* are still to come on the error path, and all but those given back       *)
(* while it is destroyed.                                                  *)
(***************************************************************************)
NoLapic(v) == IF v \in Irqchip THEN {} ELSE {"lapic"}
FirstParts(n) == {VcpuParts[i] : i \in 1 .. n}
GivenBack(n) == {Destroyed[i] : i \in 1 .. n}

(* The parts of a VCPU that is being created, undone or destroyed. *)
Holdings(v) ==
  /\ vcpuState[v] = "none" => vcpuAt[v] = 0 /\ vcpuHeld[v] = {}
  /\ vcpuState[v] = "create" => /\ vcpuAt[v] \in 1 .. 10
                                /\ vcpuHeld[v] = FirstParts(vcpuAt[v] - 1) \ NoLapic(v)
  /\ vcpuState[v] = "undo" => /\ vcpuAt[v] \in 1 .. 9
                              /\ vcpuHeld[v] = FirstParts(9 - vcpuAt[v]) \ NoLapic(v)
  /\ vcpuState[v] = "live" => /\ vcpuAt[v] = 0
                              /\ vcpuHeld[v] \ {"cpuid_entries"} = FirstParts(9) \ NoLapic(v)
  /\ vcpuState[v] = "destroy" =>
       /\ vcpuAt[v] \in 1 .. 11
       /\ vcpuHeld[v] \ {"cpuid_entries"} = (FirstParts(9) \ NoLapic(v)) \ GivenBack(vcpuAt[v] - 1)
       /\ vcpuAt[v] = 11 => "cpuid_entries" \notin vcpuHeld[v]

VcpuInv ==
  /\ vcpuState \in [VcpuVcpus -> {"none", "create", "undo", "live", "destroy"}]
  /\ vcpuAt \in [VcpuVcpus -> 0 .. 11]
  /\ vcpuHeld \in [VcpuVcpus -> SUBSET (Range(VcpuParts) \cup {"cpuid_entries"})]
  /\ noapic \in Nat /\ leaked \in Nat
  /\ \A v \in VcpuVcpus : Holdings(v)
  /\ KeyCounts

(***************************************************************************)
(* The configuration of a machine.                                         *)
(***************************************************************************)
(* Where a call of a thread may be. *)
Place(o, a) ==
  \/ o = "idle" /\ a = "user"
  \/ o = "vcpu" /\ a = "create"
  \/ o \in {"chip", "line"} /\ a = "use"
  \/ o = "pit" /\ a = "unlock"
  \/ o = "irqchip" /\ a \in {"pic", "ioapic", "routing", "publish", "unlock"}
  \/ o = "split" /\ a \in {"routing", "publish", "pins", "unlock"}
  \/ o = "set_pit" /\ a \in {"lock", "channels", "pit_unlock", "unlock"}
  \/ o = "set_pit2" /\ a \in {"lock", "channels", "flags", "pit_unlock", "unlock"}
  \/ o = "get_pit" /\ a \in {"lock", "channels", "flags", "pit_unlock", "got"}

(* The calls that hold kvm->lock from their first step to "unlock". *)
Locking == {"irqchip", "split", "pit", "set_pit", "set_pit2"}
InPit == {"channels", "flags", "pit_unlock"}
(* A controller is being made and not yet what the VCPUs will be told of. *)
Making == {"pic", "ioapic", "routing", "publish", "pins"}

SetupOps == {"idle", "vcpu", "chip", "line", "pit", "irqchip", "split", "set_pit", "set_pit2", "get_pit"}
SetupAts == {"user", "create", "use", "pic", "ioapic", "routing", "publish", "pins", "lock", "channels", "flags",
             "pit_unlock", "got", "unlock"}
SetupRecs == [op : SetupOps, at : SetupAts, v : Nat \cup SetupVcpus, w : Nat]
VcpuRecs == [made : BOOLEAN, lapic : BOOLEAN, pins : Nat \cup SetupVcpus, boot : BOOLEAN]

SetupTypes ==
  /\ setupPc \in [SetupThreads -> SetupRecs]
  /\ irqchip_mode \in {"none", "kernel", "split"}
  /\ pic \in BOOLEAN /\ ioapic \in BOOLEAN /\ routing \in BOOLEAN /\ vpit \in BOOLEAN
  /\ setupVcpu \in [SetupVcpus -> VcpuRecs]
  /\ nr_pins \in Nat \cup SetupVcpus /\ channels \in Nat /\ setupFlags \in Nat /\ writes \in Nat
InPlace ==
  \A t \in SetupThreads : /\ Place(setupPc[t].op, setupPc[t].at)
                          /\ setupPc[t].op = "vcpu" => setupPc[t].v \in SetupVcpus

(* Each lock has the one holder that is where it holds it. *)
SetupLocks ==
  \A t \in SetupThreads : /\ setupPc[t].op \in Locking <=> lock = t
                          /\ setupPc[t].at \in InPit <=> pit_lock = t

(* The devices there are, by the place of the thread that makes them. *)
DevicesAt(t) ==
  /\ setupPc[t].op = "irqchip" /\ setupPc[t].at # "unlock" =>
       /\ irqchip_mode = "none"
       /\ pic <=> setupPc[t].at # "pic"
       /\ ioapic <=> setupPc[t].at \in {"routing", "publish"}
       /\ routing <=> setupPc[t].at = "publish"
  /\ setupPc[t].op = "split" /\ setupPc[t].at \in {"routing", "publish"} =>
       /\ irqchip_mode = "none" /\ ~pic /\ ~ioapic
       /\ routing <=> setupPc[t].at = "publish"
  /\ setupPc[t].at = "pins" => irqchip_mode = "split"
  /\ setupPc[t].op \in Locking /\ setupPc[t].at \notin Making /\ irqchip_mode = "none" =>
       ~pic /\ ~ioapic /\ ~routing
  /\ setupPc[t].op = "chip" => irqchip_mode = "kernel"
  /\ setupPc[t].op = "line" => irqchip_mode # "none"
Devices ==
  /\ irqchip_mode = "kernel" => pic /\ ioapic /\ routing
  /\ irqchip_mode = "split" => routing
  /\ FailureLeavesNothing
  /\ \A t \in SetupThreads : DevicesAt(t)

(* A VCPU is counted before it is made, and no controller is being made once one is counted. *)
Counting ==
  /\ \A c \in SetupVcpus : setupVcpu[c].made => c \in created
  /\ \A t \in SetupThreads : /\ setupPc[t].op = "vcpu" => setupPc[t].v \in created
                             /\ setupPc[t].at \in Making => created = {}

(* The timer is in a state it was left in unless its writer is between the two halves; a reader has *)
(* what there is.                                                                                   *)
Writing(t) == setupPc[t].op # "get_pit" /\ setupPc[t].at \in {"flags", "pit_unlock"}
PitStates ==
  /\ (\A t \in SetupThreads : ~Writing(t)) => <<channels, setupFlags>> \in states
  /\ \A t \in SetupThreads : setupPc[t].op = "get_pit" =>
       /\ setupPc[t].at \in {"flags", "pit_unlock"} => setupPc[t].v = channels
       /\ setupPc[t].at = "pit_unlock" => setupPc[t].w = setupFlags

SetupInv ==
  SetupTypes /\ InPlace /\ SetupLocks /\ Devices /\ Counting /\ VcpusAgree /\ OneBootCpu /\ PitStates /\ PitSnapshot

(***************************************************************************)
(* Capabilities: the shapes of the records, and the two properties.        *)
(***************************************************************************)
CapVms ==
  [quirks : SUBSET {"odd"}, irqchip : BOOLEAN, x2apic : SUBSET X2ApicBits, exits : SUBSET ExitBits,
   flags : SUBSET VmCaps, user_msr : SUBSET {"odd"}, bus_lock : BOOLEAN, provision : BOOLEAN,
   copied : BOOLEAN, hypercall : SUBSET HypercallBits]
CapVcpus == [synic : {"no", "auto_eoi", "no_auto_eoi"}, evmcs : BOOLEAN, tlbflush : BOOLEAN,
             enforce : SUBSET VcpuCaps]

(* A call on a VCPU needs one. *)
CallNeedsVcpu == vcpus \in Nat /\ (last.cap \in {"HYPERV_SYNIC", "HYPERV_SYNIC2"} => vcpus > 0)

CapInv == capVm \in CapVms /\ capVcpu \in CapVcpus /\ InForceIsReported /\ ReportedCanBeHad

(***************************************************************************)
(* The calls on a VCPU.                                                    *)
(***************************************************************************)
IoctlPlaces == {"user", "lock", "in", "op", "op2", "unlock", "copyout", "kfree", "out", "nofree"}
Halves == [1 .. 2 -> 0 .. 2]

IoctlTypes ==
  /\ ioctlPc \in [IoctlThreads -> IoctlPlaces] /\ DOMAIN call = IoctlThreads
  /\ DOMAIN buf = IoctlThreads /\ DOMAIN ret = IoctlThreads /\ heap \subseteq IoctlThreads
  /\ ioctlState \in Halves /\ seen \in [IoctlThreads -> Halves] /\ given \in Halves
  /\ loaded \in Nat /\ srcu \in Nat

(* One thread at a time is between vcpu_load and vcpu_put. *)
OneInside ==
  /\ holder \in IoctlThreads \cup {IoctlNone}
  /\ \A t \in IoctlThreads : ioctlPc[t] # "user" <=> holder = t
  /\ loaded = IF holder = IoctlNone THEN 0 ELSE 1

(* SRCU is held by the thread that is in the operation of a call that takes it, or anywhere between the *)
(* two ends of a call that is locked as a whole.                                                        *)
SrcuAt(t, p) ==
  \/ Sh(t).srcu = "op" /\ p \in {"op2", "unlock"}
  \/ Sh(t).srcu = "call" /\ p \in {"in", "op", "op2", "unlock", "copyout", "kfree"}
SrcuTaken(t) == SrcuAt(t, ioctlPc[t])
SrcuBalance ==
  /\ srcu = IF \E t \in IoctlThreads : SrcuTaken(t) THEN 1 ELSE 0
  /\ \A t \in IoctlThreads : ioctlPc[t] \in {"lock", "kfree"} => Sh(t).srcu = "call"

(* A buffer is freed where it is, and an error pointer is only where nothing is freed. *)
Buffers ==
  /\ \A t \in heap : ioctlPc[t] \in {"op", "op2", "unlock", "copyout", "kfree", "out"}
  /\ \A t \in IoctlThreads : ioctlPc[t] \in IoctlPlaces \ {"user", "nofree"} => buf[t] # "error"
  /\ ~ioctlFreed

(* The state is whole but for the call that has written the first half, and so is what was seen of it. *)
WholeState ==
  /\ IF \E t \in IoctlThreads : ioctlPc[t] = "op2" /\ Sh(t).sets
     THEN ioctlState[1] = (ioctlState[2] + 1) % 3 ELSE ioctlState[1] = ioctlState[2]
  /\ \A t \in IoctlThreads :
       IF ioctlPc[t] = "op2" /\ ~Sh(t).sets THEN seen[t][1] = ioctlState[1] ELSE seen[t][1] = seen[t][2]
  /\ given[1] = given[2]

IoctlInv == IoctlTypes /\ OneInside /\ SrcuBalance /\ Buffers /\ WholeState /\ RunPendingInGuestMode

-----------------------------------------------------------------------------
(* The first n caches, spelled out. *)
LEMMA CachesAre ==
    /\ Undone(0) = {}
    /\ Undone(1) = {"fpu_cache"}
    /\ Undone(2) = {"fpu_cache", "emulator_cache"}
    /\ Undone(3) = {"fpu_cache", "emulator_cache", "percpu"}
    /\ Undone(4) = {"fpu_cache", "emulator_cache", "percpu", "mmu"}
    /\ Range(Caches) = Undone(4) /\ Len(Caches) = 4
<1>1. /\ Len(Caches) = 4 /\ DOMAIN Caches = 1 .. 4
      /\ Caches[1] = "fpu_cache" /\ Caches[2] = "emulator_cache"
      /\ Caches[3] = "percpu" /\ Caches[4] = "mmu"
  BY DEF Caches
<1>2. Undone(0) = {}
  BY DEF Undone
<1>3. Undone(1) = {Caches[1]}
  BY DEF Undone
<1>4. Undone(2) = {Caches[1], Caches[2]}
  BY DEF Undone
<1>5. Undone(3) = {Caches[1], Caches[2], Caches[3]}
  BY DEF Undone
<1>6. Undone(4) = {Caches[1], Caches[2], Caches[3], Caches[4]}
  BY DEF Undone
<1>7. Range(Caches) = Undone(4)
  BY <1>1 DEF Range, Undone
<1>8. QED
  BY <1>1, <1>2, <1>3, <1>4, <1>5, <1>6, <1>7

(* While the first n caches are held Got is n. *)
LEMMA GotIs ==
    ASSUME NEW n \in 0 .. 4, moduleHeld = Undone(n)
    PROVE  Got = n
<1>1. moduleHeld \cap Range(Caches) = Undone(n)
  <2>1. n = 0 \/ n = 1 \/ n = 2 \/ n = 3 \/ n = 4
    OBVIOUS
  <2>2. QED
    BY <2>1, CachesAre
<1>2. Cardinality(Undone(0)) = 0 /\ IsFiniteSet(Undone(0))
  BY CachesAre, FS_EmptySet
<1>3. ASSUME NEW S, IsFiniteSet(S), NEW x, x \notin S, NEW k \in Nat, Cardinality(S) = k
      PROVE  IsFiniteSet(S \cup {x}) /\ Cardinality(S \cup {x}) = k + 1
  BY <1>3, FS_AddElement
<1>4. Undone(1) = Undone(0) \cup {"fpu_cache"} /\ "fpu_cache" \notin Undone(0)
  BY CachesAre
<1>5. Undone(2) = Undone(1) \cup {"emulator_cache"} /\ "emulator_cache" \notin Undone(1)
  BY CachesAre
<1>6. Undone(3) = Undone(2) \cup {"percpu"} /\ "percpu" \notin Undone(2)
  BY CachesAre
<1>7. Undone(4) = Undone(3) \cup {"mmu"} /\ "mmu" \notin Undone(3)
  BY CachesAre
<1>8. Cardinality(Undone(1)) = 1 /\ IsFiniteSet(Undone(1))
  BY <1>2, <1>3, <1>4
<1>9. Cardinality(Undone(2)) = 2 /\ IsFiniteSet(Undone(2))
  BY <1>8, <1>3, <1>5
<1>10. Cardinality(Undone(3)) = 3 /\ IsFiniteSet(Undone(3))
  BY <1>9, <1>3, <1>6
<1>11. Cardinality(Undone(4)) = 4
  BY <1>10, <1>3, <1>7
<1>12. QED
  BY <1>1, <1>2, <1>8, <1>9, <1>10, <1>11 DEF Got

LEMMA ModuleInitInv == ModuleInit => ModuleInv
  BY DEF ModuleInit, ModuleInv, Quiescent

LEMMA ModuleNextInv ==
    ASSUME ModuleInv, ModuleNext
    PROVE  ModuleInv'
<1> USE DEF ModuleInv, Quiescent, AllCaches
<1>1. ASSUME NEW v \in Vendors, Begin(v) PROVE ModuleInv'
  <2>1. 0 \in 0 .. 4 /\ Undone(0) = {}
    BY CachesAre
  <2>2. QED
    BY <1>1, <2>1 DEF Begin
<1>2. CASE ModuleGet
  <2>1. PICK n \in 0 .. 4 : moduleHeld = Undone(n)
    BY <1>2 DEF ModuleGet
  <2>2. Got = n /\ n < 4
    BY <1>2, <2>1, GotIs, CachesAre DEF ModuleGet
  <2>3. moduleHeld' = Undone(n + 1) /\ n + 1 \in 0 .. 4
    <3>1. Undone(n + 1) = Undone(n) \cup {Caches[n + 1]}
      BY <2>2 DEF Undone
    <3>2. QED
      BY <1>2, <2>1, <2>2, <3>1 DEF ModuleGet
  <2>4. QED
    BY <1>2, <2>3 DEF ModuleGet
<1>3. CASE GetFails
  <2>1. PICK n \in 0 .. 4 : moduleHeld = Undone(n)
    BY <1>3 DEF GetFails
  <2>2. moduleHeld' = {}
    BY <1>3, <2>1, GotIs DEF GetFails
  <2>3. QED
    BY <1>3, <2>2 DEF GetFails
<1>4. CASE Register
  <2>1. PICK n \in 0 .. 4 : moduleHeld = Undone(n)
    BY <1>4 DEF Register
  <2>2. n = 4
    BY <1>4, <2>1, GotIs, CachesAre DEF Register
  <2>3. QED
    BY <1>4, <2>1, <2>2 DEF Register
<1>5. CASE kvm_arch_hardware_setup
  BY <1>5 DEF kvm_arch_hardware_setup
<1>6. CASE ModuleUnload
  BY <1>6 DEF ModuleUnload
<1>7. CASE Unregister
  <2>1. AllCaches \cap Callbacks = {}
    BY CachesAre DEF Callbacks
  <2>2. moduleHeld' = AllCaches
    BY <1>7, <2>1 DEF Unregister
  <2>3. QED
    BY <1>7, <2>2 DEF Unregister
<1>8. CASE irq_work_sync
  BY <1>8 DEF irq_work_sync
<1>9. CASE cancel_work_sync
  BY <1>9 DEF cancel_work_sync
<1>10. CASE ModuleFree
  <2>1. moduleHeld' = {}
    BY <1>10, CachesAre DEF ModuleFree
  <2>2. QED
    BY <1>10, <2>1 DEF ModuleFree
<1>11. ASSUME irq_work' \in {"idle", "queued"}, work' \in {"idle", "queued"},
              "gtod" \in moduleHeld \/ irq_work = "queued" \/ work = "queued",
              irq_work' # "queued" \/ "gtod" \in moduleHeld,
              work' # "queued" \/ work = "queued" \/ irq_work = "queued",
              UNCHANGED <<modulePc, ops, moduleHeld>>
       PROVE  ModuleInv'
  <2>1. "gtod" \notin {} /\ "gtod" \notin AllCaches
    BY CachesAre
  <2>2. ASSUME NEW n \in 0 .. 4 PROVE "gtod" \notin Undone(n)
    BY CachesAre
  <2>3. modulePc \notin {"absent", "init"}
    BY <1>11, <2>1, <2>2
  <2>4. QED
    BY <1>11, <2>1, <2>3
<1>12. CASE pvclock_gtod_notify
  BY <1>11, <1>12 DEF pvclock_gtod_notify
<1>13. CASE pvclock_irq_work_fn
  BY <1>11, <1>13 DEF pvclock_irq_work_fn
<1>14. CASE pvclock_gtod_update_fn
  BY <1>14 DEF pvclock_gtod_update_fn
<1>15. QED
  BY <1>1, <1>2, <1>3, <1>4, <1>5, <1>6, <1>7, <1>8, <1>9, <1>10, <1>12, <1>13, <1>14
     DEF ModuleNext, ModuleLoad, Exit

-----------------------------------------------------------------------------
LEMMA VmInitInv == VmInit => VmInv
<1> SUFFICES ASSUME VmInit PROVE VmInv
  OBVIOUS
<1>1. hva \in [Regions -> [Spaces -> Nat]] /\ \A r \in Regions, s \in Spaces : hva[r][s] = NoHva
  BY DEF VmInit, NoHva
<1>2. vmState = "none" /\ mmu = {} /\ fresh = 1 /\ fresh \in Nat \ {0} /\ mmu \subseteq online /\ maps = {}
  BY DEF VmInit
<1>3. SlotsAreMapped /\ SecondFollows /\ Apart /\ Accounted
  BY <1>1, <1>2 DEF SlotsAreMapped, SecondFollows, Apart, Accounted, Spaces, NoHva
<1>4. sync_work \in BOOLEAN /\ ~sync_work /\ update_work \in BOOLEAN /\ ~update_work
  BY Zenon DEF VmInit
<1>5. vmState \in VmStates /\ UnpinnedFirst /\ PageTrackHeld /\ MapsGivenBack
  BY <1>2 DEF VmStates, Slotted, UnpinnedFirst, PageTrackHeld, MapsGivenBack
<1>6. QED
  BY <1>1, <1>2, <1>3, <1>4, <1>5 DEF VmInv, VmSlots

(* A step that leaves the slots alone and does not pass the point where they are freed. *)
LEMMA SlotsStay ==
    ASSUME VmSlots, UNCHANGED regionVars, vmState' \in Slotted => vmState \in Slotted,
           vmState' \in Unslotted /\ ours' => vmState \in Unslotted /\ ours
    PROVE  VmSlots'
<1>1. UNCHANGED <<hva, maps, fresh, stray>>
  BY DEF regionVars
<1>2. SlotsAreMapped'
  BY <1>1 DEF VmSlots, SlotsAreMapped
<1>3. vmState' \in Slotted => SecondFollows' /\ Apart' /\ Accounted'
  BY <1>1 DEF VmSlots, SecondFollows, Apart, Accounted
<1>4. MapsGivenBack'
  BY <1>1 DEF VmSlots, MapsGivenBack, Unslotted
<1>5. QED
  BY <1>1, <1>2, <1>3, <1>4 DEF VmSlots

(* A region is added, in none, one or both address spaces. *)
LEMMA SlotsAdded ==
    ASSUME VmSlots, NEW r \in Regions, AddRegion(r)
    PROVE  VmSlots'
<1>0. /\ vmState = "live" /\ vmState' = "live" /\ hva[r][0] = NoHva /\ maps' = maps \cup {fresh} /\ fresh' = fresh + 1
  BY DEF AddRegion
<1>1. PICK d \in SUBSET Spaces :
        /\ 1 \in d => 0 \in d
        /\ hva' = [hva EXCEPT ![r] = [s \in Spaces |-> IF s \in d THEN fresh ELSE @[s]]]
        /\ stray' = IF d = Spaces THEN stray ELSE stray \cup {fresh}
  BY DEF AddRegion
<1>2. /\ hva \in [Regions -> [Spaces -> Nat]] /\ fresh \in Nat \ {0} /\ NoHva \notin maps
      /\ SlotsAreMapped /\ SecondFollows /\ Apart /\ Accounted
  BY <1>0 DEF VmSlots, Slotted
<1>3. hva[r][1] = NoHva
  BY <1>0, <1>2 DEF SecondFollows
<1>4. \A s \in Spaces : hva'[r][s] = IF s \in d THEN fresh ELSE NoHva
  BY <1>0, <1>1, <1>2, <1>3 DEF Spaces
<1>5. \A q \in Regions \ {r} : hva'[q] = hva[q]
  BY <1>1, <1>2
<1>6. hva' \in [Regions -> [Spaces -> Nat]]
  BY <1>1, <1>2
<1>7. fresh' \in Nat \ {0} /\ NoHva \notin maps'
  BY <1>0, <1>2 DEF NoHva
<1>8. SlotsAreMapped'
  BY <1>0, <1>2, <1>4, <1>5 DEF SlotsAreMapped
<1>9. hva'[r][0] = (IF 0 \in d THEN fresh ELSE NoHva) /\ hva'[r][1] = (IF 1 \in d THEN fresh ELSE NoHva)
  BY <1>4 DEF Spaces
<1>10. SecondFollows'
  BY <1>1, <1>2, <1>5, <1>9 DEF SecondFollows, NoHva
<1>11. Apart'
  <2>1. \A q \in Regions \ {r} : hva'[q][0] = hva[q][0] /\ hva[q][0] < fresh /\ hva[q][0] \in Nat
    BY <1>2, <1>5 DEF Apart, Spaces
  <2>2. \A p, q \in Regions \ {r} : q # p /\ hva[p][0] # NoHva => hva[q][0] # hva[p][0]
    BY <1>2 DEF Apart
  <2>3. QED
    BY <1>0, <1>2, <1>9, <2>1, <2>2 DEF Apart, NoHva
<1>12. Accounted'
  <2> SUFFICES ASSUME NEW m \in maps'
               PROVE  m \in stray' \/ \E q \in Regions : hva'[q][0] = m /\ hva'[q][1] = m
    BY DEF Accounted
  <2>1. CASE m = fresh
    <3>1. CASE d = Spaces
      BY <1>9, <2>1, <3>1 DEF Spaces
    <3>2. CASE d # Spaces
      BY <1>1, <2>1, <3>2
    <3>3. QED
      BY <3>1, <3>2
  <2>2. CASE m \in maps /\ m \in stray
    BY <1>1, <2>2
  <2>3. CASE m \in maps /\ m \notin stray
    <3>1. PICK q \in Regions : hva[q][0] = m /\ hva[q][1] = m
      BY <1>2, <2>3 DEF Accounted
    <3>2. q # r
      BY <1>0, <1>2, <2>3, <3>1
    <3>3. QED
      BY <1>5, <3>1, <3>2
  <2>4. QED
    BY <1>0, <2>1, <2>2, <2>3
<1>13. MapsGivenBack'
  BY <1>0 DEF MapsGivenBack
<1>14. QED
  BY <1>6, <1>7, <1>8, <1>10, <1>11, <1>12, <1>13 DEF VmSlots

(* The regions are removed, each as far as it goes. *)
LEMMA SlotsFreed ==
    ASSUME VmSlots, FreeRegions
    PROVE  VmSlots'
<1>0. vmState = "regions" /\ vmState' = "unload" /\ fresh' = fresh /\ ours' = ours
  BY DEF FreeRegions
<1>1. /\ hva \in [Regions -> [Spaces -> Nat]] /\ fresh \in Nat \ {0} /\ NoHva \notin maps
      /\ SlotsAreMapped /\ SecondFollows /\ Apart /\ Accounted
  BY <1>0 DEF VmSlots, Slotted
<1>2. CASE ~ours
  <2>1. UNCHANGED <<maps, hva, stray>>
    BY <1>2 DEF FreeRegions
  <2>2. SlotsAreMapped' /\ MapsGivenBack'
    BY <1>0, <1>1, <1>2, <2>1 DEF SlotsAreMapped, MapsGivenBack
  <2>3. QED
    BY <1>0, <1>1, <2>1, <2>2 DEF VmSlots, Slotted
<1>3. CASE ours
  <2>1. PICK gone \in [Regions -> SUBSET Spaces] :
          /\ \A r \in Regions : Removable(r, gone[r])
          /\ hva' = [r \in Regions |-> [s \in Spaces |-> IF s \in gone[r] THEN NoHva ELSE hva[r][s]]]
          /\ maps' = maps \ {hva[r][0] : r \in {q \in Regions : gone[q] = Spaces}}
          /\ stray' = stray \cup {hva[r][0] : r \in {q \in Regions : gone[q] # Spaces /\ hva[q][0] # NoHva}}
    BY <1>3 DEF FreeRegions
  <2>2. hva' \in [Regions -> [Spaces -> Nat]]
    BY <1>1, <2>1 DEF NoHva
  <2>3. SlotsAreMapped'
    <3> SUFFICES ASSUME NEW r \in Regions, NEW s \in Spaces, hva'[r][s] # NoHva PROVE hva'[r][s] \in maps'
      BY DEF SlotsAreMapped
    <3>1. s \notin gone[r] /\ hva'[r][s] = hva[r][s]
      BY <2>1
    <3>2. hva[r][s] \in maps /\ hva[r][s] = hva[r][0]
      BY <1>1, <3>1 DEF SlotsAreMapped, SecondFollows, Spaces
    <3>3. ASSUME NEW q \in Regions, gone[q] = Spaces PROVE hva[q][0] # hva[r][0]
      <4>1. q # r /\ hva[r][0] # NoHva
        BY <3>1, <3>2, <3>3
      <4>2. QED
        BY <1>1, <4>1 DEF Apart
    <3>4. QED
      BY <2>1, <3>1, <3>2, <3>3
  <2>4. MapsGivenBack'
    <3> SUFFICES ASSUME NEW m \in maps' PROVE m \in stray'
      BY DEF MapsGivenBack
    <3>1. CASE m \in stray
      BY <2>1, <3>1
    <3>2. CASE m \notin stray
      <4>1. m \in maps /\ m # NoHva
        BY <1>1, <2>1
      <4>2. PICK r \in Regions : hva[r][0] = m /\ hva[r][1] = m
        BY <1>1, <3>2, <4>1 DEF Accounted
      <4>3. gone[r] # Spaces
        BY <2>1, <4>2
      <4>4. QED
        BY <2>1, <4>1, <4>2, <4>3
    <3>3. QED
      BY <3>1, <3>2
  <2>5. QED
    BY <1>0, <1>1, <2>1, <2>2, <2>3, <2>4 DEF VmSlots, Slotted
<1>4. QED
  BY <1>2, <1>3

LEMMA VmNextInv ==
    ASSUME VmInv, VmNext
    PROVE  VmInv'
<1> USE DEF VmInv, VmStates, Slotted, Unslotted, UnpinnedFirst, PageTrackHeld
<1>2. CASE kvm_arch_init_vm
  BY <1>2, SlotsStay DEF kvm_arch_init_vm
<1>3. CASE VmClose
  BY <1>3, SlotsStay DEF VmClose
<1>4. CASE kvmclock_sync_fn
  BY <1>4, SlotsStay DEF kvmclock_sync_fn
<1>5. CASE kvmclock_update_fn
  BY <1>5, SlotsStay DEF kvmclock_update_fn
<1>6. ASSUME NEW v \in VmVcpus, kvm_arch_vcpu_postcreate(v) PROVE VmInv'
  BY <1>6, SlotsStay DEF kvm_arch_vcpu_postcreate
<1>7. ASSUME NEW v \in VmVcpus, Run(v) PROVE VmInv'
  BY <1>7, SlotsStay DEF Run
<1>8. ASSUME NEW r \in Regions, AddRegion(r) PROVE VmInv'
  BY <1>8, SlotsAdded DEF AddRegion
<1>9. CASE CancelSync
  BY <1>9, SlotsStay DEF CancelSync
<1>10. CASE CancelUpdate
  BY <1>10, SlotsStay DEF CancelUpdate
<1>11. CASE FreeRegions
  BY <1>11, SlotsFreed DEF FreeRegions
<1>12. CASE FreeVm
  BY <1>12, SlotsStay DEF FreeVm
<1>13. ASSUME NEW v \in VmVcpus, kvm_unload_vcpu_mmu(v) PROVE VmInv'
  BY <1>13, SlotsStay DEF kvm_unload_vcpu_mmu
<1>14. ASSUME NEW v \in VmVcpus, kvm_vcpu_destroy(v) PROVE VmInv'
  BY <1>14, SlotsStay DEF kvm_vcpu_destroy, Unloaded
<1>15. QED
  BY <1>2, <1>3, <1>4, <1>5, <1>6, <1>7, <1>8, <1>9, <1>10, <1>11, <1>12, <1>13, <1>14 DEF VmNext, Destroy

(* Once an address of a region is returned it stays while the machine lives. *)
LEMMA TranslationStep ==
    ASSUME VmInv, VmNext, vmState = "live", NEW r \in Regions, NEW s \in Spaces, hva[r][s] # NoHva
    PROVE  hva'[r][s] = hva[r][s]
<1>0. hva \in [Regions -> [Spaces -> Nat]] /\ SecondFollows
  BY DEF VmInv, VmSlots, Slotted
<1>1. ASSUME NEW q \in Regions, AddRegion(q) PROVE hva'[r][s] = hva[r][s]
  <2>1. CASE q # r
    BY <1>0, <1>1, <2>1 DEF AddRegion
  <2>2. CASE q = r
    <3>1. hva[r][0] = NoHva /\ hva[r][1] = NoHva
      BY <1>0, <1>1, <2>2 DEF AddRegion, SecondFollows
    <3>2. QED
      BY <3>1 DEF Spaces
  <2>3. QED
    BY <2>1, <2>2
<1>2. CASE UNCHANGED hva
  BY <1>2
<1>3. QED
  BY <1>1, <1>2
     DEF VmNext, Destroy, kvm_arch_init_vm, VmClose, kvmclock_sync_fn, kvmclock_update_fn, kvm_arch_vcpu_postcreate,
         Run, CancelSync, CancelUpdate, FreeRegions, FreeVm, kvm_unload_vcpu_mmu, kvm_vcpu_destroy, regionVars

-----------------------------------------------------------------------------
(* The lists of kvm_arch_vcpu_create, its error path and kvm_arch_vcpu_destroy, spelled out. *)
LEMMA PartsAre ==
    /\ Len(VcpuParts) = 9 /\ Len(Labels) = 8 /\ Len(Destroyed) = 10
    /\ VcpuParts[1] = "mmu" /\ VcpuParts[2] = "lapic" /\ VcpuParts[3] = "pio_data"
    /\ VcpuParts[4] = "mce_banks" /\ VcpuParts[5] = "wbinvd_dirty_mask" /\ VcpuParts[6] = "emulate_ctxt"
    /\ VcpuParts[7] = "user_fpu" /\ VcpuParts[8] = "guest_fpu" /\ VcpuParts[9] = "vendor"
    /\ \A i \in 1 .. 9 : VcpuParts[i] \in Range(VcpuParts)
<1>1. \A i \in 1 .. 9 : VcpuParts[i] \in Range(VcpuParts)
  BY DEF VcpuParts, Range
<1>2. QED
  BY <1>1 DEF VcpuParts, Labels, Destroyed

(* Each label of the error path gives back the part before the one given back by the label above. *)
LEMMA LabelsMirror ==
    ASSUME NEW j \in 1 .. 8
    PROVE  Labels[j] = VcpuParts[9 - j]
<1>1. /\ Labels[1] = "guest_fpu" /\ Labels[2] = "user_fpu" /\ Labels[3] = "emulate_ctxt"
      /\ Labels[4] = "wbinvd_dirty_mask" /\ Labels[5] = "mce_banks" /\ Labels[6] = "pio_data"
      /\ Labels[7] = "lapic" /\ Labels[8] = "mmu"
  BY DEF Labels
<1>2. j = 1 \/ j = 2 \/ j = 3 \/ j = 4 \/ j = 5 \/ j = 6 \/ j = 7 \/ j = 8
  OBVIOUS
<1>3. QED
  BY <1>1, <1>2, PartsAre

(* The parts are different from each other, and the next one is added to those before it. *)
LEMMA PartsGrow ==
    ASSUME NEW n \in 1 .. 9
    PROVE  /\ FirstParts(n) = FirstParts(n - 1) \cup {VcpuParts[n]}
           /\ VcpuParts[n] \notin FirstParts(n - 1)
           /\ "cpuid_entries" \notin FirstParts(n)
           /\ VcpuParts[n] # "cpuid_entries"
<1>1. FirstParts(n) = FirstParts(n - 1) \cup {VcpuParts[n]}
  BY DEF FirstParts
<1>2. \A i, j \in 1 .. 9 : i # j => VcpuParts[i] # VcpuParts[j]
  <2> SUFFICES ASSUME NEW i \in 1 .. 9, NEW j \in 1 .. 9, i < j PROVE VcpuParts[i] # VcpuParts[j]
    OBVIOUS
  <2>1. /\ i = 1 \/ i = 2 \/ i = 3 \/ i = 4 \/ i = 5 \/ i = 6 \/ i = 7 \/ i = 8 \/ i = 9
        /\ j = 1 \/ j = 2 \/ j = 3 \/ j = 4 \/ j = 5 \/ j = 6 \/ j = 7 \/ j = 8 \/ j = 9
    OBVIOUS
  <2>2. QED
    BY <2>1, PartsAre
<1>3. \A i \in 1 .. 9 : VcpuParts[i] # "cpuid_entries"
  <2> SUFFICES ASSUME NEW i \in 1 .. 9 PROVE VcpuParts[i] # "cpuid_entries"
    OBVIOUS
  <2>1. i = 1 \/ i = 2 \/ i = 3 \/ i = 4 \/ i = 5 \/ i = 6 \/ i = 7 \/ i = 8 \/ i = 9
    OBVIOUS
  <2>2. QED
    BY <2>1, PartsAre
<1>4. QED
  BY <1>1, <1>2, <1>3 DEF FirstParts

LEMMA NoParts == FirstParts(0) = {} /\ GivenBack(0) = {}
  BY DEF FirstParts, GivenBack

(* kvm_arch_vcpu_destroy names every part and the CPUID table last, each once. *)
LEMMA DestroyedAre ==
    /\ Destroyed[1] = "vendor" /\ Destroyed[2] = "emulate_ctxt" /\ Destroyed[3] = "wbinvd_dirty_mask"
    /\ Destroyed[4] = "user_fpu" /\ Destroyed[5] = "guest_fpu" /\ Destroyed[6] = "mce_banks"
    /\ Destroyed[7] = "lapic" /\ Destroyed[8] = "mmu" /\ Destroyed[9] = "pio_data"
    /\ Destroyed[10] = "cpuid_entries"
  BY DEF Destroyed

LEMMA GivenBackGrows ==
    ASSUME NEW n \in 1 .. 10
    PROVE  /\ GivenBack(n) = GivenBack(n - 1) \cup {Destroyed[n]}
           /\ Destroyed[n] \notin GivenBack(n - 1)
           /\ n < 10 => Destroyed[n] \in FirstParts(9) /\ Destroyed[n] # "cpuid_entries"
<1>1. GivenBack(n) = GivenBack(n - 1) \cup {Destroyed[n]}
  BY DEF GivenBack
<1>2. \A i, j \in 1 .. 10 : i # j => Destroyed[i] # Destroyed[j]
  <2> SUFFICES ASSUME NEW i \in 1 .. 10, NEW j \in 1 .. 10, i < j PROVE Destroyed[i] # Destroyed[j]
    OBVIOUS
  <2>1. /\ i = 1 \/ i = 2 \/ i = 3 \/ i = 4 \/ i = 5 \/ i = 6 \/ i = 7 \/ i = 8 \/ i = 9 \/ i = 10
        /\ j = 1 \/ j = 2 \/ j = 3 \/ j = 4 \/ j = 5 \/ j = 6 \/ j = 7 \/ j = 8 \/ j = 9 \/ j = 10
    OBVIOUS
  <2>2. QED
    BY <2>1, DestroyedAre
<1>3. n < 10 => Destroyed[n] \in FirstParts(9) /\ Destroyed[n] # "cpuid_entries"
  <2> SUFFICES ASSUME n < 10 PROVE Destroyed[n] \in FirstParts(9) /\ Destroyed[n] # "cpuid_entries"
    OBVIOUS
  <2>1. n = 1 \/ n = 2 \/ n = 3 \/ n = 4 \/ n = 5 \/ n = 6 \/ n = 7 \/ n = 8 \/ n = 9
    OBVIOUS
  <2>2. \A i \in 1 .. 9 : VcpuParts[i] \in FirstParts(9)
    BY DEF FirstParts
  <2>3. QED
    BY <2>1, <2>2, DestroyedAre, PartsAre
<1>4. QED
  BY <1>1, <1>2, <1>3 DEF GivenBack

LEMMA AllGivenBack == FirstParts(9) \subseteq GivenBack(10)
<1> SUFFICES ASSUME NEW i \in 1 .. 9 PROVE VcpuParts[i] \in GivenBack(10)
  BY DEF FirstParts
<1>1. i = 1 \/ i = 2 \/ i = 3 \/ i = 4 \/ i = 5 \/ i = 6 \/ i = 7 \/ i = 8 \/ i = 9
  OBVIOUS
<1>2. \A j \in 1 .. 10 : Destroyed[j] \in GivenBack(10)
  BY DEF GivenBack
<1>3. QED
  BY <1>1, <1>2, PartsAre, DestroyedAre

LEMMA CountedFacts == IsFiniteSet(Counted) /\ Cardinality(Counted) \in Nat
<1>1. IsFiniteSet(Counted)
  BY CreateAssumption, FS_Subset DEF Counted
<1>2. QED
  BY <1>1, FS_CardinalityType

LEMMA VcpuInitInv == VcpuInit => VcpuInv
<1> SUFFICES ASSUME VcpuInit PROVE VcpuInv
  OBVIOUS
<1>1. Counted = {}
  BY DEF VcpuInit, Counted
<1>2. KeyCounts /\ leaked \in Nat
  BY <1>1, FS_EmptySet DEF VcpuInit, KeyCounts
<1>3. QED
  BY <1>2 DEF VcpuInit, VcpuInv, Holdings

(* A step of one VCPU: what it has afterwards, and how the count compares. *)
LEMMA VcpuStep ==
    ASSUME VcpuInv, NEW v \in VcpuVcpus,
           NEW s \in {"none", "create", "undo", "live", "destroy"}, NEW k \in 0 .. 11,
           NEW h \in SUBSET (Range(VcpuParts) \cup {"cpuid_entries"}),
           vcpuState' = [vcpuState EXCEPT ![v] = s], vcpuAt' = [vcpuAt EXCEPT ![v] = k],
           vcpuHeld' = [vcpuHeld EXCEPT ![v] = h], noapic' \in Nat, leaked' \in Nat,
           Holdings(v)', KeyCounts'
    PROVE  VcpuInv'
<1>1. ASSUME NEW u \in VcpuVcpus, u # v PROVE Holdings(u)'
  BY <1>1 DEF VcpuInv, Holdings
<1>2. QED
  BY <1>1 DEF VcpuInv

LEMMA VcpuNextInv ==
    ASSUME VcpuInv, VcpuNext
    PROVE  VcpuInv'
<1> PICK v \in VcpuVcpus :
      \/ Start(v) \/ VcpuGet(v) \/ Fail(v) \/ Created(v) \/ SetCpuid(v) \/ Undo(v) \/ Failed(v)
      \/ kvm_arch_vcpu_destroy(v) \/ VcpuFree(v) \/ Freed(v)
  BY DEF VcpuNext
<1> DEFINE H == vcpuHeld[v]
           K == vcpuAt[v]
<1>0. /\ vcpuState \in [VcpuVcpus -> {"none", "create", "undo", "live", "destroy"}]
      /\ vcpuAt \in [VcpuVcpus -> 0 .. 11] /\ noapic \in Nat /\ leaked \in Nat
      /\ vcpuHeld \in [VcpuVcpus -> SUBSET (Range(VcpuParts) \cup {"cpuid_entries"})]
      /\ Holdings(v) /\ noapic = Cardinality(Counted) + leaked
      /\ H \in SUBSET (Range(VcpuParts) \cup {"cpuid_entries"}) /\ K \in 0 .. 11
  BY DEF VcpuInv, KeyCounts
<1>a. \* the count of a step after which the same VCPUs stand for the key
      ASSUME Counted' = Counted, noapic' = noapic, leaked' = leaked PROVE KeyCounts' /\ leaked' \in Nat
  BY <1>a, <1>0 DEF KeyCounts
<1>b. vcpuHeld = [vcpuHeld EXCEPT ![v] = H] /\ vcpuAt = [vcpuAt EXCEPT ![v] = K]
      /\ vcpuState = [vcpuState EXCEPT ![v] = vcpuState[v]]
  BY <1>0
<1>c. 0 \in 0 .. 11 /\ 1 \in 0 .. 11
  OBVIOUS
<1>1. CASE Start(v)
  <2>1. Counted' = Counted
    BY <1>0, <1>1 DEF Start, Counted
  <2>2. Holdings(v)'
    BY <1>0, <1>1, NoParts DEF Start, Holdings
  <2>3. /\ vcpuState' = [vcpuState EXCEPT ![v] = "create"] /\ vcpuAt' = [vcpuAt EXCEPT ![v] = 1]
        /\ vcpuHeld' = [vcpuHeld EXCEPT ![v] = H] /\ noapic' = noapic /\ leaked' = leaked
    BY <1>1, <1>b DEF Start
  <2> HIDE DEF H, K
  <2>4. QED
    BY <1>0, <1>a, <2>1, <2>2, <2>3, <1>c, VcpuStep
<1>2. CASE VcpuGet(v)
  <2> DEFINE N == IF NeedsNone(v) THEN H ELSE H \cup {VcpuParts[K]}
  <2>1. /\ vcpuState[v] = "create" /\ K \in 1 .. 9 /\ H = FirstParts(K - 1) \ NoLapic(v)
        /\ NeedsNone(v) <=> K = 2 /\ v \notin Irqchip
    <3>1. vcpuState[v] = "create" /\ K \in 1 .. 9 /\ H = FirstParts(K - 1) \ NoLapic(v)
      BY <1>0, <1>2, PartsAre DEF VcpuGet, Holdings
    <3>2. VcpuParts[K] = "lapic" <=> K = 2
      <4>1. K = 1 \/ K = 2 \/ K = 3 \/ K = 4 \/ K = 5 \/ K = 6 \/ K = 7 \/ K = 8 \/ K = 9
        BY <3>1
      <4> HIDE DEF K
      <4>2. QED
        BY <4>1, PartsAre
    <3>3. QED
      BY <3>1, <3>2 DEF NeedsNone
  <2>2. N = FirstParts(K) \ NoLapic(v)
    <3>1. VcpuParts[K] = "lapic" <=> K = 2
      <4>1. K = 1 \/ K = 2 \/ K = 3 \/ K = 4 \/ K = 5 \/ K = 6 \/ K = 7 \/ K = 8 \/ K = 9
        BY <2>1
      <4> HIDE DEF K
      <4>2. QED
        BY <4>1, PartsAre
    <3>2. FirstParts(K) = FirstParts(K - 1) \cup {VcpuParts[K]}
      BY <2>1, PartsGrow
    <3> HIDE DEF K
    <3>3. QED
      BY <2>1, <3>1, <3>2 DEF NoLapic
  <2>3. /\ vcpuState' = [vcpuState EXCEPT ![v] = "create"] /\ vcpuAt' = [vcpuAt EXCEPT ![v] = K + 1]
        /\ vcpuHeld' = [vcpuHeld EXCEPT ![v] = N]
        /\ noapic' = (IF NeedsNone(v) THEN noapic + 1 ELSE noapic) /\ leaked' = leaked
    BY <1>0, <1>2, <1>b, <2>1 DEF VcpuGet, Counts
  <2>4. K + 1 \in 0 .. 11 /\ N \in SUBSET (Range(VcpuParts) \cup {"cpuid_entries"})
    BY <1>0, <2>1, PartsAre
  <2>5. Holdings(v)'
    <3>1. vcpuState'[v] = "create" /\ vcpuAt'[v] = K + 1 /\ vcpuHeld'[v] = N /\ (K + 1) - 1 = K
      BY <1>0, <2>3
    <3>2. QED
      BY <2>1, <2>2, <3>1 DEF Holdings
  <2>6. KeyCounts' /\ noapic' \in Nat /\ leaked' \in Nat
    <3>1. CASE NeedsNone(v)
      <4>1. Counted' = Counted \cup {v} /\ v \notin Counted
        BY <1>0, <2>1, <2>3, <3>1, CreateAssumption DEF Counted
      <4>2. Cardinality(Counted') = Cardinality(Counted) + 1
        BY <4>1, CountedFacts, FS_AddElement
      <4>3. QED
        BY <1>0, <2>3, <3>1, <4>2, CountedFacts DEF KeyCounts
    <3>2. CASE ~NeedsNone(v)
      <4>1. Counted' = Counted
        BY <1>0, <2>1, <2>3, <3>2 DEF Counted
      <4>2. QED
        BY <1>0, <1>a, <2>3, <3>2, <4>1
    <3>3. QED
      BY <3>1, <3>2
  <2> HIDE DEF N, K
  <2>7. QED
    BY <2>3, <2>4, <2>5, <2>6, VcpuStep
<1>3. CASE Fail(v)
  <2>1. vcpuState[v] = "create" /\ K \in 1 .. 9 /\ H = FirstParts(K - 1) \ NoLapic(v)
    BY <1>0, <1>3, PartsAre DEF Fail, Holdings
  <2>2. /\ vcpuState' = [vcpuState EXCEPT ![v] = "undo"] /\ vcpuAt' = [vcpuAt EXCEPT ![v] = 10 - K]
        /\ vcpuHeld' = [vcpuHeld EXCEPT ![v] = H] /\ noapic' = noapic /\ 10 - K \in 1 .. 9
        /\ leaked' = IF v \notin Irqchip /\ K > 2 THEN leaked + 1 ELSE leaked
    BY <1>3, <1>b, <2>1 DEF Fail, Entry
  <2>3. Holdings(v)'
    <3>1. vcpuState'[v] = "undo" /\ vcpuAt'[v] = 10 - K /\ vcpuHeld'[v] = H /\ 9 - (10 - K) = K - 1
      BY <1>0, <2>1, <2>2
    <3>2. QED
      BY <2>1, <2>2, <3>1 DEF Holdings
  <2>4. KeyCounts' /\ leaked' \in Nat
    <3>1. CASE v \notin Irqchip /\ K > 2
      <4>1. Counted' = Counted \ {v} /\ v \in Counted
        BY <1>0, <2>1, <2>2, <3>1 DEF Counted
      <4>2. Cardinality(Counted') = Cardinality(Counted) - 1 /\ Cardinality(Counted') \in Nat
        BY <4>1, CountedFacts, FS_RemoveElement, FS_CardinalityType
      <4>3. QED
        BY <1>0, <2>2, <3>1, <4>2, CountedFacts DEF KeyCounts
    <3>2. CASE ~(v \notin Irqchip /\ K > 2)
      <4>1. Counted' = Counted
        BY <1>0, <2>1, <2>2, <3>2 DEF Counted
      <4>2. QED
        BY <1>a, <2>2, <3>2, <4>1
    <3>3. QED
      BY <3>1, <3>2
  <2>5. 10 - K \in 0 .. 11
    BY <2>2
  <2> HIDE DEF K, H
  <2>6. QED
    BY <1>0, <2>2, <2>3, <2>4, <2>5, VcpuStep
<1>4. CASE Created(v)
  <2>1. vcpuState[v] = "create" /\ K = 10 /\ H = FirstParts(9) \ NoLapic(v)
    BY <1>0, <1>4, PartsAre DEF Created, Holdings
  <2>2. "cpuid_entries" \notin H
    BY <2>1, PartsGrow
  <2>3. /\ vcpuState' = [vcpuState EXCEPT ![v] = "live"] /\ vcpuAt' = [vcpuAt EXCEPT ![v] = 0]
        /\ vcpuHeld' = [vcpuHeld EXCEPT ![v] = H] /\ noapic' = noapic /\ leaked' = leaked
    BY <1>4, <1>b DEF Created
  <2>4. Holdings(v)'
    <3>1. vcpuState'[v] = "live" /\ vcpuAt'[v] = 0 /\ vcpuHeld'[v] = H
      BY <1>0, <2>3
    <3>2. H \ {"cpuid_entries"} = H
      BY <2>2
    <3>3. QED
      BY <2>1, <3>1, <3>2 DEF Holdings
  <2>5. Counted' = Counted
    BY <1>0, <2>1, <2>3 DEF Counted
  <2> HIDE DEF H, K
  <2>6. QED
    BY <1>0, <1>a, <2>3, <2>4, <2>5, <1>c, VcpuStep
<1>5. CASE SetCpuid(v)
  <2> DEFINE N == H \cup {"cpuid_entries"}
  <2>1. vcpuState[v] = "live" /\ K = 0 /\ H \ {"cpuid_entries"} = FirstParts(9) \ NoLapic(v)
    BY <1>0, <1>5 DEF SetCpuid, Holdings
  <2>2. /\ vcpuState' = [vcpuState EXCEPT ![v] = "live"] /\ vcpuAt' = [vcpuAt EXCEPT ![v] = K]
        /\ vcpuHeld' = [vcpuHeld EXCEPT ![v] = N] /\ noapic' = noapic /\ leaked' = leaked
    BY <1>5, <1>b, <2>1 DEF SetCpuid
  <2>3. Holdings(v)'
    <3>1. vcpuState'[v] = "live" /\ vcpuAt'[v] = 0 /\ vcpuHeld'[v] = N
      BY <1>0, <2>1, <2>2
    <3>2. N \ {"cpuid_entries"} = H \ {"cpuid_entries"}
      OBVIOUS
    <3>3. QED
      BY <2>1, <3>1, <3>2 DEF Holdings
  <2>4. Counted' = Counted
    BY <1>0, <2>1, <2>2 DEF Counted
  <2>5. N \in SUBSET (Range(VcpuParts) \cup {"cpuid_entries"})
    BY <1>0
  <2>6. QED
    BY <1>0, <1>a, <2>2, <2>3, <2>4, <2>5, VcpuStep
<1>6. CASE Undo(v)
  <2> DEFINE N == H \ {Labels[K]}
  <2>1. vcpuState[v] = "undo" /\ K \in 1 .. 8 /\ H = FirstParts(9 - K) \ NoLapic(v)
    BY <1>0, <1>6, PartsAre DEF Undo, Holdings
  <2>2. /\ vcpuState' = [vcpuState EXCEPT ![v] = "undo"] /\ vcpuAt' = [vcpuAt EXCEPT ![v] = K + 1]
        /\ vcpuHeld' = [vcpuHeld EXCEPT ![v] = N] /\ noapic' = noapic /\ leaked' = leaked
    BY <1>0, <1>6, <1>b, <2>1 DEF Undo
  <2>3. N = FirstParts(9 - (K + 1)) \ NoLapic(v)
    <3>1. /\ 9 - K \in 1 .. 9 /\ (9 - K) - 1 = 9 - (K + 1) /\ Labels[K] = VcpuParts[9 - K]
      BY <2>1, LabelsMirror
    <3>2. /\ FirstParts(9 - K) = FirstParts((9 - K) - 1) \cup {VcpuParts[9 - K]}
          /\ VcpuParts[9 - K] \notin FirstParts((9 - K) - 1)
      BY <3>1, PartsGrow
    <3> DEFINE F == FirstParts(9 - K)
               G == FirstParts((9 - K) - 1)
               L == VcpuParts[9 - K]
    <3>3. N = (F \ NoLapic(v)) \ {L} /\ F = G \cup {L} /\ L \notin G
      BY <2>1, <3>1, <3>2
    <3>4. FirstParts(9 - (K + 1)) = G
      BY <3>1
    <3> HIDE DEF F, G, L, N
    <3>5. QED
      BY <3>3, <3>4
  <2>4. Holdings(v)'
    <3>1. vcpuState'[v] = "undo" /\ vcpuAt'[v] = K + 1 /\ vcpuHeld'[v] = N
      BY <1>0, <2>2
    <3>2. QED
      BY <2>1, <2>3, <3>1 DEF Holdings
  <2>5. Counted' = Counted
    BY <1>0, <2>1, <2>2 DEF Counted
  <2>6. N \in SUBSET (Range(VcpuParts) \cup {"cpuid_entries"}) /\ K + 1 \in 0 .. 11
    BY <1>0, <2>1
  <2> HIDE DEF N, K
  <2>7. QED
    BY <1>0, <1>a, <2>2, <2>4, <2>5, <2>6, VcpuStep
<1>7. CASE Failed(v)
  <2>1. vcpuState[v] = "undo" /\ K = 9 /\ H = {}
    BY <1>0, <1>7, PartsAre, NoParts DEF Failed, Holdings
  <2>2. /\ vcpuState' = [vcpuState EXCEPT ![v] = "none"] /\ vcpuAt' = [vcpuAt EXCEPT ![v] = 0]
        /\ vcpuHeld' = [vcpuHeld EXCEPT ![v] = H] /\ noapic' = noapic /\ leaked' = leaked
    BY <1>7, <1>b DEF Failed
  <2>3. Holdings(v)'
    BY <1>0, <2>1, <2>2 DEF Holdings
  <2>4. Counted' = Counted
    BY <1>0, <2>1, <2>2 DEF Counted
  <2> HIDE DEF H, K
  <2>5. QED
    BY <1>0, <1>a, <2>2, <2>3, <2>4, <1>c, VcpuStep
<1>8. CASE kvm_arch_vcpu_destroy(v)
  <2>1. vcpuState[v] = "live" /\ H \ {"cpuid_entries"} = FirstParts(9) \ NoLapic(v)
    BY <1>0, <1>8 DEF kvm_arch_vcpu_destroy, Holdings
  <2>2. /\ vcpuState' = [vcpuState EXCEPT ![v] = "destroy"] /\ vcpuAt' = [vcpuAt EXCEPT ![v] = 1]
        /\ vcpuHeld' = [vcpuHeld EXCEPT ![v] = H] /\ noapic' = noapic /\ leaked' = leaked
    BY <1>8, <1>b DEF kvm_arch_vcpu_destroy
  <2>3. Holdings(v)'
    <3>1. vcpuState'[v] = "destroy" /\ vcpuAt'[v] = 1 /\ vcpuHeld'[v] = H
      BY <1>0, <2>2
    <3>2. QED
      BY <2>1, <3>1, NoParts DEF Holdings
  <2>4. Counted' = Counted
    BY <1>0, <2>1, <2>2 DEF Counted
  <2> HIDE DEF H, K
  <2>5. QED
    BY <1>0, <1>a, <2>2, <2>3, <2>4, <1>c, VcpuStep
<1>9. CASE VcpuFree(v)
  <2> DEFINE N == H \ {Destroyed[K]}
  <2>1. /\ vcpuState[v] = "destroy" /\ K \in 1 .. 10
        /\ H \ {"cpuid_entries"} = (FirstParts(9) \ NoLapic(v)) \ GivenBack(K - 1)
    BY <1>0, <1>9, PartsAre DEF VcpuFree, Holdings
  <2>2. /\ vcpuState' = [vcpuState EXCEPT ![v] = "destroy"] /\ vcpuAt' = [vcpuAt EXCEPT ![v] = K + 1]
        /\ vcpuHeld' = [vcpuHeld EXCEPT ![v] = N] /\ noapic' = noapic /\ leaked' = leaked
    BY <1>0, <1>9, <1>b, <2>1 DEF VcpuFree
  <2>3. N \ {"cpuid_entries"} = (FirstParts(9) \ NoLapic(v)) \ GivenBack(K)
    <3>1. GivenBack(K) = GivenBack(K - 1) \cup {Destroyed[K]}
      BY <2>1, GivenBackGrows
    <3> DEFINE F == FirstParts(9)
               G == GivenBack(K - 1)
               L == Destroyed[K]
    <3>2. N = H \ {L} /\ H \ {"cpuid_entries"} = (F \ NoLapic(v)) \ G /\ GivenBack(K) = G \cup {L}
      BY <2>1, <3>1
    <3>3. FirstParts(9) = F
      OBVIOUS
    <3> HIDE DEF F, G, L, N, H
    <3>4. QED
      BY <3>2, <3>3
  <2>4. K + 1 = 11 => "cpuid_entries" \notin N
    BY <2>1, DestroyedAre
  <2>5. Holdings(v)'
    <3>1. vcpuState'[v] = "destroy" /\ vcpuAt'[v] = K + 1 /\ vcpuHeld'[v] = N /\ (K + 1) - 1 = K
      BY <1>0, <2>1, <2>2
    <3>2. QED
      BY <2>1, <2>3, <2>4, <3>1 DEF Holdings
  <2>6. Counted' = Counted
    BY <1>0, <2>1, <2>2 DEF Counted
  <2>7. N \in SUBSET (Range(VcpuParts) \cup {"cpuid_entries"}) /\ K + 1 \in 0 .. 11
    BY <1>0, <2>1
  <2> HIDE DEF N, K
  <2>8. QED
    BY <1>0, <1>a, <2>2, <2>5, <2>6, <2>7, VcpuStep
<1>10. CASE Freed(v)
  <2>1. /\ vcpuState[v] = "destroy" /\ K = 11 /\ H = {}
    <3>1. /\ vcpuState[v] = "destroy" /\ K = 11 /\ "cpuid_entries" \notin H
          /\ H \ {"cpuid_entries"} = (FirstParts(9) \ NoLapic(v)) \ GivenBack(10)
      BY <1>0, <1>10, PartsAre DEF Freed, Holdings
    <3>2. QED
      BY <3>1, AllGivenBack
  <2>2. /\ vcpuState' = [vcpuState EXCEPT ![v] = "none"] /\ vcpuAt' = [vcpuAt EXCEPT ![v] = 0]
        /\ vcpuHeld' = [vcpuHeld EXCEPT ![v] = H]
        /\ noapic' = (IF v \in Irqchip THEN noapic ELSE noapic - 1) /\ leaked' = leaked
    BY <1>10, <1>b DEF Freed
  <2>3. Holdings(v)'
    BY <1>0, <2>1, <2>2 DEF Holdings
  <2>4. KeyCounts' /\ noapic' \in Nat /\ leaked' \in Nat
    <3>1. CASE v \in Irqchip
      <4>1. Counted' = Counted
        BY <1>0, <2>1, <2>2, <3>1 DEF Counted
      <4>2. QED
        BY <1>0, <1>a, <2>2, <3>1, <4>1
    <3>2. CASE v \notin Irqchip
      <4>1. Counted' = Counted \ {v} /\ v \in Counted
        BY <1>0, <2>1, <2>2, <3>2 DEF Counted
      <4>2. Cardinality(Counted') = Cardinality(Counted) - 1 /\ Cardinality(Counted') \in Nat
        BY <4>1, CountedFacts, FS_RemoveElement, FS_CardinalityType
      <4>3. QED
        BY <1>0, <2>2, <3>2, <4>2, CountedFacts DEF KeyCounts
    <3>3. QED
      BY <3>1, <3>2
  <2> HIDE DEF H, K
  <2>5. QED
    BY <1>0, <2>2, <2>3, <2>4, <1>c, VcpuStep
<1>11. QED
  BY <1>1, <1>2, <1>3, <1>4, <1>5, <1>6, <1>7, <1>8, <1>9, <1>10

(* What the invariant says of a VCPU that gives its parts back. *)
LEMMA VcpuInvImplies == VcpuInv => VcpuTypeOK /\ NothingIsLost /\ FreesWhatItHas /\ KeyCounts
<1> SUFFICES ASSUME VcpuInv PROVE VcpuTypeOK /\ NothingIsLost /\ FreesWhatItHas /\ KeyCounts
  OBVIOUS
<1>1. VcpuTypeOK
  BY DEF VcpuInv, VcpuTypeOK
<1>2. NothingIsLost
  BY DEF VcpuInv, Holdings, NothingIsLost
<1>3. FreesWhatItHas
  <2> SUFFICES ASSUME NEW v \in VcpuVcpus
               PROVE  /\ vcpuState[v] = "undo" /\ vcpuAt[v] <= Len(Labels) =>
                           Labels[vcpuAt[v]] \in vcpuHeld[v] \cup {"lapic"}
                      /\ vcpuState[v] = "destroy" /\ vcpuAt[v] <= Len(Destroyed) =>
                           Destroyed[vcpuAt[v]] \in vcpuHeld[v] \cup {"lapic", "cpuid_entries"}
    BY DEF FreesWhatItHas
  <2> DEFINE K == vcpuAt[v]
             H == vcpuHeld[v]
  <2>1. Holdings(v) /\ K \in 0 .. 11
    BY DEF VcpuInv
  <2>2. ASSUME vcpuState[v] = "undo", K <= Len(Labels) PROVE Labels[K] \in H \cup {"lapic"}
    <3>1. K \in 1 .. 8 /\ H = FirstParts(9 - K) \ NoLapic(v)
      BY <2>1, <2>2, PartsAre DEF Holdings
    <3>2. Labels[K] = VcpuParts[9 - K] /\ 9 - K \in 1 .. 9
      BY <3>1, LabelsMirror
    <3>3. VcpuParts[9 - K] \in FirstParts(9 - K)
      BY <3>2 DEF FirstParts
    <3>4. QED
      BY <3>1, <3>2, <3>3 DEF NoLapic
  <2>3. ASSUME vcpuState[v] = "destroy", K <= Len(Destroyed)
        PROVE  Destroyed[K] \in H \cup {"lapic", "cpuid_entries"}
    <3>1. K \in 1 .. 10 /\ H \ {"cpuid_entries"} = (FirstParts(9) \ NoLapic(v)) \ GivenBack(K - 1)
      BY <2>1, <2>3, PartsAre DEF Holdings
    <3>2. K = 10 => Destroyed[K] = "cpuid_entries"
      BY DestroyedAre
    <3>3. K < 10 => Destroyed[K] \in FirstParts(9) /\ Destroyed[K] \notin GivenBack(K - 1)
      BY <3>1, GivenBackGrows
    <3>4. QED
      BY <3>1, <3>2, <3>3 DEF NoLapic
  <2>4. QED
    BY <2>2, <2>3
<1>4. KeyCounts
  BY DEF VcpuInv
<1>5. QED
  BY <1>1, <1>2, <1>3, <1>4

-----------------------------------------------------------------------------
(* A step of thread t that takes it to another place, with what it carries. *)
Moved(t, o, a, x, y) ==
  /\ setupPc' \in [SetupThreads -> SetupRecs]
  /\ setupPc'[t].op = o /\ setupPc'[t].at = a /\ setupPc'[t].v = x /\ setupPc'[t].w = y
  /\ \A u \in SetupThreads \ {t} : setupPc'[u] = setupPc[u]

LEMMA PutMoves ==
    ASSUME SetupTypes, NEW t \in SetupThreads, NEW r \in SetupRecs, setupPc' = [setupPc EXCEPT ![t] = r]
    PROVE  Moved(t, r.op, r.at, r.v, r.w)
  BY DEF SetupTypes, Moved

LEMMA GotoMoves ==
    ASSUME SetupTypes, NEW t \in SetupThreads, NEW a \in SetupAts, SetupGoto(t, a)
    PROVE  Moved(t, setupPc[t].op, a, setupPc[t].v, setupPc[t].w)
<1> DEFINE r == [setupPc[t] EXCEPT !.at = a]
<1>1. setupPc[t] \in SetupRecs
  BY DEF SetupTypes
<1>2. r \in SetupRecs /\ r.op = setupPc[t].op /\ r.at = a /\ r.v = setupPc[t].v /\ r.w = setupPc[t].w
  BY <1>1 DEF SetupRecs
<1>3. setupPc' = [setupPc EXCEPT ![t] = r]
  BY DEF SetupGoto
<1> HIDE DEF r
<1>4. QED
  BY <1>2, <1>3, PutMoves

LEMMA OpRecords ==
    ASSUME NEW o \in SetupOps, NEW a \in SetupAts, NEW x \in Nat \cup SetupVcpus, NEW y \in Nat
    PROVE  /\ SetupOp(o, a) = [op |-> o, at |-> a, v |-> 0, w |-> 0]
           /\ [SetupOp(o, a) EXCEPT !.v = x] = [op |-> o, at |-> a, v |-> x, w |-> 0]
           /\ [SetupOp(o, a) EXCEPT !.w = y] = [op |-> o, at |-> a, v |-> 0, w |-> y]
           /\ [op |-> o, at |-> a, v |-> x, w |-> y] \in SetupRecs
           /\ SetupIdle = [op |-> "idle", at |-> "user", v |-> 0, w |-> 0]
<1>1. SetupOp(o, a) = [op |-> o, at |-> a, v |-> 0, w |-> 0]
  <2>1. [SetupIdle EXCEPT !.op = o] = [op |-> o, at |-> "user", v |-> 0, w |-> 0]
    BY DEF SetupIdle
  <2>2. SetupOp(o, a) = [[SetupIdle EXCEPT !.op = o] EXCEPT !.at = a]
    BY DEF SetupOp
  <2>3. QED
    BY <2>1, <2>2
<1>2. [SetupOp(o, a) EXCEPT !.v = x] = [op |-> o, at |-> a, v |-> x, w |-> 0]
  BY <1>1
<1>3. [SetupOp(o, a) EXCEPT !.w = y] = [op |-> o, at |-> a, v |-> 0, w |-> y]
  BY <1>1
<1>4. [op |-> o, at |-> a, v |-> x, w |-> y] \in SetupRecs
  BY DEF SetupRecs
<1>5. QED
  BY <1>1, <1>2, <1>3, <1>4 DEF SetupIdle

(* A thread that begins or ends a call. *)
LEMMA OpMoves ==
    ASSUME SetupTypes, NEW t \in SetupThreads, NEW o \in SetupOps, NEW a \in SetupAts,
           NEW x \in Nat \cup SetupVcpus, NEW y \in Nat,
           setupPc' = [setupPc EXCEPT ![t] = [op |-> o, at |-> a, v |-> x, w |-> y]]
    PROVE  Moved(t, o, a, x, y)
<1> DEFINE r == [op |-> o, at |-> a, v |-> x, w |-> y]
<1>1. r \in SetupRecs /\ r.op = o /\ r.at = a /\ r.v = x /\ r.w = y
  BY OpRecords
<1> HIDE DEF r
<1>2. Moved(t, r.op, r.at, r.v, r.w)
  BY <1>1, PutMoves DEF r
<1>3. QED
  BY <1>1, <1>2

LEMMA ReturnMoves ==
    ASSUME SetupTypes, NEW t \in SetupThreads, SetupReturn(t)
    PROVE  Moved(t, "idle", "user", 0, 0)
<1>1. "idle" \in SetupOps /\ "user" \in SetupAts /\ 0 \in Nat
  BY DEF SetupOps, SetupAts
<1>2. SetupIdle = [op |-> "idle", at |-> "user", v |-> 0, w |-> 0]
  BY <1>1, OpRecords
<1>3. QED
  BY <1>1, <1>2, OpMoves DEF SetupReturn

LEMMA IdleRecord ==
    ASSUME NEW t \in SetupThreads, setupPc[t] = SetupIdle
    PROVE  setupPc[t].op = "idle" /\ setupPc[t].at = "user" /\ setupPc[t].v = 0 /\ setupPc[t].w = 0
  BY DEF SetupIdle

(* The records a call begins with. *)
LEMMA BeginMoves ==
    ASSUME SetupTypes, NEW t \in SetupThreads, NEW o \in SetupOps, NEW a \in SetupAts,
           NEW x \in Nat \cup SetupVcpus, NEW y \in Nat
    PROVE  /\ setupPc' = [setupPc EXCEPT ![t] = SetupOp(o, a)] => Moved(t, o, a, 0, 0)
           /\ setupPc' = [setupPc EXCEPT ![t] = [SetupOp(o, a) EXCEPT !.v = x]] => Moved(t, o, a, x, 0)
           /\ setupPc' = [setupPc EXCEPT ![t] = [SetupOp(o, a) EXCEPT !.w = y]] => Moved(t, o, a, 0, y)
<1>1. 0 \in Nat /\ 0 \in Nat \cup SetupVcpus
  OBVIOUS
<1>2. QED
  BY <1>1, OpMoves, OpRecords

(* The two halves of a copy: a reader takes what there is, a writer puts what it brought. *)
LEMMA CopyMoves ==
    ASSUME SetupTypes, NEW t \in SetupThreads
    PROVE  /\ CopyChannels(t) =>
                Moved(t, setupPc[t].op, IF setupPc[t].op \in {"get_pit", "set_pit2"} THEN "flags" ELSE "pit_unlock",
                      IF setupPc[t].op = "get_pit" THEN channels ELSE setupPc[t].v, setupPc[t].w)
           /\ CopyFlags(t) =>
                Moved(t, setupPc[t].op, "pit_unlock", setupPc[t].v,
                      IF setupPc[t].op = "get_pit" THEN setupFlags ELSE setupPc[t].w)
<1> DEFINE r == [setupPc[t] EXCEPT !.at = "flags", !.v = channels]
           q == [setupPc[t] EXCEPT !.at = "pit_unlock", !.w = setupFlags]
<1>1. setupPc[t] \in SetupRecs /\ channels \in Nat /\ setupFlags \in Nat
  BY DEF SetupTypes
<1>2. r \in SetupRecs /\ r.op = setupPc[t].op /\ r.at = "flags" /\ r.v = channels /\ r.w = setupPc[t].w
  BY <1>1 DEF SetupRecs, SetupAts
<1>3. q \in SetupRecs /\ q.op = setupPc[t].op /\ q.at = "pit_unlock" /\ q.v = setupPc[t].v /\ q.w = setupFlags
  BY <1>1 DEF SetupRecs, SetupAts
<1>4. ASSUME CopyChannels(t)
      PROVE  Moved(t, setupPc[t].op, IF setupPc[t].op \in {"get_pit", "set_pit2"} THEN "flags" ELSE "pit_unlock",
                   IF setupPc[t].op = "get_pit" THEN channels ELSE setupPc[t].v, setupPc[t].w)
  <2>1. CASE setupPc[t].op = "get_pit"
    <3>1. setupPc' = [setupPc EXCEPT ![t] = r]
      BY <1>4, <2>1 DEF CopyChannels
    <3> HIDE DEF r
    <3>2. Moved(t, r.op, r.at, r.v, r.w)
      BY <1>2, <3>1, PutMoves
    <3>3. QED
      BY <1>2, <2>1, <3>2
  <2>2. CASE setupPc[t].op # "get_pit"
    BY <1>4, <2>2, GotoMoves DEF CopyChannels, SetupAts
  <2>3. QED
    BY <2>1, <2>2
<1>5. ASSUME CopyFlags(t)
      PROVE  Moved(t, setupPc[t].op, "pit_unlock", setupPc[t].v,
                   IF setupPc[t].op = "get_pit" THEN setupFlags ELSE setupPc[t].w)
  <2>1. CASE setupPc[t].op = "get_pit"
    <3>1. setupPc' = [setupPc EXCEPT ![t] = q]
      BY <1>5, <2>1 DEF CopyFlags
    <3> HIDE DEF q
    <3>2. Moved(t, q.op, q.at, q.v, q.w)
      BY <1>3, <3>1, PutMoves
    <3>3. QED
      BY <1>3, <2>1, <3>2
  <2>2. CASE setupPc[t].op # "get_pit"
    BY <1>5, <2>2, GotoMoves DEF CopyFlags, SetupAts
  <2>3. QED
    BY <2>1, <2>2
<1>6. QED
  BY <1>4, <1>5

(* The VCPU that kvm_arch_vcpu_create makes, and the others as they were. *)
LEMMA VcpuMade ==
    ASSUME SetupInv, NEW c \in SetupVcpus,
           setupVcpu' = [setupVcpu EXCEPT ![c] = [made |-> TRUE, lapic |-> irqchip_in_kernel,
                                                  pins |-> nr_pins, boot |-> c = bsp]]
    PROVE  /\ setupVcpu' \in [SetupVcpus -> VcpuRecs]
           /\ setupVcpu'[c].made /\ setupVcpu'[c].lapic = irqchip_in_kernel
           /\ setupVcpu'[c].pins = nr_pins /\ (setupVcpu'[c].boot <=> c = bsp)
           /\ \A d \in SetupVcpus \ {c} : setupVcpu'[d] = setupVcpu[d]
<1> DEFINE r == [made |-> TRUE, lapic |-> irqchip_in_kernel, pins |-> nr_pins, boot |-> c = bsp]
<1>1. r \in VcpuRecs /\ r.made /\ r.lapic = irqchip_in_kernel /\ r.pins = nr_pins /\ (r.boot <=> c = bsp)
  BY DEF SetupInv, SetupTypes, VcpuRecs, irqchip_in_kernel
<1>2. setupVcpu' = [setupVcpu EXCEPT ![c] = r] /\ setupVcpu \in [SetupVcpus -> VcpuRecs]
  BY DEF SetupInv, SetupTypes
<1> HIDE DEF r
<1>3. QED
  BY <1>1, <1>2

LEMMA SetupNextInv ==
    ASSUME SetupInv, SetupNext
    PROVE  SetupInv'
<1> PICK t \in SetupThreads :
      \/ CreateIrqchip(t) \/ (\E ok \in BOOLEAN : kvm_pic_init(t, ok) \/ kvm_ioapic_init(t, ok)
                               \/ kvm_setup_default_irq_routing(t, ok) \/ kvm_setup_empty_irq_routing(t, ok) \/ CreatePit(t, ok))
      \/ PublishKernel(t) \/ (\E n \in Pins : SplitIrqchip(t, n)) \/ PublishSplit(t) \/ ReservePins(t) \/ mutex_unlock(t)
      \/ (\E c \in SetupVcpus : SetBootCpu(t, c) \/ SetupCreateVcpu(t, c)) \/ kvm_arch_vcpu_create(t)
      \/ CheckChip(t) \/ CheckLine(t) \/ Use(t)
      \/ (\E op \in {"set_pit", "set_pit2"} : SetPit(t, op)) \/ GetPit(t) \/ PitLock(t) \/ CopyChannels(t) \/ CopyFlags(t)
      \/ PitUnlock(t) \/ GotPit(t)
  BY DEF SetupNext
<1>0. 0 \in Nat /\ 0 \in Nat \cup SetupVcpus /\ setupPc[t].v \in Nat \cup SetupVcpus /\ setupPc[t].w \in Nat
  BY DEF SetupInv, SetupTypes, SetupRecs
<1>1. ASSUME CreateIrqchip(t) PROVE SetupInv'
  <2>1. /\ setupPc[t].op = "idle" /\ setupPc[t].at = "user" /\ lock = SetupNone
        /\ lock' = t
        /\ UNCHANGED <<pit_lock, irqchip_mode, pic, ioapic, routing, nr_pins, vpit, channels, setupFlags, writes, states, created, setupVcpu, bsp>>
    BY <1>1, IdleRecord DEF CreateIrqchip, At, mutex_lock, SetupUnlock, devices, pit, cpus, irqchip_in_kernel
  <2>2. Moved(t, "irqchip", IF irqchip_mode # "none" \/ created # {} THEN "unlock" ELSE "pic", 0, 0)
    <3> DEFINE A == IF irqchip_mode # "none" \/ created # {} THEN "unlock" ELSE "pic"
    <3>1. "irqchip" \in SetupOps /\ A \in SetupAts
      BY SetupAssumption DEF SetupInv, SetupTypes, SetupOps, SetupAts
    <3>2. setupPc' = [setupPc EXCEPT ![t] = SetupOp("irqchip", A)]
      BY <1>1, <2>1 DEF CreateIrqchip, irqchip_in_kernel
    <3>3. Moved(t, "irqchip", A, 0, 0)
      <4> HIDE DEF A
      <4>1. QED
        BY <1>0, <3>1, <3>2, BeginMoves DEF SetupInv
    <3>4. QED
      BY <3>3
  <2>3. SetupTypes'
    BY <1>0, <2>1, <2>2, SetupAssumption DEF SetupInv, Moved, SetupTypes
  <2>4. InPlace'
    BY <2>1, <2>2, SetupAssumption DEF SetupInv, Moved, InPlace, Place
  <2>5. SetupLocks'
    BY <2>1, <2>2, SetupAssumption DEF SetupInv, Moved, SetupLocks, InPlace, Place, Locking, InPit, SetupNone
  <2>6. Devices'
    BY <2>1, <2>2, SetupAssumption DEF SetupInv, Moved, Devices, DevicesAt, FailureLeavesNothing, SetupLocks, InPlace, Place, Locking, Making, irqchip_in_kernel, SetupNone
  <2>7. Counting'
    BY <2>1, <2>2, SetupAssumption DEF SetupInv, Moved, Counting, SetupLocks, InPlace, Place, Locking, Making, SetupNone
  <2>8. VcpusAgree' /\ OneBootCpu'
    BY <2>1, <2>2, SetupAssumption DEF SetupInv, Moved, VcpusAgree, OneBootCpu, Counting, Making, irqchip_in_kernel
  <2>9. PitStates' /\ PitSnapshot'
    BY <2>1, <2>2, SetupAssumption DEF SetupInv, Moved, PitStates, PitSnapshot, Writing, SetupLocks, InPlace, Place, InPit
  <2>10. QED
    BY <2>3, <2>4, <2>5, <2>6, <2>7, <2>8, <2>9 DEF SetupInv
<1>2. ASSUME NEW ok \in BOOLEAN, kvm_pic_init(t, ok) PROVE SetupInv'
  <2>1. /\ setupPc[t].op = "irqchip" /\ setupPc[t].at = "pic"
        /\ pic' = ok
        /\ UNCHANGED <<lock, pit_lock, irqchip_mode, ioapic, routing, nr_pins, vpit, channels, setupFlags, writes, states, created, setupVcpu, bsp>>
    BY <1>2, IdleRecord DEF kvm_pic_init, At, mutex_lock, SetupUnlock, devices, pit, cpus, irqchip_in_kernel
  <2>2. Moved(t, setupPc[t].op, IF ok THEN "ioapic" ELSE "unlock", setupPc[t].v, setupPc[t].w)
    BY <1>2, GotoMoves DEF SetupInv, SetupAts, kvm_pic_init
  <2>3. SetupTypes'
    BY <1>0, <2>1, <2>2, SetupAssumption DEF SetupInv, Moved, SetupTypes
  <2>4. InPlace'
    BY <2>1, <2>2, SetupAssumption DEF SetupInv, Moved, InPlace, Place
  <2>5. SetupLocks'
    BY <2>1, <2>2, SetupAssumption DEF SetupInv, Moved, SetupLocks, InPlace, Place, Locking, InPit, SetupNone
  <2>6. Devices'
    BY <2>1, <2>2, SetupAssumption DEF SetupInv, Moved, Devices, DevicesAt, FailureLeavesNothing, SetupLocks, InPlace, Place, Locking, Making, irqchip_in_kernel, SetupNone
  <2>7. Counting'
    BY <2>1, <2>2, SetupAssumption DEF SetupInv, Moved, Counting, SetupLocks, InPlace, Place, Locking, Making, SetupNone
  <2>8. VcpusAgree' /\ OneBootCpu'
    BY <2>1, <2>2, SetupAssumption DEF SetupInv, Moved, VcpusAgree, OneBootCpu, Counting, Making, irqchip_in_kernel
  <2>9. PitStates' /\ PitSnapshot'
    BY <2>1, <2>2, SetupAssumption DEF SetupInv, Moved, PitStates, PitSnapshot, Writing, SetupLocks, InPlace, Place, InPit
  <2>10. QED
    BY <2>3, <2>4, <2>5, <2>6, <2>7, <2>8, <2>9 DEF SetupInv
<1>3. ASSUME NEW ok \in BOOLEAN, kvm_ioapic_init(t, ok) PROVE SetupInv'
  <2>1. /\ setupPc[t].op = "irqchip" /\ setupPc[t].at = "ioapic"
        /\ pic' = ok
        /\ ioapic' = ok
        /\ UNCHANGED <<lock, pit_lock, irqchip_mode, routing, nr_pins, vpit, channels, setupFlags, writes, states, created, setupVcpu, bsp>>
    BY <1>3, IdleRecord DEF kvm_ioapic_init, At, mutex_lock, SetupUnlock, devices, pit, cpus, irqchip_in_kernel
  <2>2. Moved(t, setupPc[t].op, IF ok THEN "routing" ELSE "unlock", setupPc[t].v, setupPc[t].w)
    BY <1>3, GotoMoves DEF SetupInv, SetupAts, kvm_ioapic_init
  <2>3. SetupTypes'
    BY <1>0, <2>1, <2>2, SetupAssumption DEF SetupInv, Moved, SetupTypes
  <2>4. InPlace'
    BY <2>1, <2>2, SetupAssumption DEF SetupInv, Moved, InPlace, Place
  <2>5. SetupLocks'
    BY <2>1, <2>2, SetupAssumption DEF SetupInv, Moved, SetupLocks, InPlace, Place, Locking, InPit, SetupNone
  <2>6. Devices'
    BY <2>1, <2>2, SetupAssumption DEF SetupInv, Moved, Devices, DevicesAt, FailureLeavesNothing, SetupLocks, InPlace, Place, Locking, Making, irqchip_in_kernel, SetupNone
  <2>7. Counting'
    BY <2>1, <2>2, SetupAssumption DEF SetupInv, Moved, Counting, SetupLocks, InPlace, Place, Locking, Making, SetupNone
  <2>8. VcpusAgree' /\ OneBootCpu'
    BY <2>1, <2>2, SetupAssumption DEF SetupInv, Moved, VcpusAgree, OneBootCpu, Counting, Making, irqchip_in_kernel
  <2>9. PitStates' /\ PitSnapshot'
    BY <2>1, <2>2, SetupAssumption DEF SetupInv, Moved, PitStates, PitSnapshot, Writing, SetupLocks, InPlace, Place, InPit
  <2>10. QED
    BY <2>3, <2>4, <2>5, <2>6, <2>7, <2>8, <2>9 DEF SetupInv
<1>4. ASSUME NEW ok \in BOOLEAN, kvm_setup_default_irq_routing(t, ok) PROVE SetupInv'
  <2>1. /\ setupPc[t].op = "irqchip" /\ setupPc[t].at = "routing"
        /\ pic' = ok
        /\ ioapic' = ok
        /\ routing' = ok
        /\ UNCHANGED <<lock, pit_lock, irqchip_mode, nr_pins, vpit, channels, setupFlags, writes, states, created, setupVcpu, bsp>>
    BY <1>4, IdleRecord DEF kvm_setup_default_irq_routing, At, mutex_lock, SetupUnlock, devices, pit, cpus, irqchip_in_kernel
  <2>2. Moved(t, setupPc[t].op, IF ok THEN "publish" ELSE "unlock", setupPc[t].v, setupPc[t].w)
    BY <1>4, GotoMoves DEF SetupInv, SetupAts, kvm_setup_default_irq_routing
  <2>3. SetupTypes'
    BY <1>0, <2>1, <2>2, SetupAssumption DEF SetupInv, Moved, SetupTypes
  <2>4. InPlace'
    BY <2>1, <2>2, SetupAssumption DEF SetupInv, Moved, InPlace, Place
  <2>5. SetupLocks'
    BY <2>1, <2>2, SetupAssumption DEF SetupInv, Moved, SetupLocks, InPlace, Place, Locking, InPit, SetupNone
  <2>6. Devices'
    BY <2>1, <2>2, SetupAssumption DEF SetupInv, Moved, Devices, DevicesAt, FailureLeavesNothing, SetupLocks, InPlace, Place, Locking, Making, irqchip_in_kernel, SetupNone
  <2>7. Counting'
    BY <2>1, <2>2, SetupAssumption DEF SetupInv, Moved, Counting, SetupLocks, InPlace, Place, Locking, Making, SetupNone
  <2>8. VcpusAgree' /\ OneBootCpu'
    BY <2>1, <2>2, SetupAssumption DEF SetupInv, Moved, VcpusAgree, OneBootCpu, Counting, Making, irqchip_in_kernel
  <2>9. PitStates' /\ PitSnapshot'
    BY <2>1, <2>2, SetupAssumption DEF SetupInv, Moved, PitStates, PitSnapshot, Writing, SetupLocks, InPlace, Place, InPit
  <2>10. QED
    BY <2>3, <2>4, <2>5, <2>6, <2>7, <2>8, <2>9 DEF SetupInv
<1>5. ASSUME PublishKernel(t) PROVE SetupInv'
  <2>1. /\ setupPc[t].op = "irqchip" /\ setupPc[t].at = "publish"
        /\ irqchip_mode' = "kernel"
        /\ UNCHANGED <<lock, pit_lock, pic, ioapic, routing, nr_pins, vpit, channels, setupFlags, writes, states, created, setupVcpu, bsp>>
    BY <1>5, IdleRecord DEF PublishKernel, At, mutex_lock, SetupUnlock, devices, pit, cpus, irqchip_in_kernel
  <2>2. Moved(t, setupPc[t].op, "unlock", setupPc[t].v, setupPc[t].w)
    BY <1>5, GotoMoves DEF SetupInv, SetupAts, PublishKernel
  <2>3. SetupTypes'
    BY <1>0, <2>1, <2>2, SetupAssumption DEF SetupInv, Moved, SetupTypes
  <2>4. InPlace'
    BY <2>1, <2>2, SetupAssumption DEF SetupInv, Moved, InPlace, Place
  <2>5. SetupLocks'
    BY <2>1, <2>2, SetupAssumption DEF SetupInv, Moved, SetupLocks, InPlace, Place, Locking, InPit, SetupNone
  <2>6. Devices'
    BY <2>1, <2>2, SetupAssumption DEF SetupInv, Moved, Devices, DevicesAt, FailureLeavesNothing, SetupLocks, InPlace, Place, Locking, Making, irqchip_in_kernel, SetupNone
  <2>7. Counting'
    BY <2>1, <2>2, SetupAssumption DEF SetupInv, Moved, Counting, SetupLocks, InPlace, Place, Locking, Making, SetupNone
  <2>8. VcpusAgree' /\ OneBootCpu'
    BY <2>1, <2>2, SetupAssumption DEF SetupInv, Moved, VcpusAgree, OneBootCpu, Counting, Making, irqchip_in_kernel
  <2>9. PitStates' /\ PitSnapshot'
    BY <2>1, <2>2, SetupAssumption DEF SetupInv, Moved, PitStates, PitSnapshot, Writing, SetupLocks, InPlace, Place, InPit
  <2>10. QED
    BY <2>3, <2>4, <2>5, <2>6, <2>7, <2>8, <2>9 DEF SetupInv
<1>6. ASSUME NEW n \in Pins, SplitIrqchip(t, n) PROVE SetupInv'
  <2>1. /\ setupPc[t].op = "idle" /\ setupPc[t].at = "user" /\ lock = SetupNone
        /\ lock' = t
        /\ UNCHANGED <<pit_lock, irqchip_mode, pic, ioapic, routing, nr_pins, vpit, channels, setupFlags, writes, states, created, setupVcpu, bsp>>
    BY <1>6, IdleRecord DEF SplitIrqchip, At, mutex_lock, SetupUnlock, devices, pit, cpus, irqchip_in_kernel
  <2>2. Moved(t, "split", IF irqchip_mode # "none" \/ created # {} THEN "unlock" ELSE "routing", n, 0)
    <3> DEFINE A == IF irqchip_mode # "none" \/ created # {} THEN "unlock" ELSE "routing"
    <3>1. "split" \in SetupOps /\ A \in SetupAts /\ n \in Nat \cup SetupVcpus
      BY SetupAssumption DEF SetupInv, SetupTypes, SetupOps, SetupAts
    <3>2. setupPc' = [setupPc EXCEPT ![t] = [SetupOp("split", A) EXCEPT !.v = n]]
      BY <1>6, <2>1 DEF SplitIrqchip, irqchip_in_kernel
    <3>3. Moved(t, "split", A, n, 0)
      <4> HIDE DEF A
      <4>1. QED
        BY <1>0, <3>1, <3>2, BeginMoves DEF SetupInv
    <3>4. QED
      BY <3>3
  <2>3. SetupTypes'
    BY <1>0, <2>1, <2>2, SetupAssumption DEF SetupInv, Moved, SetupTypes
  <2>4. InPlace'
    BY <2>1, <2>2, SetupAssumption DEF SetupInv, Moved, InPlace, Place
  <2>5. SetupLocks'
    BY <2>1, <2>2, SetupAssumption DEF SetupInv, Moved, SetupLocks, InPlace, Place, Locking, InPit, SetupNone
  <2>6. Devices'
    BY <2>1, <2>2, SetupAssumption DEF SetupInv, Moved, Devices, DevicesAt, FailureLeavesNothing, SetupLocks, InPlace, Place, Locking, Making, irqchip_in_kernel, SetupNone
  <2>7. Counting'
    BY <2>1, <2>2, SetupAssumption DEF SetupInv, Moved, Counting, SetupLocks, InPlace, Place, Locking, Making, SetupNone
  <2>8. VcpusAgree' /\ OneBootCpu'
    BY <2>1, <2>2, SetupAssumption DEF SetupInv, Moved, VcpusAgree, OneBootCpu, Counting, Making, irqchip_in_kernel
  <2>9. PitStates' /\ PitSnapshot'
    BY <2>1, <2>2, SetupAssumption DEF SetupInv, Moved, PitStates, PitSnapshot, Writing, SetupLocks, InPlace, Place, InPit
  <2>10. QED
    BY <2>3, <2>4, <2>5, <2>6, <2>7, <2>8, <2>9 DEF SetupInv
<1>7. ASSUME NEW ok \in BOOLEAN, kvm_setup_empty_irq_routing(t, ok) PROVE SetupInv'
  <2>1. /\ setupPc[t].op = "split" /\ setupPc[t].at = "routing"
        /\ routing' = ok
        /\ UNCHANGED <<lock, pit_lock, irqchip_mode, pic, ioapic, nr_pins, vpit, channels, setupFlags, writes, states, created, setupVcpu, bsp>>
    BY <1>7, IdleRecord DEF kvm_setup_empty_irq_routing, At, mutex_lock, SetupUnlock, devices, pit, cpus, irqchip_in_kernel
  <2>2. Moved(t, setupPc[t].op, IF ok THEN "publish" ELSE "unlock", setupPc[t].v, setupPc[t].w)
    BY <1>7, GotoMoves DEF SetupInv, SetupAts, kvm_setup_empty_irq_routing
  <2>3. SetupTypes'
    BY <1>0, <2>1, <2>2, SetupAssumption DEF SetupInv, Moved, SetupTypes
  <2>4. InPlace'
    BY <2>1, <2>2, SetupAssumption DEF SetupInv, Moved, InPlace, Place
  <2>5. SetupLocks'
    BY <2>1, <2>2, SetupAssumption DEF SetupInv, Moved, SetupLocks, InPlace, Place, Locking, InPit, SetupNone
  <2>6. Devices'
    BY <2>1, <2>2, SetupAssumption DEF SetupInv, Moved, Devices, DevicesAt, FailureLeavesNothing, SetupLocks, InPlace, Place, Locking, Making, irqchip_in_kernel, SetupNone
  <2>7. Counting'
    BY <2>1, <2>2, SetupAssumption DEF SetupInv, Moved, Counting, SetupLocks, InPlace, Place, Locking, Making, SetupNone
  <2>8. VcpusAgree' /\ OneBootCpu'
    BY <2>1, <2>2, SetupAssumption DEF SetupInv, Moved, VcpusAgree, OneBootCpu, Counting, Making, irqchip_in_kernel
  <2>9. PitStates' /\ PitSnapshot'
    BY <2>1, <2>2, SetupAssumption DEF SetupInv, Moved, PitStates, PitSnapshot, Writing, SetupLocks, InPlace, Place, InPit
  <2>10. QED
    BY <2>3, <2>4, <2>5, <2>6, <2>7, <2>8, <2>9 DEF SetupInv
<1>8. ASSUME PublishSplit(t) PROVE SetupInv'
  <2>1. /\ setupPc[t].op = "split" /\ setupPc[t].at = "publish"
        /\ irqchip_mode' = "split"
        /\ UNCHANGED <<lock, pit_lock, pic, ioapic, routing, nr_pins, vpit, channels, setupFlags, writes, states, created, setupVcpu, bsp>>
    BY <1>8, IdleRecord DEF PublishSplit, At, mutex_lock, SetupUnlock, devices, pit, cpus, irqchip_in_kernel
  <2>2. Moved(t, setupPc[t].op, "pins", setupPc[t].v, setupPc[t].w)
    BY <1>8, GotoMoves DEF SetupInv, SetupAts, PublishSplit
  <2>3. SetupTypes'
    BY <1>0, <2>1, <2>2, SetupAssumption DEF SetupInv, Moved, SetupTypes
  <2>4. InPlace'
    BY <2>1, <2>2, SetupAssumption DEF SetupInv, Moved, InPlace, Place
  <2>5. SetupLocks'
    BY <2>1, <2>2, SetupAssumption DEF SetupInv, Moved, SetupLocks, InPlace, Place, Locking, InPit, SetupNone
  <2>6. Devices'
    BY <2>1, <2>2, SetupAssumption DEF SetupInv, Moved, Devices, DevicesAt, FailureLeavesNothing, SetupLocks, InPlace, Place, Locking, Making, irqchip_in_kernel, SetupNone
  <2>7. Counting'
    BY <2>1, <2>2, SetupAssumption DEF SetupInv, Moved, Counting, SetupLocks, InPlace, Place, Locking, Making, SetupNone
  <2>8. VcpusAgree' /\ OneBootCpu'
    BY <2>1, <2>2, SetupAssumption DEF SetupInv, Moved, VcpusAgree, OneBootCpu, Counting, Making, irqchip_in_kernel
  <2>9. PitStates' /\ PitSnapshot'
    BY <2>1, <2>2, SetupAssumption DEF SetupInv, Moved, PitStates, PitSnapshot, Writing, SetupLocks, InPlace, Place, InPit
  <2>10. QED
    BY <2>3, <2>4, <2>5, <2>6, <2>7, <2>8, <2>9 DEF SetupInv
<1>9. ASSUME ReservePins(t) PROVE SetupInv'
  <2>1. /\ setupPc[t].op = "split" /\ setupPc[t].at = "pins"
        /\ nr_pins' = setupPc[t].v
        /\ UNCHANGED <<lock, pit_lock, irqchip_mode, pic, ioapic, routing, vpit, channels, setupFlags, writes, states, created, setupVcpu, bsp>>
    BY <1>9, IdleRecord DEF ReservePins, At, mutex_lock, SetupUnlock, devices, pit, cpus, irqchip_in_kernel
  <2>2. Moved(t, setupPc[t].op, "unlock", setupPc[t].v, setupPc[t].w)
    BY <1>9, GotoMoves DEF SetupInv, SetupAts, ReservePins
  <2>3. SetupTypes'
    BY <1>0, <2>1, <2>2, SetupAssumption DEF SetupInv, Moved, SetupTypes
  <2>4. InPlace'
    BY <2>1, <2>2, SetupAssumption DEF SetupInv, Moved, InPlace, Place
  <2>5. SetupLocks'
    BY <2>1, <2>2, SetupAssumption DEF SetupInv, Moved, SetupLocks, InPlace, Place, Locking, InPit, SetupNone
  <2>6. Devices'
    BY <2>1, <2>2, SetupAssumption DEF SetupInv, Moved, Devices, DevicesAt, FailureLeavesNothing, SetupLocks, InPlace, Place, Locking, Making, irqchip_in_kernel, SetupNone
  <2>7. Counting'
    BY <2>1, <2>2, SetupAssumption DEF SetupInv, Moved, Counting, SetupLocks, InPlace, Place, Locking, Making, SetupNone
  <2>8. VcpusAgree' /\ OneBootCpu'
    BY <2>1, <2>2, SetupAssumption DEF SetupInv, Moved, VcpusAgree, OneBootCpu, Counting, Making, irqchip_in_kernel
  <2>9. PitStates' /\ PitSnapshot'
    BY <2>1, <2>2, SetupAssumption DEF SetupInv, Moved, PitStates, PitSnapshot, Writing, SetupLocks, InPlace, Place, InPit
  <2>10. QED
    BY <2>3, <2>4, <2>5, <2>6, <2>7, <2>8, <2>9 DEF SetupInv
<1>10. ASSUME mutex_unlock(t) PROVE SetupInv'
  <2>1. /\ setupPc[t].at = "unlock" /\ lock = t
        /\ lock' = SetupNone
        /\ UNCHANGED <<pit_lock, irqchip_mode, pic, ioapic, routing, nr_pins, vpit, channels, setupFlags, writes, states, created, setupVcpu, bsp>>
    BY <1>10, IdleRecord DEF mutex_unlock, At, mutex_lock, SetupUnlock, devices, pit, cpus, irqchip_in_kernel
  <2>2. Moved(t, "idle", "user", 0, 0)
    BY <1>10, ReturnMoves DEF SetupInv, mutex_unlock, SetupUnlock
  <2>3. SetupTypes'
    BY <1>0, <2>1, <2>2, SetupAssumption DEF SetupInv, Moved, SetupTypes
  <2>4. InPlace'
    BY <2>1, <2>2, SetupAssumption DEF SetupInv, Moved, InPlace, Place
  <2>5. SetupLocks'
    BY <2>1, <2>2, SetupAssumption DEF SetupInv, Moved, SetupLocks, InPlace, Place, Locking, InPit, SetupNone
  <2>6. Devices'
    BY <2>1, <2>2, SetupAssumption DEF SetupInv, Moved, Devices, DevicesAt, FailureLeavesNothing, SetupLocks, InPlace, Place, Locking, Making, irqchip_in_kernel, SetupNone
  <2>7. Counting'
    BY <2>1, <2>2, SetupAssumption DEF SetupInv, Moved, Counting, SetupLocks, InPlace, Place, Locking, Making, SetupNone
  <2>8. VcpusAgree' /\ OneBootCpu'
    BY <2>1, <2>2, SetupAssumption DEF SetupInv, Moved, VcpusAgree, OneBootCpu, Counting, Making, irqchip_in_kernel
  <2>9. PitStates' /\ PitSnapshot'
    BY <2>1, <2>2, SetupAssumption DEF SetupInv, Moved, PitStates, PitSnapshot, Writing, SetupLocks, InPlace, Place, InPit
  <2>10. QED
    BY <2>3, <2>4, <2>5, <2>6, <2>7, <2>8, <2>9 DEF SetupInv
<1>11. ASSUME NEW ok \in BOOLEAN, CreatePit(t, ok) PROVE SetupInv'
  <2>1. /\ setupPc[t].op = "idle" /\ setupPc[t].at = "user" /\ lock = SetupNone
        /\ lock' = t
        /\ vpit' \in BOOLEAN
        /\ UNCHANGED <<pit_lock, irqchip_mode, pic, ioapic, routing, nr_pins, channels, setupFlags, writes, states, created, setupVcpu, bsp>>
    BY <1>11, IdleRecord DEF CreatePit, At, mutex_lock, SetupUnlock, devices, pit, cpus, irqchip_in_kernel
  <2>2. Moved(t, "pit", "unlock", 0, 0)
    <3> DEFINE A == "unlock"
    <3>1. "pit" \in SetupOps /\ A \in SetupAts
      BY SetupAssumption DEF SetupInv, SetupTypes, SetupOps, SetupAts
    <3>2. setupPc' = [setupPc EXCEPT ![t] = SetupOp("pit", A)]
      BY <1>11, <2>1 DEF CreatePit, irqchip_in_kernel
    <3>3. Moved(t, "pit", A, 0, 0)
      <4> HIDE DEF A
      <4>1. QED
        BY <1>0, <3>1, <3>2, BeginMoves DEF SetupInv
    <3>4. QED
      BY <3>3
  <2>3. SetupTypes'
    BY <1>0, <2>1, <2>2, SetupAssumption DEF SetupInv, Moved, SetupTypes
  <2>4. InPlace'
    BY <2>1, <2>2, SetupAssumption DEF SetupInv, Moved, InPlace, Place
  <2>5. SetupLocks'
    BY <2>1, <2>2, SetupAssumption DEF SetupInv, Moved, SetupLocks, InPlace, Place, Locking, InPit, SetupNone
  <2>6. Devices'
    BY <2>1, <2>2, SetupAssumption DEF SetupInv, Moved, Devices, DevicesAt, FailureLeavesNothing, SetupLocks, InPlace, Place, Locking, Making, irqchip_in_kernel, SetupNone
  <2>7. Counting'
    BY <2>1, <2>2, SetupAssumption DEF SetupInv, Moved, Counting, SetupLocks, InPlace, Place, Locking, Making, SetupNone
  <2>8. VcpusAgree' /\ OneBootCpu'
    BY <2>1, <2>2, SetupAssumption DEF SetupInv, Moved, VcpusAgree, OneBootCpu, Counting, Making, irqchip_in_kernel
  <2>9. PitStates' /\ PitSnapshot'
    BY <2>1, <2>2, SetupAssumption DEF SetupInv, Moved, PitStates, PitSnapshot, Writing, SetupLocks, InPlace, Place, InPit
  <2>10. QED
    BY <2>3, <2>4, <2>5, <2>6, <2>7, <2>8, <2>9 DEF SetupInv
<1>12. ASSUME NEW c \in SetupVcpus, SetBootCpu(t, c) PROVE SetupInv'
  <2>1. /\ setupPc[t].op = "idle" /\ setupPc[t].at = "user" /\ lock = SetupNone
        /\ bsp' = IF created # {} THEN bsp ELSE c
        /\ UNCHANGED <<lock, pit_lock, irqchip_mode, pic, ioapic, routing, nr_pins, vpit, channels, setupFlags, writes, states, created, setupVcpu>>
    BY <1>12, IdleRecord DEF SetBootCpu, At, mutex_lock, SetupUnlock, devices, pit, cpus, irqchip_in_kernel
  <2>2. Moved(t, setupPc[t].op, setupPc[t].at, setupPc[t].v, setupPc[t].w)
    BY <1>12 DEF SetupInv, SetupTypes, Moved, SetBootCpu
  <2>3. SetupTypes'
    BY <1>0, <2>1, <2>2, SetupAssumption DEF SetupInv, Moved, SetupTypes
  <2>4. InPlace'
    BY <2>1, <2>2, SetupAssumption DEF SetupInv, Moved, InPlace, Place
  <2>5. SetupLocks'
    BY <2>1, <2>2, SetupAssumption DEF SetupInv, Moved, SetupLocks, InPlace, Place, Locking, InPit, SetupNone
  <2>6. Devices'
    BY <2>1, <2>2, SetupAssumption DEF SetupInv, Moved, Devices, DevicesAt, FailureLeavesNothing, SetupLocks, InPlace, Place, Locking, Making, irqchip_in_kernel, SetupNone
  <2>7. Counting'
    BY <2>1, <2>2, SetupAssumption DEF SetupInv, Moved, Counting, SetupLocks, InPlace, Place, Locking, Making, SetupNone
  <2>8. VcpusAgree' /\ OneBootCpu'
    BY <2>1, <2>2, SetupAssumption DEF SetupInv, Moved, VcpusAgree, OneBootCpu, Counting, Making, irqchip_in_kernel
  <2>9. PitStates' /\ PitSnapshot'
    BY <2>1, <2>2, SetupAssumption DEF SetupInv, Moved, PitStates, PitSnapshot, Writing, SetupLocks, InPlace, Place, InPit
  <2>10. QED
    BY <2>3, <2>4, <2>5, <2>6, <2>7, <2>8, <2>9 DEF SetupInv
<1>13. ASSUME NEW c \in SetupVcpus, SetupCreateVcpu(t, c) PROVE SetupInv'
  <2>1. /\ setupPc[t].op = "idle" /\ setupPc[t].at = "user" /\ lock = SetupNone
        /\ c \notin created
        /\ created' = created \cup {c}
        /\ UNCHANGED <<lock, pit_lock, irqchip_mode, pic, ioapic, routing, nr_pins, vpit, channels, setupFlags, writes, states, setupVcpu, bsp>>
    BY <1>13, IdleRecord DEF SetupCreateVcpu, At, mutex_lock, SetupUnlock, devices, pit, cpus, irqchip_in_kernel
  <2>2. Moved(t, "vcpu", "create", c, 0)
    <3> DEFINE A == "create"
    <3>1. "vcpu" \in SetupOps /\ A \in SetupAts /\ c \in Nat \cup SetupVcpus
      BY SetupAssumption DEF SetupInv, SetupTypes, SetupOps, SetupAts
    <3>2. setupPc' = [setupPc EXCEPT ![t] = [SetupOp("vcpu", A) EXCEPT !.v = c]]
      BY <1>13, <2>1 DEF SetupCreateVcpu, irqchip_in_kernel
    <3>3. Moved(t, "vcpu", A, c, 0)
      <4> HIDE DEF A
      <4>1. QED
        BY <1>0, <3>1, <3>2, BeginMoves DEF SetupInv
    <3>4. QED
      BY <3>3
  <2>3. SetupTypes'
    BY <1>0, <2>1, <2>2, SetupAssumption DEF SetupInv, Moved, SetupTypes
  <2>4. InPlace'
    BY <2>1, <2>2, SetupAssumption DEF SetupInv, Moved, InPlace, Place
  <2>5. SetupLocks'
    BY <2>1, <2>2, SetupAssumption DEF SetupInv, Moved, SetupLocks, InPlace, Place, Locking, InPit, SetupNone
  <2>6. Devices'
    BY <2>1, <2>2, SetupAssumption DEF SetupInv, Moved, Devices, DevicesAt, FailureLeavesNothing, SetupLocks, InPlace, Place, Locking, Making, irqchip_in_kernel, SetupNone
  <2>7. Counting'
    BY <2>1, <2>2, SetupAssumption DEF SetupInv, Moved, Counting, SetupLocks, InPlace, Place, Locking, Making, SetupNone
  <2>8. VcpusAgree' /\ OneBootCpu'
    BY <2>1, <2>2, SetupAssumption DEF SetupInv, Moved, VcpusAgree, OneBootCpu, Counting, Making, irqchip_in_kernel
  <2>9. PitStates' /\ PitSnapshot'
    BY <2>1, <2>2, SetupAssumption DEF SetupInv, Moved, PitStates, PitSnapshot, Writing, SetupLocks, InPlace, Place, InPit
  <2>10. QED
    BY <2>3, <2>4, <2>5, <2>6, <2>7, <2>8, <2>9 DEF SetupInv
<1>14. ASSUME kvm_arch_vcpu_create(t) PROVE SetupInv'
  <2>1. /\ setupPc[t].op = "vcpu" /\ setupPc[t].at = "create"
        /\ setupVcpu' = [setupVcpu EXCEPT ![setupPc[t].v] = [made |-> TRUE, lapic |-> irqchip_in_kernel,
                                                         pins |-> nr_pins, boot |-> setupPc[t].v = bsp]]
        /\ UNCHANGED <<lock, pit_lock, irqchip_mode, pic, ioapic, routing, nr_pins, vpit, channels, setupFlags, writes, states, created, bsp>>
    BY <1>14, IdleRecord DEF kvm_arch_vcpu_create, At, mutex_lock, SetupUnlock, devices, pit, cpus, irqchip_in_kernel
  <2>2. Moved(t, "idle", "user", 0, 0)
    BY <1>14, ReturnMoves DEF SetupInv, kvm_arch_vcpu_create, SetupUnlock
  <2>3. SetupTypes'
    BY <2>1, <2>2, VcpuMade DEF SetupInv, Moved, InPlace, SetupTypes
  <2>4. InPlace'
    BY <2>1, <2>2, SetupAssumption DEF SetupInv, Moved, InPlace, Place
  <2>5. SetupLocks'
    BY <2>1, <2>2, SetupAssumption DEF SetupInv, Moved, SetupLocks, InPlace, Place, Locking, InPit, SetupNone
  <2>6. Devices'
    BY <2>1, <2>2, SetupAssumption DEF SetupInv, Moved, Devices, DevicesAt, FailureLeavesNothing, SetupLocks, InPlace, Place, Locking, Making, irqchip_in_kernel, SetupNone
  <2>7. Counting'
    BY <2>1, <2>2, SetupAssumption DEF SetupInv, Moved, Counting, SetupLocks, InPlace, Place, Locking, Making, SetupNone
  <2>8. VcpusAgree' /\ OneBootCpu'
    <3>1. setupPc[t].v \in SetupVcpus
      BY <2>1 DEF SetupInv, InPlace
    <3>2. /\ setupVcpu'[setupPc[t].v].lapic = irqchip_in_kernel
          /\ setupVcpu'[setupPc[t].v].pins = nr_pins /\ (setupVcpu'[setupPc[t].v].boot <=> setupPc[t].v = bsp)
          /\ \A d \in SetupVcpus \ {setupPc[t].v} : setupVcpu'[d] = setupVcpu[d]
      BY <2>1, <3>1, VcpuMade
    <3>3. irqchip_in_kernel' = irqchip_in_kernel /\ nr_pins' = nr_pins /\ bsp' = bsp
      BY <2>1 DEF irqchip_in_kernel
    <3>4. QED
      BY <3>1, <3>2, <3>3 DEF SetupInv, VcpusAgree, OneBootCpu
  <2>9. PitStates' /\ PitSnapshot'
    BY <2>1, <2>2, SetupAssumption DEF SetupInv, Moved, PitStates, PitSnapshot, Writing, SetupLocks, InPlace, Place, InPit
  <2>10. QED
    BY <2>3, <2>4, <2>5, <2>6, <2>7, <2>8, <2>9 DEF SetupInv
<1>15. ASSUME CheckChip(t) PROVE SetupInv'
  <2>1. /\ setupPc[t].op = "idle" /\ setupPc[t].at = "user"
        /\ UNCHANGED <<lock, pit_lock, irqchip_mode, pic, ioapic, routing, nr_pins, vpit, channels, setupFlags, writes, states, created, setupVcpu, bsp>>
    BY <1>15, IdleRecord DEF CheckChip, At, mutex_lock, SetupUnlock, devices, pit, cpus, irqchip_in_kernel
  <2>2. Moved(t, IF irqchip_mode = "kernel" THEN "chip" ELSE "idle",
               IF irqchip_mode = "kernel" THEN "use" ELSE "user",
               0, 0)
    <3>1. CASE irqchip_mode = "kernel"
      <4>1. setupPc' = [setupPc EXCEPT ![t] = SetupOp("chip", "use")]
        BY <1>15, <3>1 DEF CheckChip, irqchip_kernel, irqchip_in_kernel
      <4>2. Moved(t, "chip", "use", 0, 0)
        BY <1>0, <4>1, BeginMoves DEF SetupInv, SetupOps, SetupAts
      <4>3. QED
        BY <3>1, <4>2
    <3>2. CASE ~(irqchip_mode = "kernel")
      <4>1. Moved(t, "idle", "user", 0, 0)
        BY <1>15, <3>2, ReturnMoves DEF SetupInv, SetupReturn, CheckChip, irqchip_kernel, irqchip_in_kernel
      <4>2. QED
        BY <3>2, <4>1
    <3>3. QED
      BY <3>1, <3>2
  <2>3. SetupTypes'
    BY <1>0, <2>1, <2>2, SetupAssumption DEF SetupInv, Moved, SetupTypes
  <2>4. InPlace'
    BY <2>1, <2>2, SetupAssumption DEF SetupInv, Moved, InPlace, Place
  <2>5. SetupLocks'
    BY <2>1, <2>2, SetupAssumption DEF SetupInv, Moved, SetupLocks, InPlace, Place, Locking, InPit, SetupNone
  <2>6. Devices'
    BY <2>1, <2>2, SetupAssumption DEF SetupInv, Moved, Devices, DevicesAt, FailureLeavesNothing, SetupLocks, InPlace, Place, Locking, Making, irqchip_in_kernel, SetupNone
  <2>7. Counting'
    BY <2>1, <2>2, SetupAssumption DEF SetupInv, Moved, Counting, SetupLocks, InPlace, Place, Locking, Making, SetupNone
  <2>8. VcpusAgree' /\ OneBootCpu'
    BY <2>1, <2>2, SetupAssumption DEF SetupInv, Moved, VcpusAgree, OneBootCpu, Counting, Making, irqchip_in_kernel
  <2>9. PitStates' /\ PitSnapshot'
    BY <2>1, <2>2, SetupAssumption DEF SetupInv, Moved, PitStates, PitSnapshot, Writing, SetupLocks, InPlace, Place, InPit
  <2>10. QED
    BY <2>3, <2>4, <2>5, <2>6, <2>7, <2>8, <2>9 DEF SetupInv
<1>16. ASSUME CheckLine(t) PROVE SetupInv'
  <2>1. /\ setupPc[t].op = "idle" /\ setupPc[t].at = "user"
        /\ UNCHANGED <<lock, pit_lock, irqchip_mode, pic, ioapic, routing, nr_pins, vpit, channels, setupFlags, writes, states, created, setupVcpu, bsp>>
    BY <1>16, IdleRecord DEF CheckLine, At, mutex_lock, SetupUnlock, devices, pit, cpus, irqchip_in_kernel
  <2>2. Moved(t, IF irqchip_mode # "none" THEN "line" ELSE "idle",
               IF irqchip_mode # "none" THEN "use" ELSE "user",
               0, 0)
    <3>1. CASE irqchip_mode # "none"
      <4>1. setupPc' = [setupPc EXCEPT ![t] = SetupOp("line", "use")]
        BY <1>16, <3>1 DEF CheckLine, irqchip_kernel, irqchip_in_kernel
      <4>2. Moved(t, "line", "use", 0, 0)
        BY <1>0, <4>1, BeginMoves DEF SetupInv, SetupOps, SetupAts
      <4>3. QED
        BY <3>1, <4>2
    <3>2. CASE ~(irqchip_mode # "none")
      <4>1. Moved(t, "idle", "user", 0, 0)
        BY <1>16, <3>2, ReturnMoves DEF SetupInv, SetupReturn, CheckLine, irqchip_kernel, irqchip_in_kernel
      <4>2. QED
        BY <3>2, <4>1
    <3>3. QED
      BY <3>1, <3>2
  <2>3. SetupTypes'
    BY <1>0, <2>1, <2>2, SetupAssumption DEF SetupInv, Moved, SetupTypes
  <2>4. InPlace'
    BY <2>1, <2>2, SetupAssumption DEF SetupInv, Moved, InPlace, Place
  <2>5. SetupLocks'
    BY <2>1, <2>2, SetupAssumption DEF SetupInv, Moved, SetupLocks, InPlace, Place, Locking, InPit, SetupNone
  <2>6. Devices'
    BY <2>1, <2>2, SetupAssumption DEF SetupInv, Moved, Devices, DevicesAt, FailureLeavesNothing, SetupLocks, InPlace, Place, Locking, Making, irqchip_in_kernel, SetupNone
  <2>7. Counting'
    BY <2>1, <2>2, SetupAssumption DEF SetupInv, Moved, Counting, SetupLocks, InPlace, Place, Locking, Making, SetupNone
  <2>8. VcpusAgree' /\ OneBootCpu'
    BY <2>1, <2>2, SetupAssumption DEF SetupInv, Moved, VcpusAgree, OneBootCpu, Counting, Making, irqchip_in_kernel
  <2>9. PitStates' /\ PitSnapshot'
    BY <2>1, <2>2, SetupAssumption DEF SetupInv, Moved, PitStates, PitSnapshot, Writing, SetupLocks, InPlace, Place, InPit
  <2>10. QED
    BY <2>3, <2>4, <2>5, <2>6, <2>7, <2>8, <2>9 DEF SetupInv
<1>17. ASSUME Use(t) PROVE SetupInv'
  <2>1. /\ setupPc[t].at = "use"
        /\ UNCHANGED <<lock, pit_lock, irqchip_mode, pic, ioapic, routing, nr_pins, vpit, channels, setupFlags, writes, states, created, setupVcpu, bsp>>
    BY <1>17, IdleRecord DEF Use, At, mutex_lock, SetupUnlock, devices, pit, cpus, irqchip_in_kernel
  <2>2. Moved(t, "idle", "user", 0, 0)
    BY <1>17, ReturnMoves DEF SetupInv, Use, SetupUnlock
  <2>3. SetupTypes'
    BY <1>0, <2>1, <2>2, SetupAssumption DEF SetupInv, Moved, SetupTypes
  <2>4. InPlace'
    BY <2>1, <2>2, SetupAssumption DEF SetupInv, Moved, InPlace, Place
  <2>5. SetupLocks'
    BY <2>1, <2>2, SetupAssumption DEF SetupInv, Moved, SetupLocks, InPlace, Place, Locking, InPit, SetupNone
  <2>6. Devices'
    BY <2>1, <2>2, SetupAssumption DEF SetupInv, Moved, Devices, DevicesAt, FailureLeavesNothing, SetupLocks, InPlace, Place, Locking, Making, irqchip_in_kernel, SetupNone
  <2>7. Counting'
    BY <2>1, <2>2, SetupAssumption DEF SetupInv, Moved, Counting, SetupLocks, InPlace, Place, Locking, Making, SetupNone
  <2>8. VcpusAgree' /\ OneBootCpu'
    BY <2>1, <2>2, SetupAssumption DEF SetupInv, Moved, VcpusAgree, OneBootCpu, Counting, Making, irqchip_in_kernel
  <2>9. PitStates' /\ PitSnapshot'
    BY <2>1, <2>2, SetupAssumption DEF SetupInv, Moved, PitStates, PitSnapshot, Writing, SetupLocks, InPlace, Place, InPit
  <2>10. QED
    BY <2>3, <2>4, <2>5, <2>6, <2>7, <2>8, <2>9 DEF SetupInv
<1>18. ASSUME NEW op \in {"set_pit", "set_pit2"}, SetPit(t, op) PROVE SetupInv'
  <2>1. /\ setupPc[t].op = "idle" /\ setupPc[t].at = "user" /\ lock = SetupNone
        /\ lock' = t
        /\ writes' = writes + 1
        /\ UNCHANGED <<pit_lock, irqchip_mode, pic, ioapic, routing, nr_pins, vpit, channels, setupFlags, states, created, setupVcpu, bsp>>
    BY <1>18, IdleRecord DEF SetPit, At, mutex_lock, SetupUnlock, devices, pit, cpus, irqchip_in_kernel
  <2>2. Moved(t, op, IF vpit THEN "lock" ELSE "unlock", 0, writes + 1)
    <3> DEFINE A == IF vpit THEN "lock" ELSE "unlock"
    <3>1. op \in SetupOps /\ A \in SetupAts /\ writes + 1 \in Nat
      BY SetupAssumption DEF SetupInv, SetupTypes, SetupOps, SetupAts
    <3>2. setupPc' = [setupPc EXCEPT ![t] = [SetupOp(op, A) EXCEPT !.w = writes + 1]]
      BY <1>18, <2>1 DEF SetPit, irqchip_in_kernel
    <3>3. Moved(t, op, A, 0, writes + 1)
      <4> HIDE DEF A
      <4>1. QED
        BY <1>0, <3>1, <3>2, BeginMoves DEF SetupInv
    <3>4. QED
      BY <3>3
  <2>3. SetupTypes'
    BY <1>0, <2>1, <2>2, SetupAssumption DEF SetupInv, Moved, SetupTypes
  <2>4. InPlace'
    BY <2>1, <2>2, SetupAssumption DEF SetupInv, Moved, InPlace, Place
  <2>5. SetupLocks'
    BY <2>1, <2>2, SetupAssumption DEF SetupInv, Moved, SetupLocks, InPlace, Place, Locking, InPit, SetupNone
  <2>6. Devices'
    BY <2>1, <2>2, SetupAssumption DEF SetupInv, Moved, Devices, DevicesAt, FailureLeavesNothing, SetupLocks, InPlace, Place, Locking, Making, irqchip_in_kernel, SetupNone
  <2>7. Counting'
    BY <2>1, <2>2, SetupAssumption DEF SetupInv, Moved, Counting, SetupLocks, InPlace, Place, Locking, Making, SetupNone
  <2>8. VcpusAgree' /\ OneBootCpu'
    BY <2>1, <2>2, SetupAssumption DEF SetupInv, Moved, VcpusAgree, OneBootCpu, Counting, Making, irqchip_in_kernel
  <2>9. PitStates' /\ PitSnapshot'
    BY <2>1, <2>2, SetupAssumption DEF SetupInv, Moved, PitStates, PitSnapshot, Writing, SetupLocks, InPlace, Place, InPit
  <2>10. QED
    BY <2>3, <2>4, <2>5, <2>6, <2>7, <2>8, <2>9 DEF SetupInv
<1>19. ASSUME GetPit(t) PROVE SetupInv'
  <2>1. /\ setupPc[t].op = "idle" /\ setupPc[t].at = "user"
        /\ UNCHANGED <<lock, pit_lock, irqchip_mode, pic, ioapic, routing, nr_pins, vpit, channels, setupFlags, writes, states, created, setupVcpu, bsp>>
    BY <1>19, IdleRecord DEF GetPit, At, mutex_lock, SetupUnlock, devices, pit, cpus, irqchip_in_kernel
  <2>2. Moved(t, "get_pit", "lock", 0, 0)
    <3> DEFINE A == "lock"
    <3>1. "get_pit" \in SetupOps /\ A \in SetupAts
      BY SetupAssumption DEF SetupInv, SetupTypes, SetupOps, SetupAts
    <3>2. setupPc' = [setupPc EXCEPT ![t] = SetupOp("get_pit", A)]
      BY <1>19, <2>1 DEF GetPit, irqchip_in_kernel
    <3>3. Moved(t, "get_pit", A, 0, 0)
      <4> HIDE DEF A
      <4>1. QED
        BY <1>0, <3>1, <3>2, BeginMoves DEF SetupInv
    <3>4. QED
      BY <3>3
  <2>3. SetupTypes'
    BY <1>0, <2>1, <2>2, SetupAssumption DEF SetupInv, Moved, SetupTypes
  <2>4. InPlace'
    BY <2>1, <2>2, SetupAssumption DEF SetupInv, Moved, InPlace, Place
  <2>5. SetupLocks'
    BY <2>1, <2>2, SetupAssumption DEF SetupInv, Moved, SetupLocks, InPlace, Place, Locking, InPit, SetupNone
  <2>6. Devices'
    BY <2>1, <2>2, SetupAssumption DEF SetupInv, Moved, Devices, DevicesAt, FailureLeavesNothing, SetupLocks, InPlace, Place, Locking, Making, irqchip_in_kernel, SetupNone
  <2>7. Counting'
    BY <2>1, <2>2, SetupAssumption DEF SetupInv, Moved, Counting, SetupLocks, InPlace, Place, Locking, Making, SetupNone
  <2>8. VcpusAgree' /\ OneBootCpu'
    BY <2>1, <2>2, SetupAssumption DEF SetupInv, Moved, VcpusAgree, OneBootCpu, Counting, Making, irqchip_in_kernel
  <2>9. PitStates' /\ PitSnapshot'
    BY <2>1, <2>2, SetupAssumption DEF SetupInv, Moved, PitStates, PitSnapshot, Writing, SetupLocks, InPlace, Place, InPit
  <2>10. QED
    BY <2>3, <2>4, <2>5, <2>6, <2>7, <2>8, <2>9 DEF SetupInv
<1>20. ASSUME PitLock(t) PROVE SetupInv'
  <2>1. /\ setupPc[t].at = "lock" /\ pit_lock = SetupNone
        /\ pit_lock' = t
        /\ UNCHANGED <<lock, irqchip_mode, pic, ioapic, routing, nr_pins, vpit, channels, setupFlags, writes, states, created, setupVcpu, bsp>>
    BY <1>20, IdleRecord DEF PitLock, At, mutex_lock, SetupUnlock, devices, pit, cpus, irqchip_in_kernel
  <2>2. Moved(t, setupPc[t].op, "channels", setupPc[t].v, setupPc[t].w)
    BY <1>20, GotoMoves DEF SetupInv, SetupAts, PitLock
  <2>3. SetupTypes'
    BY <1>0, <2>1, <2>2, SetupAssumption DEF SetupInv, Moved, SetupTypes
  <2>4. InPlace'
    BY <2>1, <2>2, SetupAssumption DEF SetupInv, Moved, InPlace, Place
  <2>5. SetupLocks'
    BY <2>1, <2>2, SetupAssumption DEF SetupInv, Moved, SetupLocks, InPlace, Place, Locking, InPit, SetupNone
  <2>6. Devices'
    BY <2>1, <2>2, SetupAssumption DEF SetupInv, Moved, Devices, DevicesAt, FailureLeavesNothing, SetupLocks, InPlace, Place, Locking, Making, irqchip_in_kernel, SetupNone
  <2>7. Counting'
    BY <2>1, <2>2, SetupAssumption DEF SetupInv, Moved, Counting, SetupLocks, InPlace, Place, Locking, Making, SetupNone
  <2>8. VcpusAgree' /\ OneBootCpu'
    BY <2>1, <2>2, SetupAssumption DEF SetupInv, Moved, VcpusAgree, OneBootCpu, Counting, Making, irqchip_in_kernel
  <2>9. PitStates' /\ PitSnapshot'
    BY <2>1, <2>2, SetupAssumption DEF SetupInv, Moved, PitStates, PitSnapshot, Writing, SetupLocks, InPlace, Place, InPit
  <2>10. QED
    BY <2>3, <2>4, <2>5, <2>6, <2>7, <2>8, <2>9 DEF SetupInv
<1>21. ASSUME CopyChannels(t) PROVE SetupInv'
  <2>1. /\ setupPc[t].at = "channels"
        /\ channels' = IF setupPc[t].op = "get_pit" THEN channels ELSE setupPc[t].w
        /\ UNCHANGED <<lock, pit_lock, irqchip_mode, pic, ioapic, routing, nr_pins, vpit, setupFlags, writes, states, created, setupVcpu, bsp>>
    BY <1>21, IdleRecord DEF CopyChannels, At, mutex_lock, SetupUnlock, devices, pit, cpus, irqchip_in_kernel
  <2>2. Moved(t, setupPc[t].op,
               IF setupPc[t].op \in {"get_pit", "set_pit2"} THEN "flags" ELSE "pit_unlock",
               IF setupPc[t].op = "get_pit" THEN channels ELSE setupPc[t].v, setupPc[t].w)
    BY <1>21, CopyMoves DEF SetupInv
  <2>3. SetupTypes'
    BY <1>0, <2>1, <2>2, SetupAssumption DEF SetupInv, Moved, SetupTypes
  <2>4. InPlace'
    BY <2>1, <2>2, SetupAssumption DEF SetupInv, Moved, InPlace, Place
  <2>5. SetupLocks'
    BY <2>1, <2>2, SetupAssumption DEF SetupInv, Moved, SetupLocks, InPlace, Place, Locking, InPit, SetupNone
  <2>6. Devices'
    BY <2>1, <2>2, SetupAssumption DEF SetupInv, Moved, Devices, DevicesAt, FailureLeavesNothing, SetupLocks, InPlace, Place, Locking, Making, irqchip_in_kernel, SetupNone
  <2>7. Counting'
    BY <2>1, <2>2, SetupAssumption DEF SetupInv, Moved, Counting, SetupLocks, InPlace, Place, Locking, Making, SetupNone
  <2>8. VcpusAgree' /\ OneBootCpu'
    BY <2>1, <2>2, SetupAssumption DEF SetupInv, Moved, VcpusAgree, OneBootCpu, Counting, Making, irqchip_in_kernel
  <2>9. PitStates' /\ PitSnapshot'
    BY <2>1, <2>2, SetupAssumption DEF SetupInv, Moved, PitStates, PitSnapshot, Writing, SetupLocks, InPlace, Place, InPit
  <2>10. QED
    BY <2>3, <2>4, <2>5, <2>6, <2>7, <2>8, <2>9 DEF SetupInv
<1>22. ASSUME CopyFlags(t) PROVE SetupInv'
  <2>1. /\ setupPc[t].at = "flags"
        /\ setupFlags' = IF setupPc[t].op = "get_pit" THEN setupFlags ELSE setupPc[t].w
        /\ UNCHANGED <<lock, pit_lock, irqchip_mode, pic, ioapic, routing, nr_pins, vpit, channels, writes, states, created, setupVcpu, bsp>>
    BY <1>22, IdleRecord DEF CopyFlags, At, mutex_lock, SetupUnlock, devices, pit, cpus, irqchip_in_kernel
  <2>2. Moved(t, setupPc[t].op,
               "pit_unlock",
               setupPc[t].v, IF setupPc[t].op = "get_pit" THEN setupFlags ELSE setupPc[t].w)
    BY <1>22, CopyMoves DEF SetupInv
  <2>3. SetupTypes'
    BY <1>0, <2>1, <2>2, SetupAssumption DEF SetupInv, Moved, SetupTypes
  <2>4. InPlace'
    BY <2>1, <2>2, SetupAssumption DEF SetupInv, Moved, InPlace, Place
  <2>5. SetupLocks'
    BY <2>1, <2>2, SetupAssumption DEF SetupInv, Moved, SetupLocks, InPlace, Place, Locking, InPit, SetupNone
  <2>6. Devices'
    BY <2>1, <2>2, SetupAssumption DEF SetupInv, Moved, Devices, DevicesAt, FailureLeavesNothing, SetupLocks, InPlace, Place, Locking, Making, irqchip_in_kernel, SetupNone
  <2>7. Counting'
    BY <2>1, <2>2, SetupAssumption DEF SetupInv, Moved, Counting, SetupLocks, InPlace, Place, Locking, Making, SetupNone
  <2>8. VcpusAgree' /\ OneBootCpu'
    BY <2>1, <2>2, SetupAssumption DEF SetupInv, Moved, VcpusAgree, OneBootCpu, Counting, Making, irqchip_in_kernel
  <2>9. PitStates' /\ PitSnapshot'
    BY <2>1, <2>2, SetupAssumption DEF SetupInv, Moved, PitStates, PitSnapshot, Writing, SetupLocks, InPlace, Place, InPit
  <2>10. QED
    BY <2>3, <2>4, <2>5, <2>6, <2>7, <2>8, <2>9 DEF SetupInv
<1>23. ASSUME PitUnlock(t) PROVE SetupInv'
  <2>1. /\ setupPc[t].at = "pit_unlock"
        /\ pit_lock' = SetupNone
        /\ states' = IF setupPc[t].op = "get_pit" THEN states ELSE states \cup {<<channels, setupFlags>>}
        /\ UNCHANGED <<lock, irqchip_mode, pic, ioapic, routing, nr_pins, vpit, channels, setupFlags, writes, created, setupVcpu, bsp>>
    BY <1>23, IdleRecord DEF PitUnlock, At, mutex_lock, SetupUnlock, devices, pit, cpus, irqchip_in_kernel
  <2>2. Moved(t, setupPc[t].op,
               IF setupPc[t].op = "get_pit" THEN "got" ELSE "unlock",
               setupPc[t].v, setupPc[t].w)
    BY <1>23, GotoMoves DEF SetupInv, SetupAts, PitUnlock
  <2>3. SetupTypes'
    BY <1>0, <2>1, <2>2, SetupAssumption DEF SetupInv, Moved, SetupTypes
  <2>4. InPlace'
    BY <2>1, <2>2, SetupAssumption DEF SetupInv, Moved, InPlace, Place
  <2>5. SetupLocks'
    BY <2>1, <2>2, SetupAssumption DEF SetupInv, Moved, SetupLocks, InPlace, Place, Locking, InPit, SetupNone
  <2>6. Devices'
    BY <2>1, <2>2, SetupAssumption DEF SetupInv, Moved, Devices, DevicesAt, FailureLeavesNothing, SetupLocks, InPlace, Place, Locking, Making, irqchip_in_kernel, SetupNone
  <2>7. Counting'
    BY <2>1, <2>2, SetupAssumption DEF SetupInv, Moved, Counting, SetupLocks, InPlace, Place, Locking, Making, SetupNone
  <2>8. VcpusAgree' /\ OneBootCpu'
    BY <2>1, <2>2, SetupAssumption DEF SetupInv, Moved, VcpusAgree, OneBootCpu, Counting, Making, irqchip_in_kernel
  <2>9. PitStates' /\ PitSnapshot'
    BY <2>1, <2>2, SetupAssumption DEF SetupInv, Moved, PitStates, PitSnapshot, Writing, SetupLocks, InPlace, Place, InPit
  <2>10. QED
    BY <2>3, <2>4, <2>5, <2>6, <2>7, <2>8, <2>9 DEF SetupInv
<1>24. ASSUME GotPit(t) PROVE SetupInv'
  <2>1. /\ setupPc[t].at = "got"
        /\ UNCHANGED <<lock, pit_lock, irqchip_mode, pic, ioapic, routing, nr_pins, vpit, channels, setupFlags, writes, states, created, setupVcpu, bsp>>
    BY <1>24, IdleRecord DEF GotPit, At, mutex_lock, SetupUnlock, devices, pit, cpus, irqchip_in_kernel
  <2>2. Moved(t, "idle", "user", 0, 0)
    BY <1>24, ReturnMoves DEF SetupInv, GotPit, SetupUnlock
  <2>3. SetupTypes'
    BY <1>0, <2>1, <2>2, SetupAssumption DEF SetupInv, Moved, SetupTypes
  <2>4. InPlace'
    BY <2>1, <2>2, SetupAssumption DEF SetupInv, Moved, InPlace, Place
  <2>5. SetupLocks'
    BY <2>1, <2>2, SetupAssumption DEF SetupInv, Moved, SetupLocks, InPlace, Place, Locking, InPit, SetupNone
  <2>6. Devices'
    BY <2>1, <2>2, SetupAssumption DEF SetupInv, Moved, Devices, DevicesAt, FailureLeavesNothing, SetupLocks, InPlace, Place, Locking, Making, irqchip_in_kernel, SetupNone
  <2>7. Counting'
    BY <2>1, <2>2, SetupAssumption DEF SetupInv, Moved, Counting, SetupLocks, InPlace, Place, Locking, Making, SetupNone
  <2>8. VcpusAgree' /\ OneBootCpu'
    BY <2>1, <2>2, SetupAssumption DEF SetupInv, Moved, VcpusAgree, OneBootCpu, Counting, Making, irqchip_in_kernel
  <2>9. PitStates' /\ PitSnapshot'
    BY <2>1, <2>2, SetupAssumption DEF SetupInv, Moved, PitStates, PitSnapshot, Writing, SetupLocks, InPlace, Place, InPit
  <2>10. QED
    BY <2>3, <2>4, <2>5, <2>6, <2>7, <2>8, <2>9 DEF SetupInv
<1>25. QED
  BY <1>1, <1>2, <1>3, <1>4, <1>5, <1>6, <1>7, <1>8, <1>9, <1>10, <1>11, <1>12, <1>13, <1>14, <1>15, <1>16, <1>17, <1>18, <1>19, <1>20, <1>21, <1>22, <1>23, <1>24

LEMMA SetupInitInv == SetupInit => SetupInv
<1> SUFFICES ASSUME SetupInit PROVE SetupInv
  OBVIOUS
<1>1. "idle" \in SetupOps /\ "user" \in SetupAts /\ 0 \in Nat /\ 0 \in Nat \cup SetupVcpus
  BY DEF SetupOps, SetupAts
<1>2. SetupIdle \in SetupRecs
  BY <1>1 DEF SetupIdle, SetupRecs
<1>3. NotYet \in VcpuRecs /\ ~NotYet.made
  BY <1>1 DEF NotYet, VcpuRecs
<1>4. /\ setupPc \in [SetupThreads -> SetupRecs] /\ setupVcpu \in [SetupVcpus -> VcpuRecs]
      /\ \A t \in SetupThreads : setupPc[t].op = "idle" /\ setupPc[t].at = "user"
      /\ \A c \in SetupVcpus : ~setupVcpu[c].made
  <2>1. \A t \in SetupThreads : setupPc[t] = SetupIdle
    BY DEF SetupInit
  <2>2. \A c \in SetupVcpus : setupVcpu[c] = NotYet
    BY DEF SetupInit
  <2>3. setupPc \in [SetupThreads -> SetupRecs]
    BY <1>2 DEF SetupInit
  <2>4. setupVcpu \in [SetupVcpus -> VcpuRecs]
    BY <1>3 DEF SetupInit
  <2>5. QED
    BY <1>3, <2>1, <2>2, <2>3, <2>4, IdleRecord
<1>5. /\ lock = SetupNone /\ pit_lock = SetupNone /\ irqchip_mode = "none" /\ nr_pins = 0
      /\ channels = 0 /\ setupFlags = 0 /\ writes = 0 /\ states = {<<0, 0>>}
  BY DEF SetupInit
<1>6. /\ pic \in BOOLEAN /\ ~pic /\ ioapic \in BOOLEAN /\ ~ioapic
      /\ routing \in BOOLEAN /\ ~routing /\ vpit \in BOOLEAN
  BY Zenon DEF SetupInit
<1>7. SetupTypes /\ InPlace
  BY <1>1, <1>4, <1>5, <1>6 DEF SetupTypes, InPlace, Place
<1>8. SetupLocks
  BY <1>4, <1>5, SetupAssumption DEF SetupLocks, Locking, InPit
<1>9. Devices
  BY <1>4, <1>5, <1>6 DEF Devices, DevicesAt, FailureLeavesNothing, Locking, Making
<1>10. Counting /\ VcpusAgree /\ OneBootCpu
  BY <1>4 DEF Counting, VcpusAgree, OneBootCpu, Making
<1>11. PitStates /\ PitSnapshot
  BY <1>4, <1>5 DEF PitStates, PitSnapshot, Writing
<1>12. QED
  BY <1>7, <1>8, <1>9, <1>10, <1>11 DEF SetupInv

LEMMA SetupInvImplies == SetupInv => UseIsSafe /\ VcpusAgree /\ OneBootCpu /\ FailureLeavesNothing /\ PitSnapshot
<1> SUFFICES ASSUME SetupInv PROVE UseIsSafe /\ FailureLeavesNothing
  BY DEF SetupInv
<1>1. ASSUME NEW t \in SetupThreads, setupPc[t].at = "use"
      PROVE  routing /\ (setupPc[t].op = "chip" => pic /\ ioapic)
  <2>1. setupPc[t].op \in {"chip", "line"}
    BY <1>1 DEF SetupInv, InPlace, Place
  <2>2. QED
    BY <2>1 DEF SetupInv, SetupTypes, Devices, DevicesAt
<1>2. QED
  BY <1>1 DEF UseIsSafe, SetupInv, Devices


-----------------------------------------------------------------------------
(* What KVM_CHECK_EXTENSION answers for the capabilities that have bits. *)
LEMMA Reported ==
    /\ kvm_vm_ioctl_check_extension("X86_DISABLE_EXITS") = {"hlt", "pause", "cstate"} \cup (capHost \cap {"mwait"})
    /\ kvm_vm_ioctl_check_extension("X2APIC_API") = X2ApicBits
    /\ kvm_vm_ioctl_check_extension("X86_BUS_LOCK_EXIT") = IF "bus_lock" \in capHost THEN BusLockBits ELSE {}
    /\ kvm_vm_ioctl_check_extension("EXIT_HYPERCALL") = HypercallBits
    /\ kvm_vm_ioctl_check_extension("HYPERV_ENLIGHTENED_VMCS") = IF "evmcs" \in capHost THEN {"one"} ELSE {}
    /\ kvm_vm_ioctl_check_extension("HYPERV_DIRECT_TLBFLUSH") = IF "tlbflush" \in capHost THEN {"one"} ELSE {}
  BY DEF kvm_vm_ioctl_check_extension

(* What is in force, without the names of the capabilities. *)
InForce(vm) ==
  /\ vm.exits \subseteq {"hlt", "pause", "cstate"} \cup (capHost \cap {"mwait"})
  /\ vm.bus_lock => "bus_lock" \in capHost

LEMMA InForceIs ==
    ASSUME capVm \in CapVms, capVcpu \in CapVcpus
    PROVE  InForceIsReported <=> /\ InForce(capVm)
                                 /\ capVcpu.evmcs => "evmcs" \in capHost
                                 /\ capVcpu.tlbflush => "tlbflush" \in capHost
<1>1. capVm.x2apic \subseteq X2ApicBits /\ capVm.hypercall \subseteq HypercallBits
  BY DEF CapVms
<1>2. "exit" \in BusLockBits
  BY DEF BusLockBits
<1>3. QED
  BY <1>1, <1>2, Reported DEF InForceIsReported, InForce

(* What a step must show of the fields in force and of the last call. *)
LEMMA CapStep ==
    ASSUME UNCHANGED capHost, capVm' \in CapVms, capVcpu' \in CapVcpus, InForce(capVm'),
           capVcpu'.evmcs => "evmcs" \in capHost, capVcpu'.tlbflush => "tlbflush" \in capHost
    PROVE  InForceIsReported'
<1>1. /\ kvm_vm_ioctl_check_extension("X86_DISABLE_EXITS")' = {"hlt", "pause", "cstate"} \cup (capHost \cap {"mwait"})
      /\ kvm_vm_ioctl_check_extension("X2APIC_API")' = X2ApicBits
      /\ kvm_vm_ioctl_check_extension("X86_BUS_LOCK_EXIT")' = IF "bus_lock" \in capHost THEN BusLockBits ELSE {}
      /\ kvm_vm_ioctl_check_extension("EXIT_HYPERCALL")' = HypercallBits
      /\ kvm_vm_ioctl_check_extension("HYPERV_ENLIGHTENED_VMCS")' = IF "evmcs" \in capHost THEN {"one"} ELSE {}
      /\ kvm_vm_ioctl_check_extension("HYPERV_DIRECT_TLBFLUSH")' = IF "tlbflush" \in capHost THEN {"one"} ELSE {}
  BY DEF kvm_vm_ioctl_check_extension
<1>2. capVm'.x2apic \subseteq X2ApicBits /\ capVm'.hypercall \subseteq HypercallBits
  BY DEF CapVms
<1>3. "exit" \in BusLockBits
  BY DEF BusLockBits
<1>4. QED
  BY <1>1, <1>2, <1>3 DEF InForceIsReported, InForce

LEMMA CapInitInv == CapInit => CapInv
<1> SUFFICES ASSUME CapInit PROVE CapInv
  OBVIOUS
<1>1. capVm \in CapVms
  BY DEF CapInit, CapVms
<1>2. capVcpu \in CapVcpus
  BY DEF CapInit, CapVcpus
<1>3. InForce(capVm) /\ ~capVcpu.evmcs /\ ~capVcpu.tlbflush
  BY DEF CapInit, InForce
<1>4. ReportedCanBeHad
  BY DEF CapInit, Quiet, ReportedCanBeHad
<1>5. QED
  BY <1>1, <1>2, <1>3, <1>4, InForceIs DEF CapInv

(* The bits asked for by an accepted call of one of the four capabilities with masks are in force. *)
Had(cap, arg, e) ==
  /\ cap = "X86_DISABLE_EXITS" /\ arg \subseteq {"hlt", "pause", "cstate"} \cup (capHost \cap {"mwait"}) =>
       e.r = "ok" /\ arg \subseteq e.vm.exits
  /\ cap = "X2APIC_API" /\ arg \subseteq X2ApicBits => e.r = "ok" /\ arg \subseteq e.vm.x2apic
  /\ cap = "EXIT_HYPERCALL" /\ arg \subseteq HypercallBits => e.r = "ok" /\ arg = e.vm.hypercall
  /\ cap = "X86_BUS_LOCK_EXIT" /\ arg \subseteq (IF "bus_lock" \in capHost THEN BusLockBits ELSE {})
       /\ ~(BusLockBits \subseteq arg) => e.r = "ok" /\ ("exit" \in arg => e.vm.bus_lock)

(* KVM_ENABLE_CAP of a machine keeps what is in force within what is reported, and grants what is reported. *)
LEMMA VmCapGranted ==
    ASSUME capVm \in CapVms, InForce(capVm), NEW cap \in VmCaps \cup {"OTHER"}, NEW arg \in Args(cap),
           NEW routed \in BOOLEAN
    PROVE  /\ Enabled(cap, arg, routed).vm \in CapVms /\ InForce(Enabled(cap, arg, routed).vm)
           /\ Had(cap, arg, Enabled(cap, arg, routed))
<1> DEFINE e == Enabled(cap, arg, routed)
<1> DEFINE Goal == e.vm \in CapVms /\ InForce(e.vm) /\ Had(cap, arg, e)
<1>0. cap \in {"DISABLE_QUIRKS", "X86_USER_SPACE_MSR", "SPLIT_IRQCHIP", "MSR_PLATFORM_INFO", "EXCEPTION_PAYLOAD",
               "VM_COPY_ENC_CONTEXT_FROM", "EXIT_ON_EMULATION_FAILURE", "OTHER"} => arg \subseteq {"odd"}
  BY DEF Args
<1>a. ASSUME NEW x PROVE Ok(x).vm = x /\ Ok(x).r = "ok"
  BY DEF Ok
<1>b. ASSUME NEW x PROVE Fails(x).vm = capVm /\ Fails(x).r = x
  BY DEF Fails
<1>c. ASSUME e = Fails("EINVAL") \/ e = Fails("EEXIST") \/ e = Fails("ENOMEM"),
             cap \notin {"X86_DISABLE_EXITS", "X2APIC_API", "EXIT_HYPERCALL", "X86_BUS_LOCK_EXIT"}
      PROVE  Goal
  BY <1>b, <1>c DEF Had
<1>1. CASE cap = "DISABLE_QUIRKS"
  <2>1. e = Ok([capVm EXCEPT !.quirks = arg])
    BY <1>1 DEF Enabled
  <2>2. [capVm EXCEPT !.quirks = arg] \in CapVms /\ InForce([capVm EXCEPT !.quirks = arg])
    BY <1>0, <1>1 DEF CapVms, InForce
  <2>3. QED
    BY <1>1, <1>a, <2>1, <2>2 DEF Had
<1>2. CASE cap = "SPLIT_IRQCHIP"
  <2>1. e = Split(arg, routed)
    BY <1>2 DEF Enabled
  <2>2. CASE e = Ok([capVm EXCEPT !.irqchip = TRUE])
    <3>1. [capVm EXCEPT !.irqchip = TRUE] \in CapVms /\ InForce([capVm EXCEPT !.irqchip = TRUE])
      BY DEF CapVms, InForce
    <3>2. QED
      BY <1>2, <1>a, <2>2, <3>1 DEF Had
  <2>3. QED
    BY <1>2, <1>c, <2>1, <2>2 DEF Split
<1>3. CASE cap = "X2APIC_API"
  <2> DEFINE n == [capVm EXCEPT !.x2apic = @ \cup arg]
  <2>1. e = CapX2Apic(arg)
    BY <1>3 DEF Enabled
  <2>2. CASE arg \subseteq X2ApicBits
    <3>1. e = Ok(n) /\ n \in CapVms /\ InForce(n) /\ arg \subseteq n.x2apic
      BY <2>1, <2>2 DEF CapX2Apic, CapVms, InForce
    <3>2. QED
      BY <1>3, <1>a, <3>1 DEF Had
  <2>3. CASE ~(arg \subseteq X2ApicBits)
    BY <1>3, <1>b, <2>1, <2>3 DEF CapX2Apic, Had
  <2>4. QED
    BY <2>2, <2>3
<1>4. CASE cap = "X86_DISABLE_EXITS"
  <2> DEFINE n == [capVm EXCEPT !.exits = @ \cup (arg \ ({"mwait"} \ capHost))]
  <2>1. e = DisableExits(arg)
    BY <1>4 DEF Enabled
  <2>2. CASE arg \subseteq ExitBits
    <3>1. e = Ok(n)
      BY <2>1, <2>2 DEF DisableExits
    <3>2. n \in CapVms /\ n.exits = capVm.exits \cup (arg \ ({"mwait"} \ capHost)) /\ n.bus_lock = capVm.bus_lock
      BY <2>2 DEF CapVms
    <3>3. InForce(n)
      BY <2>2, <3>2 DEF InForce, ExitBits
    <3>4. arg \subseteq {"hlt", "pause", "cstate"} \cup (capHost \cap {"mwait"}) => arg \subseteq n.exits
      BY <3>2
    <3> HIDE DEF n
    <3>5. QED
      BY <1>4, <1>a, <3>1, <3>2, <3>3, <3>4 DEF Had
  <2>3. CASE ~(arg \subseteq ExitBits)
    BY <1>4, <1>b, <2>1, <2>3 DEF DisableExits, Had, ExitBits
  <2>4. QED
    BY <2>2, <2>3
<1>5. CASE cap \in {"MSR_PLATFORM_INFO", "EXCEPTION_PAYLOAD", "EXIT_ON_EMULATION_FAILURE"}
  <2> DEFINE n == Flag(cap, arg # {})
  <2>1. e = Ok(n) \/ e = Fails("EINVAL")
    BY <1>5 DEF Enabled
  <2>2. n \in CapVms /\ InForce(n)
    <3>1. cap \in VmCaps
      BY <1>5 DEF VmCaps
    <3>2. QED
      BY <3>1 DEF Flag, CapVms, InForce
  <2> HIDE DEF n
  <2>3. QED
    BY <1>5, <1>a, <1>c, <2>1, <2>2 DEF Had
<1>6. CASE cap = "X86_USER_SPACE_MSR"
  <2>1. e = Ok([capVm EXCEPT !.user_msr = arg])
    BY <1>6 DEF Enabled
  <2>2. [capVm EXCEPT !.user_msr = arg] \in CapVms /\ InForce([capVm EXCEPT !.user_msr = arg])
    BY <1>0, <1>6 DEF CapVms, InForce
  <2>3. QED
    BY <1>6, <1>a, <2>1, <2>2 DEF Had
<1>7. CASE cap = "X86_BUS_LOCK_EXIT"
  <2> DEFINE on == "bus_lock" \in capHost /\ "exit" \in arg
             n == [capVm EXCEPT !.bus_lock = @ \/ on]
  <2>1. e = BusLock(arg)
    BY <1>7 DEF Enabled
  <2>2. CASE arg \subseteq BusLockBits /\ ~(BusLockBits \subseteq arg)
    <3>1. e = Ok(n)
      BY <2>1, <2>2 DEF BusLock
    <3>2. n \in CapVms /\ (n.bus_lock <=> capVm.bus_lock \/ on) /\ n.exits = capVm.exits
      BY DEF CapVms
    <3>3. InForce(n)
      BY <3>2 DEF InForce
    <3>4. arg \subseteq (IF "bus_lock" \in capHost THEN BusLockBits ELSE {}) => ("exit" \in arg => n.bus_lock)
      BY <3>2
    <3> HIDE DEF n
    <3>5. QED
      BY <1>7, <1>a, <3>1, <3>2, <3>3, <3>4 DEF Had
  <2>3. CASE ~(arg \subseteq BusLockBits /\ ~(BusLockBits \subseteq arg))
    <3>1. e = Fails("EINVAL")
      BY <2>1, <2>3 DEF BusLock
    <3>2. QED
      BY <1>7, <1>b, <2>3, <3>1 DEF Had
  <2>4. QED
    BY <2>2, <2>3
<1>8. CASE cap = "SGX_ATTRIBUTE"
  <2> DEFINE n == [capVm EXCEPT !.provision = TRUE]
  <2>1. e = Ok(n) \/ e = Fails("EINVAL")
    BY <1>8 DEF Enabled, Sgx
  <2>2. n \in CapVms /\ InForce(n)
    BY DEF CapVms, InForce
  <2> HIDE DEF n
  <2>3. QED
    BY <1>8, <1>a, <1>c, <2>1, <2>2 DEF Had
<1>9. CASE cap = "VM_COPY_ENC_CONTEXT_FROM"
  <2> DEFINE n == [capVm EXCEPT !.copied = TRUE]
  <2>1. e = Ok(n) \/ e = Fails("EINVAL")
    BY <1>9 DEF Enabled
  <2>2. n \in CapVms /\ InForce(n)
    BY DEF CapVms, InForce
  <2> HIDE DEF n
  <2>3. QED
    BY <1>9, <1>a, <1>c, <2>1, <2>2 DEF Had
<1>10. CASE cap = "EXIT_HYPERCALL"
  <2> DEFINE n == [capVm EXCEPT !.hypercall = arg]
  <2>1. e = Hypercall(arg)
    BY <1>10 DEF Enabled
  <2>2. CASE arg \subseteq HypercallBits
    <3>1. e = Ok(n) /\ n \in CapVms /\ InForce(n) /\ n.hypercall = arg
      BY <2>1, <2>2 DEF Hypercall, CapVms, InForce
    <3>2. QED
      BY <1>10, <1>a, <3>1 DEF Had
  <2>3. CASE ~(arg \subseteq HypercallBits)
    BY <1>10, <1>b, <2>1, <2>3 DEF Hypercall, Had
  <2>4. QED
    BY <2>2, <2>3
<1>11. CASE cap = "OTHER"
  <2>1. e = Fails("EINVAL")
    BY <1>11 DEF Enabled
  <2>2. QED
    BY <1>11, <1>c, <2>1
<1>12. QED
  BY <1>1, <1>2, <1>3, <1>4, <1>5, <1>6, <1>7, <1>8, <1>9, <1>10, <1>11 DEF VmCaps

(* KVM_ENABLE_CAP of a VCPU. *)
LEMMA VcpuCapGranted ==
    ASSUME capVcpu \in CapVcpus, capVcpu.evmcs => "evmcs" \in capHost, capVcpu.tlbflush => "tlbflush" \in capHost,
           NEW cap, NEW arg, NEW e \in VcpuEnabled(cap, arg)
    PROVE  /\ e.vcpu \in CapVcpus
           /\ e.vcpu.evmcs => "evmcs" \in capHost
           /\ e.vcpu.tlbflush => "tlbflush" \in capHost
<1>0. \A x : VcpuOk(x).vcpu = x /\ VcpuFails(x).vcpu = capVcpu
  BY DEF VcpuOk, VcpuFails
<1>a. ASSUME e.vcpu = capVcpu PROVE e.vcpu \in CapVcpus /\ (e.vcpu.evmcs => "evmcs" \in capHost)
                                    /\ (e.vcpu.tlbflush => "tlbflush" \in capHost)
  BY <1>a
<1>1. CASE cap \in {"HYPERV_SYNIC", "HYPERV_SYNIC2"}
  <2> DEFINE n == [capVcpu EXCEPT !.synic = IF cap = "HYPERV_SYNIC2" THEN "no_auto_eoi" ELSE "auto_eoi"]
  <2>1. e \in Synic(cap, arg)
    BY <1>1 DEF VcpuEnabled
  <2>2. e \in {VcpuFails("EINVAL"), VcpuFails("ENOMEM"), VcpuOk(n)}
    BY <2>1 DEF Synic
  <2>3. n \in CapVcpus /\ n.evmcs = capVcpu.evmcs /\ n.tlbflush = capVcpu.tlbflush
    BY DEF CapVcpus
  <2> HIDE DEF n
  <2>4. QED
    BY <1>0, <1>a, <2>2, <2>3
<1>2. CASE cap = "HYPERV_ENLIGHTENED_VMCS"
  <2> DEFINE n == [capVcpu EXCEPT !.evmcs = TRUE]
  <2>1. e \in EnlightenedVmcs
    BY <1>2 DEF VcpuEnabled
  <2>2. CASE "evmcs" \notin capHost
    BY <1>0, <1>a, <2>1, <2>2 DEF EnlightenedVmcs
  <2>3. CASE "evmcs" \in capHost
    <3>0. e = VcpuFails("EINVAL") \/ \E r \in {"ok", "EFAULT"} : e = [vcpu |-> n, r |-> r]
      BY <2>1, <2>3, Zenon DEF EnlightenedVmcs
    <3>2. n \in CapVcpus /\ n.tlbflush = capVcpu.tlbflush
      BY DEF CapVcpus
    <3> HIDE DEF n
    <3>1. e = VcpuFails("EINVAL") \/ e.vcpu = n
      BY <3>0
    <3>3. QED
      BY <1>0, <1>a, <2>3, <3>1, <3>2
  <2>4. QED
    BY <2>2, <2>3
<1>3. CASE cap = "HYPERV_DIRECT_TLBFLUSH"
  <2> DEFINE n == [capVcpu EXCEPT !.tlbflush = TRUE]
  <2>1. e \in DirectTlbflush
    BY <1>3 DEF VcpuEnabled
  <2>2. CASE "tlbflush" \notin capHost
    BY <1>0, <1>a, <2>1, <2>2 DEF DirectTlbflush
  <2>3. CASE "tlbflush" \in capHost
    <3>1. e = VcpuFails("ENOMEM") \/ e = VcpuOk(n)
      BY <2>1, <2>3 DEF DirectTlbflush
    <3>2. n \in CapVcpus /\ n.evmcs = capVcpu.evmcs
      BY DEF CapVcpus
    <3> HIDE DEF n
    <3>3. QED
      BY <1>0, <1>a, <2>3, <3>1, <3>2
  <2>4. QED
    BY <2>2, <2>3
<1>4. CASE cap \in {"ENFORCE_PV_FEATURE_CPUID", "HYPERV_ENFORCE_CPUID"}
  <2> DEFINE n == [capVcpu EXCEPT !.enforce = IF arg # {} THEN @ \cup {cap} ELSE @ \ {cap}]
  <2>1. e = VcpuFails("ENOMEM") \/ e = VcpuOk(n)
    BY <1>4 DEF VcpuEnabled, Enforce
  <2>2. n \in CapVcpus /\ n.evmcs = capVcpu.evmcs /\ n.tlbflush = capVcpu.tlbflush
    <3>1. cap \in VcpuCaps
      BY <1>4 DEF VcpuCaps
    <3>2. QED
      BY <3>1 DEF CapVcpus
  <2> HIDE DEF n
  <2>3. QED
    BY <1>0, <1>a, <2>1, <2>2
<1>5. CASE cap \notin {"HYPERV_SYNIC", "HYPERV_SYNIC2", "HYPERV_ENLIGHTENED_VMCS", "HYPERV_DIRECT_TLBFLUSH",
                       "ENFORCE_PV_FEATURE_CPUID", "HYPERV_ENFORCE_CPUID"}
  BY <1>0, <1>a, <1>5 DEF VcpuEnabled
<1>6. QED
  BY <1>1, <1>2, <1>3, <1>4, <1>5

LEMMA CapNextInv ==
    ASSUME CapInv, CapNext
    PROVE  CapInv'
<1>1. /\ capVm \in CapVms /\ capVcpu \in CapVcpus /\ InForce(capVm)
      /\ capVcpu.evmcs => "evmcs" \in capHost
      /\ capVcpu.tlbflush => "tlbflush" \in capHost
  BY InForceIs DEF CapInv
<1>2. CASE kvm_vm_ioctl_enable_cap
  <2>1. PICK cap \in VmCaps \cup {"OTHER"} : \E arg \in Args(cap), flags, routed \in BOOLEAN :
          LET e == IF flags THEN Fails("EINVAL") ELSE Enabled(cap, arg, routed) IN
          capVm' = e.vm /\ last' = [cap |-> IF flags THEN "flags" ELSE cap, arg |-> arg, r |-> e.r]
    BY <1>2 DEF kvm_vm_ioctl_enable_cap
  <2>2. PICK arg \in Args(cap), flags, routed \in BOOLEAN :
          LET e == IF flags THEN Fails("EINVAL") ELSE Enabled(cap, arg, routed) IN
          capVm' = e.vm /\ last' = [cap |-> IF flags THEN "flags" ELSE cap, arg |-> arg, r |-> e.r]
    BY <2>1
  <2>3. UNCHANGED capHost /\ capVcpu' = capVcpu
    BY <1>2 DEF kvm_vm_ioctl_enable_cap
  <2>4. CASE flags
    <3>1. capVm' = capVm /\ last'.cap = "flags"
      BY <2>2, <2>4 DEF Fails
    <3>2. ReportedCanBeHad'
      BY <3>1 DEF ReportedCanBeHad
    <3>3. QED
      BY <1>1, <2>3, <3>1, <3>2, CapStep DEF CapInv
  <2>5. CASE ~flags
    <3> DEFINE e == Enabled(cap, arg, routed)
    <3>1. e.vm \in CapVms /\ InForce(e.vm) /\ Had(cap, arg, e)
      BY <1>1, VmCapGranted
    <3>2. capVm' = e.vm /\ last'.cap = cap /\ last'.arg = arg /\ last'.r = e.r
      BY <2>2, <2>5
    <3>3. /\ kvm_vm_ioctl_check_extension("X86_DISABLE_EXITS")'
               = {"hlt", "pause", "cstate"} \cup (capHost \cap {"mwait"})
          /\ kvm_vm_ioctl_check_extension("X2APIC_API")' = X2ApicBits
          /\ kvm_vm_ioctl_check_extension("X86_BUS_LOCK_EXIT")' = IF "bus_lock" \in capHost THEN BusLockBits ELSE {}
          /\ kvm_vm_ioctl_check_extension("EXIT_HYPERCALL")' = HypercallBits
      BY <2>3 DEF kvm_vm_ioctl_check_extension
    <3> HIDE DEF e
    <3>4. ReportedCanBeHad'
      BY <3>1, <3>2, <3>3 DEF ReportedCanBeHad, Had
    <3>5. QED
      BY <1>1, <2>3, <3>1, <3>2, <3>4, CapStep DEF CapInv
  <2>6. QED
    BY <2>4, <2>5
<1>3. CASE kvm_vcpu_ioctl_enable_cap
  <2>1. PICK cap \in VcpuCaps \cup {"OTHER"}, arg \in SUBSET {"odd"}, flags \in BOOLEAN :
          \E e \in IF flags THEN {VcpuFails("EINVAL")} ELSE VcpuEnabled(cap, arg) :
            capVcpu' = e.vcpu /\ last' = [cap |-> IF flags THEN "flags" ELSE cap, arg |-> arg, r |-> e.r]
    BY <1>3 DEF kvm_vcpu_ioctl_enable_cap
  <2>2. PICK e \in IF flags THEN {VcpuFails("EINVAL")} ELSE VcpuEnabled(cap, arg) :
          capVcpu' = e.vcpu /\ last' = [cap |-> IF flags THEN "flags" ELSE cap, arg |-> arg, r |-> e.r]
    BY <2>1
  <2>3. UNCHANGED capHost /\ capVm' = capVm
    BY <1>3 DEF kvm_vcpu_ioctl_enable_cap
  <2>4. ReportedCanBeHad'
    BY <2>2 DEF ReportedCanBeHad, VcpuCaps
  <2>5. e.vcpu \in CapVcpus /\ (e.vcpu.evmcs => "evmcs" \in capHost) /\ (e.vcpu.tlbflush => "tlbflush" \in capHost)
    <3>1. CASE flags
      BY <1>1, <2>2, <3>1 DEF VcpuFails
    <3>2. CASE ~flags
      BY <1>1, <2>2, <3>2, VcpuCapGranted
    <3>3. QED
      BY <3>1, <3>2
  <2>6. QED
    BY <1>1, <2>2, <2>3, <2>4, <2>5, CapStep DEF CapInv
<1>4. CASE CapCreateVcpu
  <2>1. UNCHANGED capHost /\ capVm' = capVm /\ capVcpu' = capVcpu /\ last'.cap = "none"
    BY <1>4 DEF CapCreateVcpu, Quiet
  <2>2. ReportedCanBeHad'
    BY <2>1 DEF ReportedCanBeHad
  <2>3. QED
    BY <1>1, <2>1, <2>2, CapStep DEF CapInv
<1>5. QED
  BY <1>2, <1>3, <1>4 DEF CapNext

(* The steps of one call, as the action properties see them. *)
LEMMA RefusedKeeps ==
    ASSUME NEW cap, NEW arg, NEW routed
    PROVE  Enabled(cap, arg, routed).r # "ok" => Enabled(cap, arg, routed).vm = capVm
<1> DEFINE e == Enabled(cap, arg, routed)
<1>1. (\E x : e = Ok(x)) \/ (\E x : e = Fails(x))
  BY DEF Enabled, Split, CapX2Apic, DisableExits, BusLock, Sgx, Hypercall
<1>2. ASSUME NEW x PROVE Ok(x).r = "ok" /\ Fails(x).vm = capVm
  BY DEF Ok, Fails
<1> HIDE DEF e
<1>3. QED
  BY <1>1, <1>2 DEF e

LEMMA OnlySplitMakesApic ==
    ASSUME capVm \in CapVms, NEW cap, NEW arg, NEW routed, vcpus > 0
    PROVE  Enabled(cap, arg, routed).vm.irqchip = capVm.irqchip
<1> DEFINE e == Enabled(cap, arg, routed)
<1>1. ASSUME NEW x PROVE Ok(x).vm = x /\ Fails(x).vm = capVm
  BY DEF Ok, Fails
<1>2. CASE \E x : e = Fails(x)
  BY <1>1, <1>2
<1>3. CASE \E x : \/ e = Ok([capVm EXCEPT !.quirks = x]) \/ e = Ok([capVm EXCEPT !.x2apic = x])
                  \/ e = Ok([capVm EXCEPT !.exits = x]) \/ e = Ok([capVm EXCEPT !.flags = x])
                  \/ e = Ok([capVm EXCEPT !.user_msr = x]) \/ e = Ok([capVm EXCEPT !.bus_lock = x])
                  \/ e = Ok([capVm EXCEPT !.provision = x]) \/ e = Ok([capVm EXCEPT !.copied = x])
                  \/ e = Ok([capVm EXCEPT !.hypercall = x])
  <2>1. PICK x : \/ e = Ok([capVm EXCEPT !.quirks = x]) \/ e = Ok([capVm EXCEPT !.x2apic = x])
                 \/ e = Ok([capVm EXCEPT !.exits = x]) \/ e = Ok([capVm EXCEPT !.flags = x])
                 \/ e = Ok([capVm EXCEPT !.user_msr = x]) \/ e = Ok([capVm EXCEPT !.bus_lock = x])
                 \/ e = Ok([capVm EXCEPT !.provision = x]) \/ e = Ok([capVm EXCEPT !.copied = x])
                 \/ e = Ok([capVm EXCEPT !.hypercall = x])
    BY <1>3
  <2> HIDE DEF e
  <2>2. e.vm.irqchip = capVm.irqchip
    <3>1. CASE e = Ok([capVm EXCEPT !.quirks = x])
      BY <3>1 DEF Ok, CapVms
    <3>2. CASE e = Ok([capVm EXCEPT !.x2apic = x])
      BY <3>2 DEF Ok, CapVms
    <3>3. CASE e = Ok([capVm EXCEPT !.exits = x])
      BY <3>3 DEF Ok, CapVms
    <3>4. CASE e = Ok([capVm EXCEPT !.flags = x])
      BY <3>4 DEF Ok, CapVms
    <3>5. CASE e = Ok([capVm EXCEPT !.user_msr = x])
      BY <3>5 DEF Ok, CapVms
    <3>6. CASE e = Ok([capVm EXCEPT !.bus_lock = x])
      BY <3>6 DEF Ok, CapVms
    <3>7. CASE e = Ok([capVm EXCEPT !.provision = x])
      BY <3>7 DEF Ok, CapVms
    <3>8. CASE e = Ok([capVm EXCEPT !.copied = x])
      BY <3>8 DEF Ok, CapVms
    <3>9. CASE e = Ok([capVm EXCEPT !.hypercall = x])
      BY <3>9 DEF Ok, CapVms
    <3>10. QED
      BY <2>1, <3>1, <3>2, <3>3, <3>4, <3>5, <3>6, <3>7, <3>8, <3>9
  <2>3. QED
    BY <2>2 DEF e
<1>4. (\E x : e = Fails(x)) \/
      (\E x : \/ e = Ok([capVm EXCEPT !.quirks = x]) \/ e = Ok([capVm EXCEPT !.x2apic = x])
              \/ e = Ok([capVm EXCEPT !.exits = x]) \/ e = Ok([capVm EXCEPT !.flags = x])
              \/ e = Ok([capVm EXCEPT !.user_msr = x]) \/ e = Ok([capVm EXCEPT !.bus_lock = x])
              \/ e = Ok([capVm EXCEPT !.provision = x]) \/ e = Ok([capVm EXCEPT !.copied = x])
              \/ e = Ok([capVm EXCEPT !.hypercall = x]))
  BY DEF Enabled, Split, CapX2Apic, DisableExits, BusLock, Sgx, Hypercall, Flag
<1>5. QED
  BY <1>2, <1>3, <1>4

(* A call on a machine: what it does when it is refused, and to the APIC of a machine with VCPUs. *)
LEMMA VmCapStep ==
    ASSUME capVm \in CapVms, kvm_vm_ioctl_enable_cap
    PROVE  /\ last'.r # "ok" => capVm' = capVm
           /\ vcpus > 0 => capVm'.irqchip = capVm.irqchip
           /\ last'.cap \in VmCaps \cup {"OTHER", "flags"}
           /\ UNCHANGED <<vcpus, capVcpu>>
<1>1. PICK cap \in VmCaps \cup {"OTHER"} : \E arg \in Args(cap), flags, routed \in BOOLEAN :
        LET e == IF flags THEN Fails("EINVAL") ELSE Enabled(cap, arg, routed) IN
        capVm' = e.vm /\ last' = [cap |-> IF flags THEN "flags" ELSE cap, arg |-> arg, r |-> e.r]
  BY DEF kvm_vm_ioctl_enable_cap
<1>2. PICK arg \in Args(cap), flags, routed \in BOOLEAN :
        LET e == IF flags THEN Fails("EINVAL") ELSE Enabled(cap, arg, routed) IN
        capVm' = e.vm /\ last' = [cap |-> IF flags THEN "flags" ELSE cap, arg |-> arg, r |-> e.r]
  BY <1>1
<1>3. last'.cap \in VmCaps \cup {"OTHER", "flags"} /\ UNCHANGED <<vcpus, capVcpu>>
  BY <1>2 DEF kvm_vm_ioctl_enable_cap
<1>4. CASE flags
  BY <1>2, <1>3, <1>4 DEF Fails
<1>5. CASE ~flags
  <2>1. capVm' = Enabled(cap, arg, routed).vm /\ last'.r = Enabled(cap, arg, routed).r
    BY <1>2, <1>5
  <2>2. QED
    BY <1>3, <2>1, RefusedKeeps, OnlySplitMakesApic
<1>6. QED
  BY <1>4, <1>5

LEMMA VcpuCapStep ==
    ASSUME kvm_vcpu_ioctl_enable_cap
    PROVE  /\ last'.r \notin {"ok", "EFAULT"} => capVcpu' = capVcpu
           /\ vcpus > 0 /\ UNCHANGED <<vcpus, capVm>>
<1>1. PICK cap \in VcpuCaps \cup {"OTHER"}, arg \in SUBSET {"odd"}, flags \in BOOLEAN :
        \E e \in IF flags THEN {VcpuFails("EINVAL")} ELSE VcpuEnabled(cap, arg) :
          capVcpu' = e.vcpu /\ last' = [cap |-> IF flags THEN "flags" ELSE cap, arg |-> arg, r |-> e.r]
  BY DEF kvm_vcpu_ioctl_enable_cap
<1>2. PICK e \in IF flags THEN {VcpuFails("EINVAL")} ELSE VcpuEnabled(cap, arg) :
        capVcpu' = e.vcpu /\ last' = [cap |-> IF flags THEN "flags" ELSE cap, arg |-> arg, r |-> e.r]
  BY <1>1
<1>3. e.r \notin {"ok", "EFAULT"} => e.vcpu = capVcpu
  <2>1. \A x : VcpuOk(x).r = "ok" /\ VcpuFails(x).vcpu = capVcpu
    BY DEF VcpuOk, VcpuFails
  <2>2. CASE flags
    BY <1>2, <2>1, <2>2
  <2>3. CASE ~flags
    <3>1. e \in VcpuEnabled(cap, arg)
      BY <1>2, <2>3
    <3>2. \/ \E x : e = VcpuOk(x) \/ e = VcpuFails(x)
          \/ \E x \in {"ok", "EFAULT"} : e = [vcpu |-> [capVcpu EXCEPT !.evmcs = TRUE], r |-> x]
      BY <3>1 DEF VcpuEnabled, Synic, EnlightenedVmcs, DirectTlbflush, Enforce
    <3>3. QED
      BY <2>1, <3>2
  <2>4. QED
    BY <2>2, <2>3
<1>4. QED
  BY <1>2, <1>3 DEF kvm_vcpu_ioctl_enable_cap

LEMMA CallNeedsVcpuNext ==
    ASSUME CapInv, CallNeedsVcpu, CapNext
    PROVE  CallNeedsVcpu'
<1>1. CASE kvm_vm_ioctl_enable_cap
  BY <1>1, VmCapStep DEF CapInv, CallNeedsVcpu, VmCaps
<1>2. CASE kvm_vcpu_ioctl_enable_cap
  BY <1>2, VcpuCapStep DEF CallNeedsVcpu
<1>3. CASE CapCreateVcpu
  BY <1>3 DEF CapCreateVcpu, CallNeedsVcpu, Quiet
<1>4. QED
  BY <1>1, <1>2, <1>3 DEF CapNext

LEMMA CapActions ==
    ASSUME CapInv, CallNeedsVcpu, CapNext
    PROVE  /\ (last.cap \in {"HYPERV_SYNIC", "HYPERV_SYNIC2"} /\ last.r = "EINVAL" /\ last.arg = {})
                => capVm'.irqchip = capVm.irqchip
           /\ last'.r # "ok" => capVm' = capVm /\ (capVcpu' = capVcpu \/ last'.r = "EFAULT")
<1>1. CASE kvm_vm_ioctl_enable_cap
  BY <1>1, VmCapStep DEF CapInv, CallNeedsVcpu
<1>2. CASE kvm_vcpu_ioctl_enable_cap
  BY <1>2, VcpuCapStep
<1>3. CASE CapCreateVcpu
  BY <1>3 DEF CapCreateVcpu
<1>4. QED
  BY <1>1, <1>2, <1>3 DEF CapNext

-----------------------------------------------------------------------------
LEMMA IoctlInitInv == IoctlInit => IoctlInv
<1> SUFFICES ASSUME IoctlInit PROVE IoctlInv
  OBVIOUS
<1>1. Whole \in Halves /\ Whole[1] = Whole[2]
  BY DEF Whole, Halves
<1>2. /\ \A t \in IoctlThreads : ioctlPc[t] = "user"
      /\ \A t \in IoctlThreads : seen[t] = Whole
      /\ ioctlState = Whole /\ given = Whole /\ loaded = 0 /\ srcu = 0 /\ holder = IoctlNone /\ heap = {} /\ nested = {}
  BY DEF IoctlInit
<1>3. ~ioctlFreed
  BY Zenon DEF IoctlInit
<1>4. IoctlTypes
  <2>1. ioctlPc \in [IoctlThreads -> IoctlPlaces] /\ seen \in [IoctlThreads -> Halves]
    BY <1>1 DEF IoctlInit, IoctlPlaces
  <2>2. DOMAIN call = IoctlThreads /\ DOMAIN buf = IoctlThreads /\ DOMAIN ret = IoctlThreads
    BY DEF IoctlInit
  <2>3. QED
    BY <1>1, <1>2, <2>1, <2>2 DEF IoctlTypes
<1>5. OneInside /\ SrcuBalance /\ Buffers
  BY <1>2, <1>3, IoctlAssumption DEF OneInside, SrcuBalance, SrcuTaken, SrcuAt, Buffers
<1>6. WholeState /\ RunPendingInGuestMode
  BY <1>1, <1>2 DEF WholeState, RunPendingInGuestMode
<1>7. QED
  BY <1>4, <1>5, <1>6 DEF IoctlInv

(* The step of the thread that is inside: the others are in user space. *)
Alone(t) == holder = t /\ \A u \in IoctlThreads \ {t} : ioctlPc[u] = "user"
At1(t, p) == /\ ioctlPc' \in [IoctlThreads -> IoctlPlaces] /\ ioctlPc'[t] = p
             /\ \A u \in IoctlThreads \ {t} : ioctlPc'[u] = ioctlPc[u]

LEMMA AloneInside ==
    ASSUME IoctlInv, NEW t \in IoctlThreads, ioctlPc[t] # "user"
    PROVE  Alone(t) /\ loaded = 1
  BY IoctlAssumption DEF IoctlInv, IoctlTypes, OneInside, Alone

LEMMA GotoIs ==
    ASSUME IoctlInv, NEW t \in IoctlThreads, NEW p \in IoctlPlaces, IoctlGoto(t, p)
    PROVE  At1(t, p)
  BY DEF IoctlInv, IoctlTypes, IoctlGoto, At1

LEMMA IoctlNextInv ==
    ASSUME IoctlInv, IoctlNext
    PROVE  IoctlInv'
<1> PICK t \in IoctlThreads :
      \/ Enter(t) \/ LockCall(t) \/ FreeEntries(t) \/ NoApic(t) \/ CopyIn(t) \/ IoctlOp(t) \/ Op2(t) \/ GetNested(t) \/ SetNested(t)
      \/ IoctlUnlock(t) \/ CopyOut(t) \/ Out(t) \/ OutNofree(t)
  BY DEF IoctlNext
<1>0. /\ IoctlTypes /\ OneInside /\ SrcuBalance /\ Buffers /\ WholeState /\ RunPendingInGuestMode
      /\ t # IoctlNone
  BY IoctlAssumption DEF IoctlInv
<1>1. CASE Enter(t)
  <2>1. /\ ioctlPc[t] = "user" /\ holder = IoctlNone /\ holder' = t /\ loaded' = loaded + 1
        /\ buf' = [buf EXCEPT ![t] = "null"]
        /\ UNCHANGED <<ioctlState, nested, srcu, heap, ioctlFreed, seen, given>>
    BY <1>1 DEF Enter
  <2>a. PICK c \in DOMAIN Calls : /\ call' = [call EXCEPT ![t] = c]
                                 /\ IoctlGoto(t, IF Calls[c].srcu = "call" THEN "lock" ELSE "in")
    BY <1>1 DEF Enter
  <2>b. PICK p \in {"lock", "in"} : At1(t, p) /\ (p = "lock" <=> Calls[c].srcu = "call")
    BY <2>a, GotoIs DEF IoctlPlaces
  <2>c. Sh(t)' = Calls[c]
    BY <1>0, <2>a DEF Sh, IoctlTypes
  <2>2. DOMAIN call' = IoctlThreads /\ DOMAIN ret' = IoctlThreads /\ \A u \in IoctlThreads \ {t} : call'[u] = call[u]
    BY <1>0, <1>1, <2>a DEF Enter, IoctlReturn, IoctlTypes
  <2>d. DOMAIN buf' = IoctlThreads /\ loaded' \in Nat
    BY <1>0, <2>1 DEF IoctlTypes
  <2>3. IoctlTypes'
    BY <1>0, <2>1, <2>2, <2>b, <2>d DEF IoctlTypes, At1
  <2>4. OneInside'
    <3>1. /\ holder' = t /\ loaded' = 1 /\ ioctlPc'[t] # "user"
          /\ \A u \in IoctlThreads \ {t} : ioctlPc'[u] = "user"
      BY <1>0, <2>1, <2>b, IoctlAssumption DEF OneInside, At1
    <3>2. QED
      BY <1>0, <3>1 DEF OneInside
  <2>5. \A u \in IoctlThreads : ioctlPc[u] = "user"
    BY <1>0, <2>1, IoctlAssumption DEF OneInside
  <2>6. SrcuBalance'
    <3>1. \A u \in IoctlThreads : ~SrcuTaken(u) /\ ~SrcuTaken(u)'
      BY <2>5, <2>b, <2>c DEF SrcuTaken, SrcuAt, At1
    <3>2. \A u \in IoctlThreads : ioctlPc'[u] \in {"lock", "kfree"} => Sh(u)'.srcu = "call"
      BY <2>5, <2>b, <2>c DEF At1
    <3>3. QED
      BY <1>0, <2>1, <3>1, <3>2 DEF SrcuBalance
  <2>7. Buffers'
    BY <1>0, <2>1, <2>5, <2>b DEF Buffers, At1, IoctlTypes
  <2>8. WholeState' /\ RunPendingInGuestMode'
    BY <1>0, <2>1, <2>5, <2>b DEF WholeState, RunPendingInGuestMode, At1
  <2>9. QED
    BY <2>3, <2>4, <2>6, <2>7, <2>8 DEF IoctlInv
<1>2. \* a thread inside goes on to p without touching the state
      ASSUME NEW p \in IoctlPlaces, p # "user", ioctlPc[t] # "user", IoctlGoto(t, p), DOMAIN ret' = IoctlThreads,
             UNCHANGED <<ioctlState, nested, holder, loaded, ioctlFreed, call, seen, given>>,
             ioctlPc[t] # "op2", p # "op2",
             srcu' = IF SrcuAt(t, p) THEN 1 ELSE 0, p \in {"lock", "kfree"} => Sh(t).srcu = "call",
             DOMAIN buf' = IoctlThreads, p # "nofree" => buf'[t] # "error",
             \A u \in IoctlThreads \ {t} : buf'[u] = buf[u],
             heap' \subseteq heap \cup {t}, t \in heap' => p \in {"op", "op2", "unlock", "copyout", "kfree", "out"}
      PROVE  IoctlInv'
  <2>1. Alone(t) /\ At1(t, p)
    BY <1>2, AloneInside, GotoIs
  <2>2. IoctlTypes'
    BY <1>0, <1>2, <2>1 DEF IoctlTypes, At1
  <2>3. OneInside'
    BY <1>0, <1>2, <2>1 DEF OneInside, At1, Alone
  <2>4. SrcuBalance'
    BY <1>0, <1>2, <2>1 DEF SrcuBalance, SrcuTaken, SrcuAt, Sh, At1, Alone
  <2>5. Buffers'
    BY <1>0, <1>2, <2>1 DEF Buffers, At1, Alone, IoctlTypes
  <2>6. WholeState' /\ RunPendingInGuestMode'
    BY <1>0, <1>2, <2>1 DEF WholeState, RunPendingInGuestMode, Sh, At1, Alone
  <2>7. QED
    BY <2>2, <2>3, <2>4, <2>5, <2>6 DEF IoctlInv
<1>3. ASSUME ioctlPc[t] # "user" PROVE srcu = IF SrcuAt(t, ioctlPc[t]) THEN 1 ELSE 0
  <2>1. \A u \in IoctlThreads \ {t} : ~SrcuTaken(u)
    BY <1>3, AloneInside DEF SrcuTaken, SrcuAt, Alone
  <2>2. QED
    BY <1>0, <2>1 DEF SrcuBalance, SrcuTaken
<1>4. ASSUME NEW p \in {"in", "op"}, ioctlPc[t] = p
      PROVE  /\ srcu = IF SrcuAt(t, Bail(t)) THEN 1 ELSE 0
             /\ srcu = IF SrcuAt(t, "op") THEN 1 ELSE 0
             /\ Bail(t) \in {"out", "unlock"}
  BY <1>3, <1>4 DEF SrcuAt, Bail
<1>a. CASE LockCall(t)
  <2>1. ioctlPc[t] = "lock" /\ Sh(t).srcu = "call"
    BY <1>0, <1>a DEF LockCall, SrcuBalance
  <2>2. srcu = 0 /\ srcu' = 1 /\ SrcuAt(t, "in")
    BY <1>3, <1>a, <2>1 DEF LockCall, SrcuAt
  <2>3. QED
    BY <1>0, <1>2, <1>a, <2>1, <2>2 DEF LockCall, IoctlTypes, IoctlPlaces, Buffers
<1>b. CASE FreeEntries(t)
  <2>1. ioctlPc[t] = "kfree" /\ Sh(t).srcu = "call"
    BY <1>0, <1>b DEF FreeEntries, SrcuBalance
  <2>2. srcu = 1 /\ srcu' = 1 /\ SrcuAt(t, "unlock")
    BY <1>3, <1>b, <2>1 DEF FreeEntries, SrcuAt
  <2>3. DOMAIN buf' = IoctlThreads /\ buf'[t] = "null" /\ \A u \in IoctlThreads \ {t} : buf'[u] = buf[u]
    BY <1>0, <1>b DEF FreeEntries, IoctlTypes
  <2>4. QED
    BY <1>0, <1>2, <1>b, <2>1, <2>2, <2>3 DEF FreeEntries, IoctlTypes, IoctlPlaces
<1>5. CASE NoApic(t)
  BY <1>0, <1>2, <1>4, <1>5 DEF NoApic, IoctlReturn, IoctlTypes, IoctlPlaces, Buffers
<1>6. CASE CopyIn(t)
  <2>1. /\ ioctlPc[t] = "in" /\ UNCHANGED <<ioctlState, nested, holder, loaded, srcu, ioctlFreed, call, seen, given>>
    BY <1>6 DEF CopyIn
  <2>2. /\ t \notin heap /\ buf[t] # "error" /\ Bail(t) \in {"out", "unlock"}
        /\ srcu = IF SrcuAt(t, "op") THEN 1 ELSE 0
        /\ srcu = IF SrcuAt(t, Bail(t)) THEN 1 ELSE 0
    BY <1>0, <1>4, <2>1 DEF Buffers, IoctlPlaces
  <2>3. CASE IoctlGoto(t, "op") /\ UNCHANGED <<heap, buf, ret>>
    BY <1>0, <1>2, <2>1, <2>2, <2>3 DEF IoctlTypes, IoctlPlaces
  <2>4. CASE IoctlGoto(t, "op") /\ heap' = heap \cup {t} /\ buf' = [buf EXCEPT ![t] = "allocated"] /\ UNCHANGED ret
    BY <1>0, <1>2, <2>1, <2>2, <2>4 DEF IoctlTypes, IoctlPlaces
  <2>5. ASSUME NEW r, IoctlReturn(t, r), IoctlGoto(t, Bail(t)), UNCHANGED <<heap, buf>> PROVE IoctlInv'
    BY <1>0, <1>2, <2>1, <2>2, <2>5 DEF IoctlTypes, IoctlPlaces, IoctlReturn
  <2>6. CASE IoctlReturn(t, "EFAULT") /\ buf' = [buf EXCEPT ![t] = MemdupFails(t)[1]]
             /\ IoctlGoto(t, MemdupFails(t)[2]) /\ UNCHANGED heap
    <3>1. MemdupFails(t) = <<"null", Bail(t)>> \/ (MemdupFails(t) = <<"error", "nofree">> /\ Sh(t).srcu # "call")
      BY DEF MemdupFails, Bail
    <3>2. CASE buf' = [buf EXCEPT ![t] = "null"] /\ IoctlGoto(t, Bail(t))
      BY <1>0, <1>2, <2>1, <2>2, <2>6, <3>2 DEF IoctlTypes, IoctlPlaces, IoctlReturn
    <3>3. CASE buf' = [buf EXCEPT ![t] = "error"] /\ IoctlGoto(t, "nofree") /\ Sh(t).srcu # "call"
      BY <1>0, <1>2, <2>1, <2>2, <2>6, <3>3 DEF IoctlTypes, IoctlPlaces, IoctlReturn, SrcuAt
    <3>4. CASE MemdupFails(t) = <<"null", Bail(t)>>
      <4>1. MemdupFails(t)[1] = "null" /\ MemdupFails(t)[2] = Bail(t)
        BY <3>4
      <4>2. QED
        BY <2>6, <3>2, <4>1
    <3>5. CASE MemdupFails(t) = <<"error", "nofree">> /\ Sh(t).srcu # "call"
      <4>1. MemdupFails(t)[1] = "error" /\ MemdupFails(t)[2] = "nofree"
        BY <3>5
      <4>2. QED
        BY <2>6, <3>3, <3>5, <4>1
    <3>6. QED
      BY <3>1, <3>4, <3>5
  <2>7. QED
    BY <1>6, <2>3, <2>4, <2>5, <2>6 DEF CopyIn
<1>7. CASE IoctlOp(t)
  <2>1. /\ ioctlPc[t] = "op" /\ Lock(t)
        /\ UNCHANGED <<nested, holder, loaded, heap, ioctlFreed, call, buf, given>>
    BY <1>7 DEF IoctlOp
  <2>2. srcu' = IF Sh(t).srcu \in {"op", "call"} THEN 1 ELSE 0
    BY <1>3, <2>1 DEF Lock, SrcuAt
  <2>a. /\ Done(t, "EINVAL") \in {"unlock", "kfree"} /\ (Done(t, "EINVAL") = "kfree" => Sh(t).srcu = "call")
        /\ srcu' = IF SrcuAt(t, Done(t, "EINVAL")) THEN 1 ELSE 0
    BY <2>2 DEF Done, SrcuAt
  <2>3. CASE IoctlReturn(t, "EINVAL") /\ IoctlGoto(t, Done(t, "EINVAL")) /\ UNCHANGED <<ioctlState, seen>>
    BY <1>0, <1>2, <2>1, <2>a, <2>3 DEF IoctlTypes, IoctlPlaces, IoctlReturn, Buffers
  <2>4. ASSUME IoctlGoto(t, "op2"), UNCHANGED ret,
               \/ /\ Sh(t).sets /\ ioctlState' = [ioctlState EXCEPT ![1] = (@ + 1) % 3] /\ UNCHANGED seen
               \/ /\ ~Sh(t).sets /\ seen' = [seen EXCEPT ![t][1] = ioctlState[1]] /\ UNCHANGED ioctlState
        PROVE  IoctlInv'
    <3>1. Alone(t) /\ At1(t, "op2")
      BY <2>1, <2>4, AloneInside, GotoIs DEF IoctlPlaces
    <3>2. /\ ioctlState \in Halves /\ ioctlState[1] \in 0 .. 2 /\ ioctlState[2] \in 0 .. 2
          /\ seen \in [IoctlThreads -> Halves] /\ ioctlState[1] = ioctlState[2]
      BY <1>0, <2>1, <3>1 DEF IoctlTypes, Halves, WholeState, Alone
    <3>3. ioctlState' \in Halves /\ seen' \in [IoctlThreads -> Halves]
      BY <2>4, <3>2 DEF Halves
    <3>4. IoctlTypes'
      BY <1>0, <2>1, <2>2, <2>4, <3>1, <3>3 DEF IoctlTypes, At1
    <3>5. OneInside' /\ Buffers'
      <4>1. OneInside'
        BY <1>0, <2>1, <3>1 DEF OneInside, At1, Alone
      <4>2. Buffers'
        BY <1>0, <2>1, <3>1 DEF Buffers, At1, Alone, IoctlTypes, IoctlPlaces
      <4>3. QED
        BY <4>1, <4>2
    <3>6. SrcuBalance'
      BY <1>0, <2>1, <2>2, <3>1 DEF SrcuBalance, SrcuTaken, SrcuAt, Sh, At1, Alone
    <3>7. WholeState'
      <4>1. CASE Sh(t).sets
        <5>1. ioctlState'[1] = (ioctlState'[2] + 1) % 3 /\ seen' = seen
          BY <2>4, <3>2, <4>1 DEF Halves
        <5>2. QED
          BY <1>0, <2>1, <3>1, <4>1, <5>1 DEF WholeState, Sh, At1, Alone
      <4>2. CASE ~Sh(t).sets
        <5>1. /\ ioctlState' = ioctlState /\ seen'[t][1] = ioctlState[1]
              /\ \A u \in IoctlThreads \ {t} : seen'[u] = seen[u]
          BY <2>4, <3>2, <4>2 DEF Halves
        <5>2. QED
          BY <1>0, <2>1, <3>1, <3>2, <4>2, <5>1 DEF WholeState, Sh, At1, Alone
      <4>3. QED
        BY <4>1, <4>2
    <3>8. QED
      BY <1>0, <2>1, <3>4, <3>5, <3>6, <3>7 DEF IoctlInv, RunPendingInGuestMode
  <2>5. QED
    BY <1>7, <2>3, <2>4 DEF IoctlOp
<1>8. CASE Op2(t)
  <2>1. /\ ioctlPc[t] = "op2" /\ IoctlReturn(t, "ok") /\ IoctlGoto(t, Done(t, "ok"))
        /\ UNCHANGED <<nested, holder, loaded, srcu, heap, ioctlFreed, call, buf, given>>
    BY <1>8 DEF Op2
  <2>a. PICK p \in {"unlock", "kfree", "copyout"} : /\ p = Done(t, "ok")
                                                    /\ (p = "unlock" <=> Sh(t).srcu # "call")
    BY DEF Done
  <2>b. IoctlGoto(t, p) /\ p \in IoctlPlaces
    BY <2>1, <2>a DEF IoctlPlaces, IoctlGoto
  <2>2. Alone(t) /\ At1(t, p) /\ DOMAIN ret' = IoctlThreads
    <3>1. Alone(t)
      BY <2>1, AloneInside
    <3>2. At1(t, p)
      BY <2>b, GotoIs
    <3>3. QED
      BY <1>0, <2>1, <3>1, <3>2 DEF IoctlReturn, IoctlTypes
  <2>3. /\ ioctlState \in Halves /\ ioctlState[1] \in 0 .. 2 /\ ioctlState[2] \in 0 .. 2
        /\ seen \in [IoctlThreads -> Halves]
    BY <1>0 DEF IoctlTypes, Halves
  <2>4. /\ ioctlState' \in Halves /\ seen' \in [IoctlThreads -> Halves]
        /\ ioctlState'[1] = ioctlState'[2] /\ seen'[t][1] = seen'[t][2]
        /\ \A u \in IoctlThreads \ {t} : seen'[u] = seen[u]
    <3>1. CASE Sh(t).sets
      <4>1. ioctlState[1] = (ioctlState[2] + 1) % 3
        BY <1>0, <2>1, <3>1 DEF WholeState
      <4>2. ioctlState' \in Halves /\ ioctlState'[1] = ioctlState'[2] /\ seen' = [seen EXCEPT ![t] = ioctlState']
        BY <1>8, <2>3, <3>1, <4>1 DEF Op2, Halves
      <4>3. QED
        BY <2>3, <4>2
    <3>2. CASE ~Sh(t).sets
      <4>1. ioctlState[1] = ioctlState[2] /\ seen[t][1] = ioctlState[1]
        BY <1>0, <2>1, <2>2, <3>2 DEF WholeState, Alone
      <4>2. ioctlState' = ioctlState /\ seen' = [seen EXCEPT ![t][2] = ioctlState[2]]
        BY <1>8, <3>2 DEF Op2
      <4>3. QED
        BY <2>3, <4>1, <4>2 DEF Halves
    <3>3. QED
      BY <3>1, <3>2
  <2>5. IoctlTypes'
    BY <1>0, <2>1, <2>2, <2>4 DEF IoctlTypes, At1
  <2>6. OneInside' /\ Buffers'
    <3>1. OneInside'
      BY <1>0, <2>1, <2>2, <2>a DEF OneInside, At1, Alone
    <3>2. Buffers'
      BY <1>0, <2>1, <2>2, <2>a DEF Buffers, At1, Alone, IoctlTypes, IoctlPlaces
    <3>3. QED
      BY <3>1, <3>2
  <2>7. SrcuBalance'
    BY <1>0, <1>3, <2>1, <2>2, <2>a DEF SrcuBalance, SrcuTaken, SrcuAt, Sh, At1, Alone
  <2>8. WholeState'
    BY <1>0, <2>1, <2>2, <2>4, <2>a DEF WholeState, Sh, At1, Alone
  <2>9. QED
    BY <1>0, <2>1, <2>5, <2>6, <2>7, <2>8 DEF IoctlInv, RunPendingInGuestMode
<1>9. CASE GetNested(t)
  <2>1. /\ ioctlPc[t] = "op" /\ IoctlGoto(t, Bail(t)) /\ DOMAIN ret' = IoctlThreads
        /\ UNCHANGED <<ioctlState, nested, holder, loaded, srcu, heap, ioctlFreed, call, buf, seen, given>>
    BY <1>0, <1>9 DEF GetNested, IoctlReturn, IoctlTypes
  <2>2. QED
    BY <1>0, <1>2, <1>4, <2>1 DEF IoctlTypes, IoctlPlaces, Buffers
<1>10. CASE SetNested(t)
  <2>1. /\ ioctlPc[t] = "op"
        /\ UNCHANGED <<ioctlState, holder, loaded, heap, ioctlFreed, call, buf, seen, given>>
    BY <1>10 DEF SetNested
  <2>2. PICK flags \in SUBSET (NestedFlags \cup {"odd"}), size \in 0 .. MaxSize :
          IF Legal(flags, size)
          THEN /\ Lock(t) /\ IoctlGoto(t, "unlock")
               /\ \/ nested' = flags /\ nsize' = size /\ IoctlReturn(t, "ok")
                  \/ IoctlReturn(t, "EINVAL") /\ UNCHANGED <<nested, nsize>>
          ELSE IoctlReturn(t, "EINVAL") /\ IoctlGoto(t, Bail(t)) /\ UNCHANGED <<nested, nsize, srcu>>
    BY <1>10 DEF SetNested
  <2>3. DOMAIN ret' = IoctlThreads /\ t # IoctlNone
    BY <1>0, <2>1, <2>2 DEF IoctlReturn, IoctlTypes
  <2>4. RunPendingInGuestMode'
    BY <1>0, <2>2 DEF RunPendingInGuestMode, Legal
  <2>a. srcu = IF Sh(t).srcu = "call" THEN 1 ELSE 0
    BY <1>3, <2>1 DEF SrcuAt
  <2>5. PICK p \in {"unlock", "out"} : IoctlGoto(t, p) /\ srcu' = IF SrcuAt(t, p) THEN 1 ELSE 0
    <3>1. CASE Legal(flags, size)
      BY <2>2, <2>a, <3>1 DEF Lock, SrcuAt
    <3>2. CASE ~Legal(flags, size)
      BY <2>2, <2>a, <3>2 DEF Bail, SrcuAt
    <3>3. QED
      BY <3>1, <3>2
  <2>6. Alone(t) /\ At1(t, p)
    BY <2>1, <2>5, AloneInside, GotoIs DEF IoctlPlaces
  <2>7. IoctlTypes'
    BY <1>0, <2>1, <2>3, <2>5, <2>6 DEF IoctlTypes, At1
  <2>8. OneInside' /\ Buffers'
    <3>1. OneInside'
      BY <1>0, <2>1, <2>6 DEF OneInside, At1, Alone
    <3>2. Buffers'
      BY <1>0, <2>1, <2>6 DEF Buffers, At1, Alone, IoctlTypes, IoctlPlaces
    <3>3. QED
      BY <3>1, <3>2
  <2>9. SrcuBalance'
    BY <1>0, <2>1, <2>5, <2>6 DEF SrcuBalance, SrcuTaken, SrcuAt, Sh, At1, Alone
  <2>10. WholeState'
    BY <1>0, <2>1, <2>6 DEF WholeState, Sh, At1, Alone
  <2>11. QED
    BY <2>4, <2>7, <2>8, <2>9, <2>10 DEF IoctlInv
<1>11. CASE IoctlUnlock(t)
  <2>1. /\ ioctlPc[t] = "unlock" /\ srcu' = 0
        /\ UNCHANGED <<ioctlState, nested, holder, loaded, heap, ioctlFreed, call, buf, seen, ret, given>>
    BY <1>3, <1>11 DEF IoctlUnlock, SrcuAt
  <2>2. PICK p \in {"copyout", "out"} : IoctlGoto(t, p) /\ ~SrcuAt(t, p)
    BY <1>11 DEF IoctlUnlock, SrcuAt
  <2>3. QED
    BY <1>0, <1>2, <2>1, <2>2 DEF IoctlTypes, IoctlPlaces, Buffers
<1>12. CASE CopyOut(t)
  <2>1. /\ ioctlPc[t] = "copyout" /\ DOMAIN ret' = IoctlThreads
        /\ UNCHANGED <<ioctlState, nested, holder, loaded, srcu, heap, ioctlFreed, call, buf, seen>>
        /\ given' = seen[t] \/ given' = given
    BY <1>0, <1>12 DEF CopyOut, IoctlReturn, IoctlTypes
  <2>a. PICK p \in {"out", "kfree"} : IoctlGoto(t, p) /\ (p = "kfree" <=> Sh(t).srcu = "call")
    BY <1>12 DEF CopyOut
  <2>2. Alone(t) /\ At1(t, p)
    BY <2>1, <2>a, AloneInside, GotoIs DEF IoctlPlaces
  <2>3. given' \in Halves /\ given'[1] = given'[2]
    BY <1>0, <2>1 DEF IoctlTypes, WholeState
  <2>4. IoctlTypes'
    BY <1>0, <2>1, <2>2, <2>3, <2>a DEF IoctlTypes, At1
  <2>5. OneInside' /\ Buffers' /\ SrcuBalance'
    <3>1. OneInside'
      BY <1>0, <1>3, <2>1, <2>2, <2>a DEF OneInside, At1, Alone
    <3>2. Buffers'
      BY <1>0, <1>3, <2>1, <2>2, <2>a DEF Buffers, At1, Alone, IoctlTypes, IoctlPlaces
    <3>3. SrcuBalance'
      BY <1>0, <1>3, <2>1, <2>2, <2>a DEF SrcuBalance, SrcuTaken, SrcuAt, Sh, At1, Alone
    <3>4. QED
      BY <3>1, <3>2, <3>3
  <2>6. WholeState'
    BY <1>0, <2>1, <2>2, <2>3, <2>a DEF WholeState, Sh, At1, Alone
  <2>7. QED
    BY <1>0, <2>1, <2>4, <2>5, <2>6 DEF IoctlInv, RunPendingInGuestMode
<1>13. CASE Out(t)
  <2>1. /\ ioctlPc[t] = "out" /\ IoctlGoto(t, "nofree") /\ heap' = heap \ {t} /\ ~ioctlFreed'
        /\ UNCHANGED <<ioctlState, nested, holder, loaded, srcu, call, buf, seen, ret, given>>
    BY <1>0, <1>13 DEF Out, Buffers, IoctlPlaces
  <2>2. Alone(t) /\ At1(t, "nofree")
    BY <2>1, AloneInside, GotoIs DEF IoctlPlaces
  <2>3. IoctlTypes'
    BY <1>0, <2>1, <2>2 DEF IoctlTypes, At1
  <2>4. OneInside' /\ Buffers' /\ SrcuBalance'
    <3>1. OneInside'
      BY <1>0, <2>1, <2>2 DEF OneInside, At1, Alone
    <3>2. Buffers'
      BY <1>0, <2>1, <2>2 DEF Buffers, At1, Alone, IoctlTypes, IoctlPlaces
    <3>3. SrcuBalance'
      BY <1>0, <2>1, <2>2 DEF SrcuBalance, SrcuTaken, SrcuAt, Sh, At1, Alone
    <3>4. QED
      BY <3>1, <3>2, <3>3
  <2>5. WholeState'
    BY <1>0, <2>1, <2>2 DEF WholeState, Sh, At1, Alone
  <2>6. QED
    BY <1>0, <2>1, <2>3, <2>4, <2>5 DEF IoctlInv, RunPendingInGuestMode
<1>14. CASE OutNofree(t)
  <2>1. /\ ioctlPc[t] = "nofree" /\ IoctlGoto(t, "user") /\ loaded' = loaded - 1 /\ holder' = IoctlNone
        /\ UNCHANGED <<ioctlState, nested, srcu, heap, ioctlFreed, call, buf, seen, ret, given>>
    BY <1>14 DEF OutNofree
  <2>2. Alone(t) /\ At1(t, "user") /\ loaded = 1
    BY <2>1, AloneInside, GotoIs DEF IoctlPlaces
  <2>3. IoctlTypes'
    BY <1>0, <2>1, <2>2 DEF IoctlTypes, At1
  <2>4. OneInside'
    BY <1>0, <2>1, <2>2, IoctlAssumption DEF OneInside, At1, Alone
  <2>5. Buffers' /\ SrcuBalance'
    <3>1. Buffers'
      BY <1>0, <2>1, <2>2 DEF Buffers, At1, Alone, IoctlTypes, IoctlPlaces
    <3>2. SrcuBalance'
      BY <1>0, <2>1, <2>2 DEF SrcuBalance, SrcuTaken, SrcuAt, Sh, At1, Alone
    <3>3. QED
      BY <3>1, <3>2
  <2>6. WholeState'
    BY <1>0, <2>1, <2>2 DEF WholeState, Sh, At1, Alone
  <2>7. QED
    BY <1>0, <2>1, <2>3, <2>4, <2>5, <2>6 DEF IoctlInv, RunPendingInGuestMode
<1>15. QED
  BY <1>1, <1>a, <1>b, <1>5, <1>6, <1>7, <1>8, <1>9, <1>10, <1>11, <1>12, <1>13, <1>14

LEMMA IoctlInvImplies == IoctlInv => OnlyBuffersFreed /\ NothingHeld /\ ReadsAreWhole /\ RunPendingInGuestMode
<1> SUFFICES ASSUME IoctlInv PROVE OnlyBuffersFreed /\ NothingHeld /\ ReadsAreWhole
  BY DEF IoctlInv
<1>1. ASSUME \A t \in IoctlThreads : ioctlPc[t] = "user"
      PROVE  heap = {} /\ loaded = 0 /\ srcu = 0 /\ holder = IoctlNone
  BY <1>1 DEF IoctlInv, IoctlTypes, OneInside, Buffers, SrcuBalance, SrcuTaken, SrcuAt
<1>2. QED
  BY <1>1 DEF OnlyBuffersFreed, NothingHeld, ReadsAreWhole, IoctlInv, Buffers, WholeState
-----------------------------------------------------------------------------
(***************************************************************************)
(* Assigned devices, for any number of producers, VCPUs and interrupts:    *)
(* the count is exact, and from the end of the first assignment on every   *)
(* VCPU that is blocked is on the wakeup list.                             *)
(***************************************************************************)
Attached == {p \in Producers : at[p] # "off"}

ATypeOK ==
  /\ assigned_device_count \in Nat
  /\ at \in [Producers -> {"off", "start", "irte", "end", "on"}]
  /\ posted \subseteq {p \in Producers : at[p] = "on"}
  /\ running \subseteq Vcpus
  /\ listed \subseteq Vcpus

(* No producer is between the count and the wake-up of the VCPUs. *)
Started == \A p \in Producers : at[p] # "start"
AllReachable == Started /\ Attached # {} => Vcpus \subseteq running \cup listed

AInv == ATypeOK /\ CountIsExact /\ AllReachable

LEMMA AttachedFacts ==
    /\ IsFiniteSet(Attached) /\ Cardinality(Attached) \in Nat
    /\ Cardinality(Attached) = 0 <=> Attached = {}
<1>1. IsFiniteSet(Attached)
  BY AssignAssumption, FS_Subset DEF Attached
<1>2. QED
  BY <1>1, FS_CardinalityType, FS_EmptySet

LEMMA InitAInv == Init => AInv
<1> SUFFICES ASSUME Init PROVE AInv
  OBVIOUS
<1>1. Attached = {}
  BY DEF Init, Attached
<1>2. CountIsExact
  BY <1>1, FS_EmptySet DEF Init, CountIsExact, Attached
<1>3. QED
  BY <1>1, <1>2 DEF Init, AInv, ATypeOK, AllReachable

(* A producer is counted: the first one has yet to wake the VCPUs, and any other finds them reachable. *)
LEMMA CountUp ==
    ASSUME AInv, NEW p \in Producers, kvm_arch_start_assignment(p)
    PROVE  AInv'
<1> USE DEF AInv, ATypeOK, Goto, kvm_arch_start_assignment
<1>1. Attached' = Attached \cup {p} /\ p \notin Attached
  BY DEF Attached
<1>2. Cardinality(Attached') = Cardinality(Attached) + 1
  BY <1>1, AttachedFacts, FS_AddElement
<1>3. CountIsExact'
  BY <1>2 DEF CountIsExact, Attached
<1>4. AllReachable'
  <2>1. CASE assigned_device_count = 0
    BY <2>1 DEF AllReachable, Started
  <2>2. CASE assigned_device_count # 0
    <3>1. Attached # {}
      BY <2>2, AttachedFacts DEF CountIsExact, Attached
    <3>2. Started' => Started
      BY DEF Started
    <3>3. QED
      BY <3>1, <3>2 DEF AllReachable
  <2>3. QED
    BY <2>1, <2>2
<1>5. ATypeOK'
  OBVIOUS
<1>6. QED
  BY <1>3, <1>4, <1>5

(* The end of an assignment that failed or was removed. *)
LEMMA CountDown ==
    ASSUME AInv, NEW p \in Producers, kvm_arch_end_assignment(p)
    PROVE  AInv'
<1> USE DEF AInv, ATypeOK, Goto, kvm_arch_end_assignment
<1>1. Attached' = Attached \ {p} /\ p \in Attached
  BY DEF Attached
<1>2. Cardinality(Attached') = Cardinality(Attached) - 1
  BY <1>1, AttachedFacts, FS_RemoveElement
<1>3. assigned_device_count' = Cardinality(Attached')
  BY <1>2 DEF CountIsExact, Attached
<1>4. Cardinality(Attached') \in Nat
  BY <1>1, AttachedFacts, FS_RemoveElement, FS_CardinalityType
<1>5. AllReachable'
  BY <1>1 DEF AllReachable, Started
<1>6. ATypeOK'
  BY <1>3, <1>4
<1>7. QED
  BY <1>3, <1>5, <1>6 DEF CountIsExact, Attached

(* The steps that leave the count and the attached producers alone. *)
LEMMA OtherSteps ==
    ASSUME AInv, Attached' = Attached, UNCHANGED assigned_device_count, ATypeOK', AllReachable'
    PROVE  AInv'
  BY DEF AInv, CountIsExact, Attached

LEMMA NextAInv == AInv /\ [Next]_vars => AInv'
<1> SUFFICES ASSUME AInv, [Next]_vars PROVE AInv'
  OBVIOUS
<1> USE DEF AInv, ATypeOK, Goto
<1>1. ASSUME NEW p \in Producers, StartAssignment(p) PROVE AInv'
  <2>1. Attached' = Attached
    BY <1>1 DEF StartAssignment, Attached
  <2>2. AllReachable'
    BY <1>1 DEF StartAssignment, AllReachable
  <2>3. ATypeOK'
    BY <1>1 DEF StartAssignment
  <2>4. QED
    BY <1>1, <2>1, <2>2, <2>3, OtherSteps DEF StartAssignment
<1>2. ASSUME NEW p \in Producers, NEW ok \in BOOLEAN, update_pi_irte(p, ok) PROVE AInv'
  <2>1. Attached' = Attached /\ (Started' => Started)
    BY <1>2 DEF update_pi_irte, Attached, Started
  <2>2. AllReachable'
    BY <1>2, <2>1 DEF update_pi_irte, AllReachable
  <2>3. ATypeOK'
    BY <1>2 DEF update_pi_irte
  <2>4. QED
    BY <1>2, <2>1, <2>2, <2>3, OtherSteps DEF update_pi_irte
<1>3. ASSUME NEW p \in Producers, kvm_arch_irq_bypass_del_producer(p) PROVE AInv'
  <2>1. Attached' = Attached /\ (Started' => Started)
    BY <1>3 DEF kvm_arch_irq_bypass_del_producer, Attached, Started
  <2>2. AllReachable'
    BY <1>3, <2>1 DEF kvm_arch_irq_bypass_del_producer, AllReachable
  <2>3. ATypeOK'
    BY <1>3 DEF kvm_arch_irq_bypass_del_producer
  <2>4. QED
    BY <1>3, <2>1, <2>2, <2>3, OtherSteps DEF kvm_arch_irq_bypass_del_producer
<1>4. ASSUME NEW p \in Producers, Raise(p) PROVE AInv'
  <2>1. Target[p] \in Vcpus
    BY AssignAssumption
  <2>2. /\ at' = at /\ posted' = posted /\ assigned_device_count' = assigned_device_count
        /\ running' \subseteq Vcpus /\ listed' \subseteq Vcpus
        /\ running \cup listed \subseteq running' \cup listed'
    BY <1>4, <2>1 DEF Raise
  <2>3. Attached' = Attached /\ Started' = Started
    BY <2>2 DEF Attached, Started
  <2>4. AllReachable' /\ ATypeOK'
    BY <2>2, <2>3 DEF AllReachable
  <2>5. QED
    BY <2>2, <2>3, <2>4, OtherSteps
<1>5. ASSUME NEW v \in Vcpus, Block(v) PROVE AInv'
  <2>1. /\ at' = at /\ posted' = posted /\ assigned_device_count' = assigned_device_count
        /\ running' \subseteq Vcpus /\ listed' \subseteq Vcpus
        /\ assigned_device_count # 0 => running \cup listed \subseteq running' \cup listed'
    BY <1>5 DEF Block, kvm_arch_has_assigned_device
  <2>2. Attached' = Attached /\ Started' = Started
    BY <2>1 DEF Attached, Started
  <2>3. Attached # {} => assigned_device_count # 0
    BY AttachedFacts DEF CountIsExact, Attached
  <2>4. AllReachable' /\ ATypeOK'
    BY <2>1, <2>2, <2>3 DEF AllReachable
  <2>5. QED
    BY <2>1, <2>2, <2>4, OtherSteps
<1>6. CASE UNCHANGED <<assigned_device_count, at, posted, running, listed>>
  BY <1>6 DEF CountIsExact, AllReachable, Started, Attached
<1>7. QED
  BY <1>1, <1>2, <1>3, <1>4, <1>5, <1>6, CountUp, CountDown DEF Next, Add, Going, Take, vars

LEMMA AInvImplies == AInv => SleeperIsListed
<1> SUFFICES ASSUME AInv, Started, NEW p \in posted PROVE Target[p] \in running \cup listed
  BY DEF SleeperIsListed, Started
<1>1. p \in Producers /\ p \in Attached /\ Target[p] \in Vcpus
  BY AssignAssumption DEF AInv, ATypeOK, Attached
<1>2. QED
  BY <1>1 DEF AInv, AllReachable

LEMMA AssignInvariant == Spec => []AInv
  BY InitAInv, NextAInv, PTL DEF Spec

(* assigned_device_count is the number of producers attached or between their two updates, whatever failed. *)
THEOREM AssignedCountExact == Spec => []CountIsExact
<1>1. AInv => CountIsExact
  BY DEF AInv
<1>2. QED
  BY <1>1, AssignInvariant, PTL

(* A VCPU that sleeps while a device posts to it is on the wakeup list. *)
THEOREM SleepersListed == Spec => []SleeperIsListed
  BY AInvImplies, AssignInvariant, PTL

-----------------------------------------------------------------------------
(***************************************************************************)
(* The machine.  A behaviour runs one component, whose invariant holds;    *)
(* the devices are where they start unless they are that component.        *)
(***************************************************************************)
MachineInv ==
  /\ part = "module" => ModuleInv
  /\ part = "vm_life" => VmInv
  /\ part = "vcpu_create" => VcpuInv
  /\ part = "vm_setup" => SetupInv
  /\ part = "caps" => CapInv /\ CallNeedsVcpu
  /\ part = "vcpu_ioctl" => IoctlInv
  /\ AInv

LEMMA MachineInitInv == MachineInit => MachineInv
<1> SUFFICES ASSUME MachineInit PROVE MachineInv
  OBVIOUS
<1>1. /\ ModuleInit /\ VmInit /\ CapInit /\ Init
      /\ part = "vcpu_create" => VcpuInit
      /\ part = "vm_setup" => SetupInit
      /\ part = "vcpu_ioctl" => IoctlInit
  BY DEF MachineInit
<1>2. CallNeedsVcpu
  BY <1>1 DEF CapInit, Quiet, CallNeedsVcpu
<1>3. QED
  BY <1>1, <1>2, ModuleInitInv, VmInitInv, VcpuInitInv, SetupInitInv, CapInitInv, IoctlInitInv, InitAInv
     DEF MachineInv

(* A step of a machine is one of the component it runs, and leaves the devices alone when they are not it. *)
LEMMA StepOfPart ==
    ASSUME [MachineNext]_machineVars
    PROVE  /\ part' = part
           /\ part = "module" => ModuleNext \/ UNCHANGED moduleVars
           /\ part = "vm_life" => VmNext \/ UNCHANGED vmVars
           /\ part = "vcpu_create" => VcpuNext \/ UNCHANGED vcpuVars
           /\ part = "vm_setup" => SetupNext \/ UNCHANGED setupVars
           /\ part = "caps" => CapNext \/ UNCHANGED capVars
           /\ part = "vcpu_ioctl" => IoctlNext \/ UNCHANGED ioctlVars
           /\ part # "vm_life" => UNCHANGED vmVars
           /\ part # "caps" => UNCHANGED capVars
           /\ [Next]_vars
<1>1. CASE UNCHANGED machineVars
  BY <1>1 DEF machineVars
<1>2. CASE MachineNext
  BY <1>2 DEF MachineNext
<1>3. QED
  BY <1>1, <1>2

(* A component that makes no step keeps its invariant. *)
LEMMA ModuleStays == ModuleInv /\ UNCHANGED moduleVars => ModuleInv'
  BY DEF moduleVars, ModuleInv, Quiescent
LEMMA VmStays == VmInv /\ UNCHANGED vmVars => VmInv'
<1> SUFFICES ASSUME VmInv, UNCHANGED vmVars PROVE VmInv'
  OBVIOUS
<1>1. VmSlots'
  BY SlotsStay DEF vmVars, VmInv, regionVars
<1>2. QED
  BY <1>1 DEF vmVars, VmInv, UnpinnedFirst, PageTrackHeld
LEMMA VcpuStays == VcpuInv /\ UNCHANGED vcpuVars => VcpuInv'
<1> SUFFICES ASSUME VcpuInv, UNCHANGED vcpuVars PROVE VcpuInv'
  OBVIOUS
<1>1. Counted' = Counted
  BY DEF vcpuVars, Counted
<1>2. \A v \in VcpuVcpus : Holdings(v) => Holdings(v)'
  BY DEF vcpuVars, Holdings
<1>3. QED
  BY <1>1, <1>2 DEF vcpuVars, VcpuInv, KeyCounts
LEMMA SetupStays == SetupInv /\ UNCHANGED setupVars => SetupInv'
<1> SUFFICES ASSUME SetupInv, UNCHANGED setupVars PROVE SetupInv'
  OBVIOUS
<1> USE DEF setupVars, devices, pit, cpus
<1>1. SetupTypes' /\ InPlace' /\ SetupLocks'
  BY DEF SetupInv, SetupTypes, InPlace, SetupLocks
<1>2. Devices'
  <2>1. \A t \in SetupThreads : DevicesAt(t) => DevicesAt(t)'
    BY DEF DevicesAt
  <2>2. FailureLeavesNothing'
    BY DEF SetupInv, Devices, FailureLeavesNothing, irqchip_in_kernel
  <2>3. QED
    BY <2>1, <2>2 DEF SetupInv, Devices
<1>3. Counting' /\ PitStates'
  BY DEF SetupInv, Counting, PitStates, Writing
<1>4. VcpusAgree' /\ OneBootCpu' /\ PitSnapshot'
  BY DEF SetupInv, VcpusAgree, OneBootCpu, PitSnapshot, irqchip_in_kernel
<1>5. QED
  BY <1>1, <1>2, <1>3, <1>4 DEF SetupInv
LEMMA CapStays == CapInv /\ CallNeedsVcpu /\ UNCHANGED capVars => CapInv' /\ CallNeedsVcpu'
<1> SUFFICES ASSUME CapInv, CallNeedsVcpu, UNCHANGED capVars PROVE CapInv' /\ CallNeedsVcpu'
  OBVIOUS
<1>1. \A c : kvm_vm_ioctl_check_extension(c)' = kvm_vm_ioctl_check_extension(c)
  BY DEF capVars, kvm_vm_ioctl_check_extension
<1>2. InForceIsReported' /\ ReportedCanBeHad'
  BY <1>1 DEF capVars, CapInv, InForceIsReported, ReportedCanBeHad
<1>3. QED
  BY <1>2 DEF capVars, CapInv, CallNeedsVcpu
LEMMA IoctlStays == IoctlInv /\ UNCHANGED ioctlVars => IoctlInv'
<1> SUFFICES ASSUME IoctlInv, UNCHANGED ioctlVars PROVE IoctlInv'
  OBVIOUS
<1> USE DEF ioctlVars
<1>1. IoctlTypes' /\ OneInside' /\ RunPendingInGuestMode'
  BY DEF IoctlInv, IoctlTypes, OneInside, RunPendingInGuestMode
<1>2. Buffers'
  BY DEF IoctlInv, Buffers
<1>3. SrcuBalance'
  BY DEF IoctlInv, SrcuBalance, SrcuTaken, SrcuAt, Sh
<1>4. WholeState'
  BY DEF IoctlInv, WholeState, Sh
<1>5. QED
  BY <1>1, <1>2, <1>3, <1>4 DEF IoctlInv

LEMMA MachineNextInv == MachineInv /\ [MachineNext]_machineVars => MachineInv'
<1> SUFFICES ASSUME MachineInv, [MachineNext]_machineVars PROVE MachineInv'
  OBVIOUS
<1>1. part' = part
  BY StepOfPart
<1>2. part = "module" => ModuleInv'
  BY StepOfPart, ModuleNextInv, ModuleStays DEF MachineInv
<1>3. part = "vm_life" => VmInv'
  BY StepOfPart, VmNextInv, VmStays DEF MachineInv
<1>4. part = "vcpu_create" => VcpuInv'
  BY StepOfPart, VcpuNextInv, VcpuStays DEF MachineInv
<1>5. part = "vm_setup" => SetupInv'
  BY StepOfPart, SetupNextInv, SetupStays DEF MachineInv
<1>6. part = "caps" => CapInv' /\ CallNeedsVcpu'
  BY StepOfPart, CapNextInv, CallNeedsVcpuNext, CapStays DEF MachineInv
<1>7. part = "vcpu_ioctl" => IoctlInv'
  BY StepOfPart, IoctlNextInv, IoctlStays DEF MachineInv
<1>8. AInv'
  BY StepOfPart, NextAInv DEF MachineInv
<1>9. QED
  BY <1>1, <1>2, <1>3, <1>4, <1>5, <1>6, <1>7, <1>8 DEF MachineInv

LEMMA MachineInvariant == MachineSpec => []MachineInv
  BY MachineInitInv, MachineNextInv, PTL DEF MachineSpec

(* Loading the module, the life of a machine, the creation and configuration of its VCPUs, capabilities,  *)
(* the ioctls of a VCPU and assigned devices: whichever step fails and whichever thread comes first, what *)
(* was taken is given back exactly once, nothing runs on what was freed, and the parts agree. What the    *)
(* code does not give back is exactly this: one count of the static key for each VCPU that failed after   *)
(* it was counted, the mapping of a slot call that failed half-way, the page track of a refused machine.  *)
THEOREM MachineAlwaysConsistent == MachineSpec => []MachineConsistent
<1>1. MachineInv => MachineConsistent
  <2> SUFFICES ASSUME MachineInv PROVE MachineConsistent
    OBVIOUS
  <2>1. part = "module" => NothingLeft /\ NoWorkAfterExit
    BY DEF MachineInv, ModuleInv, Quiescent, NothingLeft, NoWorkAfterExit
  <2>2. part = "vm_life" => NoWorkAfterFree /\ UnpinnedFirst /\ SlotsAreMapped /\ MapsGivenBack /\ PageTrackHeld
    BY DEF MachineInv, VmInv, VmSlots, NoWorkAfterFree
  <2>3. part = "caps" => InForceIsReported /\ ReportedCanBeHad
    BY DEF MachineInv, CapInv
  <2>4. QED
    BY <2>1, <2>2, <2>3, VcpuInvImplies, SetupInvImplies, IoctlInvImplies, AInvImplies
       DEF MachineInv, MachineConsistent
<1>2. QED
  BY <1>1, MachineInvariant, PTL

(* No step of a machine that lives moves a slot, once it is mapped; none makes an APIC after a VCPU was   *)
(* refused a synthetic interrupt controller for want of one; and no capability that is refused leaves a   *)
(* trace, but for the enlightened VMCS whose version could not be copied out.                             *)
THEOREM MachineStepsKeep == MachineSpec => TranslationStays /\ SynicNeedsApic /\ RefusedChangesNothing
<1>1. MachineInv /\ [MachineNext]_machineVars =>
        [vmState = "live" =>
           \A r \in Regions, s \in Spaces : hva[r][s] # NoHva => hva'[r][s] = hva[r][s]]_vmVars
  BY StepOfPart, TranslationStep DEF MachineInv
<1>2. MachineInv /\ [MachineNext]_machineVars =>
        [(last.cap \in {"HYPERV_SYNIC", "HYPERV_SYNIC2"} /\ last.r = "EINVAL" /\ last.arg = {})
           => capVm'.irqchip = capVm.irqchip]_capVars
  BY StepOfPart, CapActions DEF MachineInv
<1>3. MachineInv /\ [MachineNext]_machineVars =>
        [last'.r # "ok" => capVm' = capVm /\ (capVcpu' = capVcpu \/ last'.r = "EFAULT")]_capVars
  BY StepOfPart, CapActions DEF MachineInv
<1>4. MachineSpec => TranslationStays
  BY <1>1, MachineInvariant, PTL DEF MachineSpec, TranslationStays
<1>5. MachineSpec => SynicNeedsApic
  BY <1>2, MachineInvariant, PTL DEF MachineSpec, SynicNeedsApic
<1>6. MachineSpec => RefusedChangesNothing
  BY <1>3, MachineInvariant, PTL DEF MachineSpec, RefusedChangesNothing
<1>7. QED
  BY <1>4, <1>5, <1>6
=============================================================================
