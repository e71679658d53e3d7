--------------------------- MODULE MCKvmExecution ---------------------------
(***************************************************************************)
(* A virtual CPU that runs (kvm/x86.c), on small instances: the loop of    *)
(* vcpu_run with its requests, what is loaded and restored around the      *)
(* guest, hypercalls with the SMILE patch, MMIO and port I/O, control      *)
(* registers, kept roots and memory slots.  Each behaviour runs one of     *)
(* them, named by part; the others stay where they start.                  *)
(***************************************************************************)
EXTENDS KvmRun, KvmIo, KvmMemory

CONSTANT Parts          \* the components this run explores

VARIABLE part

executionVars == <<part, runVars, uretVars, fpuVars, wbinvdVars, callVars,
                   mmioVars, pioVars, cregsVars, pcidVars, slotsVars>>

AllResources == {"tlb", "apicpage", "routes", "apicv"}
SomeMade     == {"NMI", "APF_HALT", "REPORT_TPR_ACCESS", "TRIPLE_FAULT", "IOAPIC_EOI_EXIT",
                 "HV_RESET", "HV_CRASH", "HV_EXIT", "VM_BUGGED", "MMU_RELOAD",
                 "TLB_FLUSH_CURRENT", "STEAL_UPDATE"}
Bound(c, m, s, o) == [changes |-> c, made |-> m, signals |-> s, of |-> o]
SomeBounds   == {Bound(2, 0, 0, {}), Bound(1, 1, 1, {"NMI", "APF_HALT"}),
                 Bound(0, 3, 0, {"NMI", "APF_HALT"}), Bound(0, 2, 0, SomeMade)}
SomeXcr0     == {"fp", "sse", "ymm", "bndregs", "bndcsr", "pkru"}
AskedXcr0    == {{"fp"}, {"sse"}, {"fp", "ymm"}, {"fp", "bndregs"}, {"fp", "pkru"}, SomeXcr0}
SomeCr4s     == SUBSET {"OSXSAVE", "PKE"}
MappedOne      == [g \in {"g1", "g2"} |-> IF g = "g1" THEN "p1" ELSE Unmapped]
SomeKernels  == {{}, {2}}
SomeCpuids   == {{"LM"}, {"PCID", "LM", "NX", "LA57"}}
File(c0, t, c4, e, l, g) ==
    [cr0 |-> c0, cr3 |-> t, cr4 |-> c4, efer |-> e, l |-> l, given |-> g]
SomeFiles    ==
    {File({}, "t1", {}, {}, FALSE, FALSE), File({"PE", "PG"}, "t1", {"PAE"}, {}, FALSE, FALSE),
     File({"PE", "PG"}, "t2", {"PAE"}, {}, FALSE, TRUE),
     File({"PE"}, "t2", {"PAE"}, {}, FALSE, TRUE),
     File({"PE", "PG"}, "t2", {"PAE", "PCIDE"}, {"LME", "LMA"}, TRUE, FALSE),
     File({"PE", "PG"}, "t1", {"PAE"}, {"LME"}, FALSE, FALSE),
     File({"PE", "PG"}, "t1", {"PAE"}, {"LMA"}, FALSE, FALSE),
     File({"PG"}, "t1", {"PCIDE"}, {"LME"}, FALSE, FALSE),
     File({"PG", "CD"}, "t1", {"PCIDE"}, {}, FALSE, FALSE)}

\* The variables of a component the behaviour does not run hold this value.
Unused == "unused"

UretUnused ==
    /\ hw = Unused /\ list = Unused /\ host = Unused /\ curr = Unused
    /\ registered = Unused /\ uretMode = Unused /\ uretSlot = Unused
    /\ enabled = Unused
FpuUnused ==
    /\ fpuPc = Unused /\ regs = Unused /\ need_load = Unused
    /\ thread = Unused /\ user_fpu = Unused /\ guest_fpu = Unused
    /\ pkru = Unused /\ host_pkru = Unused /\ vcpu_pkru = Unused
    /\ xcr0 = Unused /\ vcpu_xcr0 = Unused /\ cpuid_ext = Unused
    /\ fpuCr4 = Unused /\ uval = Unused /\ gval = Unused /\ upkru = Unused
    /\ gpkru = Unused
WbinvdUnused ==
    /\ has_exit = Unused /\ cpu = Unused /\ last = Unused
    /\ wbinvdMask = Unused /\ dirty = Unused /\ before = Unused
    /\ since = Unused /\ wbinvdPc = Unused /\ due = Unused
MmioUnused ==
    /\ type = Unused /\ kernel = Unused /\ mmioPc = Unused
    /\ mmioInsn = Unused /\ val = Unused /\ frags = Unused
    /\ mmioCur = Unused /\ needed = Unused /\ isWrite = Unused
    /\ completed = Unused /\ run = Unused /\ stored = Unused
    /\ count = Unused /\ outcome = Unused /\ mmioLeft = Unused
PioUnused ==
    /\ pioPc = Unused /\ pioInsn = Unused /\ pioRip = Unused
    /\ moved = Unused /\ pio = Unused /\ linear = Unused /\ callback = Unused
    /\ sev = Unused /\ got = Unused /\ pioSeen = Unused /\ skips = Unused
PcidUnused ==
    /\ mem = Unused /\ pcidCr3 = Unused /\ pcide = Unused /\ prev = Unused
    /\ shadow = Unused /\ pcidReqs = Unused /\ running = Unused
    /\ pcidOwed = Unused
SlotsUnused ==
    /\ slotsSlot = Unused /\ have_rmaps = Unused /\ slotsLock = Unused
    /\ todo = Unused /\ change = Unused /\ logging = Unused
    /\ slotsReqs = Unused /\ pml = Unused

ExecutionInit ==
    /\ part \in Parts
    /\ RunInit /\ (part # "run" => mp_state_run = "RUNNABLE" /\ runLeft.changes = 2 /\ hyperv)
    /\ IF part = "user_return" THEN UretInit ELSE UretUnused
    /\ IF part = "fpu" THEN FpuInit ELSE FpuUnused
    /\ IF part = "wbinvd" THEN WbinvdInit ELSE WbinvdUnused
    /\ CallInit
    /\ IF part = "mmio" THEN MmioInit ELSE MmioUnused
    /\ IF part = "pio" THEN PioInit ELSE PioUnused
    /\ CregsInit /\ (part # "cregs" => cpuid = {"LM"} /\ good = {})
    /\ IF part = "pcid" THEN PcidInit ELSE PcidUnused
    /\ IF part = "memslots" THEN SlotsInit ELSE SlotsUnused

ExecutionNext ==
    \/ /\ part = "run" /\ RunNext
       /\ UNCHANGED <<part, uretVars, fpuVars, wbinvdVars, callVars,
                      mmioVars, pioVars, cregsVars, pcidVars, slotsVars>>
    \/ /\ part = "user_return" /\ UretNext
       /\ UNCHANGED <<part, runVars, fpuVars, wbinvdVars, callVars, mmioVars,
                      pioVars, cregsVars, pcidVars, slotsVars>>
    \/ /\ part = "fpu" /\ FpuNext
       /\ UNCHANGED <<part, runVars, uretVars, wbinvdVars, callVars,
                      mmioVars, pioVars, cregsVars, pcidVars, slotsVars>>
    \/ /\ part = "wbinvd" /\ WbinvdNext
       /\ UNCHANGED <<part, runVars, uretVars, fpuVars, callVars, mmioVars,
                      pioVars, cregsVars, pcidVars, slotsVars>>
    \/ /\ part = "hypercall" /\ CallNext
       /\ UNCHANGED <<part, runVars, uretVars, fpuVars, wbinvdVars, mmioVars,
                      pioVars, cregsVars, pcidVars, slotsVars>>
    \/ /\ part = "mmio" /\ MmioNext
       /\ UNCHANGED <<part, runVars, uretVars, fpuVars, wbinvdVars, callVars,
                      pioVars, cregsVars, pcidVars, slotsVars>>
    \/ /\ part = "pio" /\ PioNext
       /\ UNCHANGED <<part, runVars, uretVars, fpuVars, wbinvdVars, callVars,
                      mmioVars, cregsVars, pcidVars, slotsVars>>
    \/ /\ part = "cregs" /\ CregsNext
       /\ UNCHANGED <<part, runVars, uretVars, fpuVars, wbinvdVars, callVars,
                      mmioVars, pioVars, pcidVars, slotsVars>>
    \/ /\ part = "pcid" /\ PcidNext
       /\ UNCHANGED <<part, runVars, uretVars, fpuVars, wbinvdVars, callVars,
                      mmioVars, pioVars, cregsVars, slotsVars>>
    \/ /\ part = "memslots" /\ SlotsNext
       /\ UNCHANGED <<part, runVars, uretVars, fpuVars, wbinvdVars, callVars,
                      mmioVars, pioVars, cregsVars, pcidVars>>

\* A virtual CPU's thread and the host's threads that make requests go on, an
\* interprocessor interrupt makes the guest exit, and a guest that was handed
\* a lock takes it.
ExecutionSpec ==
    /\ ExecutionInit /\ [][ExecutionNext]_executionVars
    /\ WF_runVars(part = "run" /\ Vcpu)
    /\ WF_runVars(part = "run" /\ Host)
    /\ WF_runVars(part = "run" /\ ipi /\ ExitGuest)
    /\ \A c \in CallVcpus :
         /\ WF_callVars(part = "hypercall" /\ kvm_emulate_halt(c))
         /\ WF_callVars(part = "hypercall" /\ vcpu_block_call(c))
         /\ WF_callVars(part = "hypercall" /\ complete_hypercall_exit(c))
         /\ WF_callVars(part = "hypercall" /\ TakeLock(c))

-----------------------------------------------------------------------------
\* kvm_emulate_hypercall, emulator_read_write, kvm_fast_pio, kvm_set_cr0 and
\* its relatives, kvm_invalidate_pcid and kvm_alloc_memslot_metadata: every
\* access of the guest happens once and whole, whatever user space completes
\* in between, and of one that faults on its second page no more than the
\* first is stored; the MMU walks with the registers the guest has, never through
\* a root it flushed; and slots, large pages and logging agree.
AccessesExact ==
    /\ part = "hypercall" => CallTypeOK /\ FinishedOnce /\ OnlyMappedWritten
    /\ part = "mmio" => MmioTypeOK /\ LoadExact /\ StoredOnce /\ OneAccessAtATime
    /\ part = "pio" => PioTypeOK /\ ItemsInOrder /\ SkippedOnce
    /\ part = "cregs" => CregsTypeOK /\ MmuFollowsRegisters /\ PdptrsAreCurrent
    /\ part = "pcid" => PcidTypeOK /\ FlushedIsGone /\ KeptRootsAreCurrent
    /\ part = "memslots" => SlotsTypeOK /\ RmapsComplete /\ LargePagesFit /\ LoggingFollows

\* vcpu_enter_guest, kvm_set_user_return_msr, kvm_load_guest_fpu and
\* kvm_emulate_wbinvd: a guest runs on the current state of its requests with
\* srcu released, and neither it nor the host sees the other's registers,
\* however preemption, interrupts and the end of virtualisation fall.
WorldSwitchExact ==
    /\ part = "run" => RunTypeOK /\ GuestRunsOnCurrent /\ SrcuWhereNeeded /\ RequestInterrupts
    /\ part = "user_return" =>
         UretTypeOK /\ UserSeesHost /\ HostIsHost /\ CurrIsHardware /\ OffMeansHost
    /\ part = "fpu" =>
         /\ UserKeepsItsRegisters /\ GuestKeepsItsRegisters /\ HostKeepsItsState
         /\ LoadableXcr0 /\ CpuidFollowsXcr0
    /\ part = "wbinvd" => WrittenBackSinceLoad

\* vcpu_block and kvm_pv_kick_cpu_op: a SIPI or an NMI ends the wait of a
\* virtual CPU, and one that is handed a lock as it halts takes it; no
\* sequence of writes takes the control registers out of a legal combination.
VcpuProceeds ==
    /\ GuestStaysLegal
    /\ part = "run" => SipiStarts /\ EventWakes
    /\ part = "hypercall" => HandedIsTaken
=============================================================================
