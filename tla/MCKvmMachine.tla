---------------------------- MODULE MCKvmMachine ----------------------------
(***************************************************************************)
(* Virtual machines and their registers (kvm/x86.c), on small instances:   *)
(* loading and unloading the module, the life of a machine, creation of a  *)
(* virtual CPU with every failure, configuration by several threads,       *)
(* capabilities, the ioctls of a virtual CPU, MSRs with their filters and  *)
(* lists, and assigned devices.  Each behaviour runs one of them, named by *)
(* part; the others stay where they start.                                 *)
(***************************************************************************)
EXTENDS KvmMsrs, KvmLife, KvmAssign

CONSTANT Parts          \* the components this run explores

VARIABLE part

machineVars == <<part, msrVars, wrmsrVars, filterVars, listVars, moduleVars,
                 vmVars, vcpuVars, setupVars, capVars, ioctlVars, vars>>

Group(m, f, a) == [msrs |-> m, features |-> f, amd |-> a]
SomeGroups ==
    {Group({"platform_info", "misc_features", "misc_enable", "apic_base", "ucode_rev"},
           {"xmm3", "x2apic"}, FALSE),
     Group({"hwcr", "mcg_ctl", "mci_ctl", "mci_status", "perf_capabilities"},
           {"mcg_ctl_p", "pdcm"}, TRUE),
     Group({"steal_time", "poll_control", "tsc_adjust"},
           {"steal_time", "poll_control", "tsc_adjust"}, FALSE),
     Group({"osvw_length", "xss", "smbase"}, {"osvw", "xsaves"}, FALSE)}
MsrRange(b, n, f, bits) == [base |-> b, n |-> n, flags |-> f, bitmap |-> bits]
SomeFilters ==
    {[default_allow |-> TRUE, ranges |-> <<MsrRange(1, 3, {"write"}, {1})>>],
     [default_allow |-> FALSE, ranges |-> <<MsrRange(1, 2, {"read"}, {0}),
                                            MsrRange(2, 2, {"read", "write"}, {0, 1})>>],
     [default_allow |-> FALSE, ranges |-> <<>>],
     [default_allow |-> TRUE, ranges |-> <<>>]}
SomeMask  == {"filter", "inval"}
SomeListHosts ==
    {[regs |-> {"sysenter", "bndcfgs", "tsc_aux", "umwait", "rtit_ctl", "rtit_cr3", "rtit_out",
                "rtit_addr", "perfctr", "eventsel"},
      ranges |-> 1, counters |-> 2, caps |-> {"cr3_filtering", "topa"}, bugs |-> {"TAA"},
      rtm |-> TRUE, l1d_flush |-> "cond", archcap |-> {"RDCL_NO", "MDS_NO"}],
     [regs |-> {"sysenter", "tsc_aux", "rtit_ctl", "rtit_out", "rtit_addr", "perfctr", "eventsel"},
      ranges |-> 2, counters |-> 3, caps |-> {}, bugs |-> {"MELTDOWN", "SSB", "MDS"},
      rtm |-> FALSE, l1d_flush |-> "never", archcap |-> {"TAA_NO"}],
     [regs |-> {"sysenter", "perfctr"}, ranges |-> 0, counters |-> 1, caps |-> {}, bugs |-> {},
      rtm |-> TRUE, l1d_flush |-> "cond", archcap |-> {}]}
SomeParams ==
    {[caps |-> {"mpx", "rdtscp", "waitpkg", "pt"},
      emulates |-> {"kvm_clock", "smbase", "vmx_true", "arch_cap", "ucode"},
      features |-> {"vmx_true", "vmx_ctls"}],
     [caps |-> {"rdpid", "pt"}, emulates |-> {"kvm_clock", "arch_cap", "ucode"},
      features |-> {"decfg"}],
     [caps |-> {}, emulates |-> {"kvm_clock", "smbase"}, features |-> {}]}
SomeCapHosts == {{}, {"mwait", "evmcs", "provision"}, {"bus_lock", "tlbflush", "copy_enc"}}
TwoTargets == [p \in Producers |-> IF p = 1 THEN 1 ELSE 2]

\* The variables of a component the behaviour does not run hold this value.
Unused == "unused"

MsrUnused ==
    /\ msrs = Unused /\ cpuid = Unused /\ quirk = Unused /\ phase = Unused
    /\ saved = Unused /\ left = Unused /\ hwcr = Unused /\ amd = Unused
WrmsrUnused ==
    /\ index = Unused /\ wrmsrHost = Unused /\ model = Unused
    /\ rdtscp = Unused /\ la57 = Unused /\ wrmsrMsr = Unused
    /\ image = Unused /\ wrmsrAsked = Unused /\ wrote = Unused
    /\ migrations = Unused /\ refused = Unused
ListUnused ==
    /\ listHost = Unused /\ par = Unused /\ msrs_to_save = Unused
    /\ emulated_msrs = Unused /\ msr_based_features = Unused
    /\ listLoads = Unused /\ open = Unused /\ listAsked = Unused
    /\ room = Unused /\ got = Unused
VcpuUnused ==
    /\ vcpuState = Unused /\ vcpuAt = Unused /\ vcpuHeld = Unused
    /\ noapic = Unused /\ tries = Unused /\ leaked = Unused
SetupUnused ==
    /\ lock = Unused /\ pit_lock = Unused /\ irqchip_mode = Unused
    /\ pic = Unused /\ ioapic = Unused /\ routing = Unused
    /\ nr_pins = Unused /\ vpit = Unused /\ channels = Unused
    /\ setupFlags = Unused /\ created = Unused /\ setupVcpu = Unused
    /\ bsp = Unused /\ setupPc = Unused /\ writes = Unused /\ states = Unused
IoctlUnused ==
    /\ apic = Unused /\ ioctlState = Unused /\ nested = Unused
    /\ nsize = Unused /\ holder = Unused /\ loaded = Unused /\ srcu = Unused
    /\ heap = Unused /\ ioctlFreed = Unused /\ ioctlPc = Unused
    /\ call = Unused /\ buf = Unused /\ seen = Unused /\ ret = Unused
    /\ count = Unused /\ given = Unused

MachineInit ==
    /\ part \in Parts
    /\ IF part = "msr_state" THEN MsrInit ELSE MsrUnused
    /\ IF part = "msr_write" THEN WrmsrInit ELSE WrmsrUnused
    /\ FilterInit
    /\ IF part = "msr_lists" THEN ListInit ELSE ListUnused
    /\ ModuleInit
    /\ VmInit
    /\ IF part = "vcpu_create" THEN VcpuInit ELSE VcpuUnused
    /\ IF part = "vm_setup" THEN SetupInit ELSE SetupUnused
    /\ CapInit /\ (part # "caps" => capHost = {})
    /\ IF part = "vcpu_ioctl" THEN IoctlInit ELSE IoctlUnused
    /\ Init

MachineNext ==
    \/ /\ part = "msr_state" /\ MsrNext
       /\ UNCHANGED <<part, wrmsrVars, filterVars, listVars, moduleVars,
                      vmVars, vcpuVars, setupVars, capVars, ioctlVars, vars>>
    \/ /\ part = "msr_write" /\ WrmsrNext
       /\ UNCHANGED <<part, msrVars, filterVars, listVars, moduleVars,
                      vmVars, vcpuVars, setupVars, capVars, ioctlVars, vars>>
    \/ /\ part = "msr_filter" /\ FilterNext
       /\ UNCHANGED <<part, msrVars, wrmsrVars, listVars, moduleVars, vmVars,
                      vcpuVars, setupVars, capVars, ioctlVars, vars>>
    \/ /\ part = "msr_lists" /\ ListNext
       /\ UNCHANGED <<part, msrVars, wrmsrVars, filterVars, moduleVars,
                      vmVars, vcpuVars, setupVars, capVars, ioctlVars, vars>>
    \/ /\ part = "module" /\ ModuleNext
       /\ UNCHANGED <<part, msrVars, wrmsrVars, filterVars, listVars, vmVars,
                      vcpuVars, setupVars, capVars, ioctlVars, vars>>
    \/ /\ part = "vm_life" /\ VmNext
       /\ UNCHANGED <<part, msrVars, wrmsrVars, filterVars, listVars,
                      moduleVars, vcpuVars, setupVars, capVars, ioctlVars,
                      vars>>
    \/ /\ part = "vcpu_create" /\ VcpuNext
       /\ UNCHANGED <<part, msrVars, wrmsrVars, filterVars, listVars,
                      moduleVars, vmVars, setupVars, capVars, ioctlVars,
                      vars>>
    \/ /\ part = "vm_setup" /\ SetupNext
       /\ UNCHANGED <<part, msrVars, wrmsrVars, filterVars, listVars,
                      moduleVars, vmVars, vcpuVars, capVars, ioctlVars,
                      vars>>
    \/ /\ part = "caps" /\ CapNext
       /\ UNCHANGED <<part, msrVars, wrmsrVars, filterVars, listVars,
                      moduleVars, vmVars, vcpuVars, setupVars, ioctlVars,
                      vars>>
    \/ /\ part = "vcpu_ioctl" /\ IoctlNext
       /\ UNCHANGED <<part, msrVars, wrmsrVars, filterVars, listVars,
                      moduleVars, vmVars, vcpuVars, setupVars, capVars,
                      vars>>
    \/ /\ part = "assign" /\ Next
       /\ UNCHANGED <<part, msrVars, wrmsrVars, filterVars, listVars,
                      moduleVars, vmVars, vcpuVars, setupVars, capVars,
                      ioctlVars>>

\* kvm_exit and kvm_destroy_vm run to their end and queued work runs; an
\* ioctl that waits for readers is not overtaken for ever; the registration
\* of a device and the delivery of a posted interrupt go on.
MachineSpec ==
    /\ MachineInit /\ [][MachineNext]_machineVars
    /\ WF_moduleVars(part = "module" /\ Exit)
    /\ WF_moduleVars(part = "module" /\ pvclock_irq_work_fn)
    /\ WF_vmVars(part = "vm_life" /\ Destroy)
    /\ WF_filterVars(part = "msr_filter" /\ Ioctl)
    /\ \A c \in FilterVcpus : WF_filterVars(part = "msr_filter" /\ Decide(c))
    /\ \A p \in Producers : WF_vars(part = "assign" /\ Going(p))
    /\ \A c \in Vcpus : WF_vars(part = "assign" /\ Take(c))

-----------------------------------------------------------------------------
\* kvm_set_msr_common, kvm_set_user_return_msr, kvm_vm_ioctl_set_msr_filter
\* and kvm_init_msr_list: what the host reads of a virtual CPU's registers it
\* can write back in any order, entry never fails on a register, a filter is
\* not used after it was freed and is in force when its ioctl returns, and
\* every listed register can be read.
MsrsConsistent ==
    /\ part = "msr_state" =>
         RestoreSucceeds /\ RestoredIsSame /\ FaultNeedsSupport /\ CpuidFollows /\ ApicModes
    /\ part = "msr_write" => EntryNeverFails /\ AuxFits /\ RestoreAccepted
    /\ part = "msr_filter" =>
         NoUseAfterFree /\ OneFilterKept /\ InterceptsFollow /\ FilteredIsRefused
    /\ part = "msr_lists" =>
         /\ AnswerIsWhole /\ SecondCallFits /\ PairsTogether
         /\ ListedCanBeRead /\ ImmunityIsReal

\* kvm_arch_init, kvm_destroy_vm, kvm_arch_vcpu_create, kvm_arch_vm_ioctl,
\* kvm_vm_ioctl_enable_cap and kvm_arch_vcpu_ioctl: whichever step fails and
\* whichever thread comes first, nothing runs on what was freed, the parts of
\* a machine agree, a virtual CPU that sleeps is on the list that wakes it,
\* and what was taken is given back exactly once. Three things the code does
\* not give back are counted, and nothing else is lost: the static key of a
\* VCPU that failed after it was counted, the mapping of a slot call that
\* failed half-way, and the page track of a machine the vendor refused.
MachineConsistent ==
    /\ part = "module" => NothingLeft /\ NoWorkAfterExit
    /\ part = "vm_life" => NoWorkAfterFree /\ UnpinnedFirst /\ SlotsAreMapped /\ MapsGivenBack /\ PageTrackHeld
    /\ part = "vcpu_create" => VcpuTypeOK /\ NothingIsLost /\ FreesWhatItHas /\ KeyCounts
    /\ part = "vm_setup" =>
         UseIsSafe /\ VcpusAgree /\ OneBootCpu /\ FailureLeavesNothing /\ PitSnapshot
    /\ part = "caps" => InForceIsReported /\ ReportedCanBeHad
    /\ part = "vcpu_ioctl" =>
         OnlyBuffersFreed /\ NothingHeld /\ ReadsAreWhole /\ RunPendingInGuestMode
    /\ SleeperIsListed

\* A slot's translation never changes while the machine lives and a refused
\* capability changes nothing; unloading ends, a machine is freed once nothing
\* holds it, KVM_X86_SET_MSR_FILTER returns, and no posted interrupt is lost.
MachineProceeds ==
    /\ TranslationStays /\ SynicNeedsApic /\ RefusedChangesNothing
    /\ ExitEnds /\ IsFreed /\ IoctlEnds /\ NoLostWakeup
=============================================================================
