------------------------------ MODULE KvmMsrs -------------------------------
(***************************************************************************)
(* Model specific registers, in four parts: machine check and other        *)
(* registers as user space saves and restores them, the checks of a        *)
(* guest's write, the filter, and the lists of registers.                  *)
(***************************************************************************)
EXTENDS Naturals, FiniteSets, Integers, Sequences, SequencesExt

(***************************************************************************)
(* The model-specific registers of a VCPU that KVM keeps itself            *)
(* (kvm_set_msr_common, kvm_get_msr_common, set_msr_mce, get_msr_mce and   *)
(* kvm_set_apic_base of kvm/x86.c), as the guest and the host write them,  *)
(* and as they are saved and restored, in any order, on another VCPU of    *)
(* the same kind: what the host may read it must be able to write back.    *)
(*                                                                         *)
(* A value is a class of values, 0 .. 3: 0 is zero; what 1, 2 and 3 are is *)
(* said with each register. The registers of the clock, of asynchronous    *)
(* page faults and of the PMU have modules of their own or are external.   *)
(***************************************************************************)

CONSTANTS
  Groups       \* groups of registers, each with what the CPUID of the guest may
               \* have and whether its processor is AMD's

ASSUME MsrAssumption == \A g \in Groups : g.amd \in BOOLEAN

MsrData == 0 .. 3
Refused == {}

VARIABLES
  msrs,         \* the values
  cpuid,       \* features of the guest, with "mwait" at run time
  quirk,       \* KVM_X86_QUIRK_MISC_ENABLE_NO_MWAIT
  phase,       \* "run", "restore", "done", "failed"
  saved,       \* the values read by the host
  left,        \* registers still to restore
  hwcr,        \* what the guest last wrote to HWCR, successfully
  amd          \* the guest's processor is AMD's

msrVars == <<msrs, cpuid, quirk, phase, saved, left, hwcr, amd>>
Msrs == DOMAIN msrs

(* kvm_arch_vcpu_create: only MSR_PLATFORM_INFO and the poll control are not zero *)
Fresh(S) == [m \in S |-> IF m \in {"platform_info", "poll_control"} THEN 1 ELSE 0]

MsrInit ==
  /\ \E g \in Groups : msrs = Fresh(g.msrs) /\ cpuid \in SUBSET g.features /\ amd = g.amd
  /\ quirk \in BOOLEAN /\ phase = "run"
  /\ saved = msrs /\ left = {} /\ hwcr = 0

MsrHas(f) == f \in cpuid
-----------------------------------------------------------------------------
(* Each operator gives the values the register may have after a write of d, *)
(* none if the write is refused. HostOnly: SMBASE, SMI_COUNT, ARCH_CAPABILITIES. *)
HostOnly == {"smbase", "smi_count", "arch_capabilities"}
SetHostOnly(d, host) == IF host THEN {d} ELSE Refused

(* PERF_CAPABILITIES: 1 is within the host's; without PDCM only zero is *)
SetPerf(d, host) == IF host /\ (d = 0 \/ (d = 1 /\ MsrHas("pdcm"))) THEN {d} ELSE Refused

(* PLATFORM_INFO: 1 has CPUID faulting; MISC_FEATURES_ENABLES: 1 enables it, 2 and 3 are reserved *)
SetPlatformUnchecked(d, host) == IF host THEN {d} ELSE Refused
SetPlatform(d, host) ==
  IF host /\ (d = 1 \/ "misc_features" \notin Msrs \/ msrs["misc_features"] # 1) THEN {d} ELSE Refused
SetMiscFeatures(d) ==
  IF d = 0 \/ (d = 1 /\ ("platform_info" \in Msrs => msrs["platform_info"] = 1)) THEN {d} ELSE Refused

(* HWCR: 1 is McStatusWrEn, 2 and 3 are not implemented; zero is accepted and changes nothing *)
SetHwcr(d) == IF d = 1 THEN {1} ELSE IF d = 0 THEN {msrs["hwcr"]} ELSE Refused

(* set_msr_mce, the host's MCG_CAP with MCG_CTL_P a feature. MCG_CTL and MCi_CTL: 1 is all ones, *)
(* 2 all ones without bit 10, 3 anything else                                                    *)
can_set_mci_status == amd /\ msrs["hwcr"] = 1
SetMcgCtl(d, host) ==
  IF (MsrHas("mcg_ctl_p") \/ (d = 0 /\ host)) /\ d \in {0, 1} THEN {d} ELSE Refused
SetMciCtl(d) == IF d \in {0, 1, 2} THEN {d} ELSE Refused
SetMciStatus(d, host) == IF host \/ d = 0 \/ can_set_mci_status THEN {d} ELSE Refused

(* XSS: 1 is supported *)
SetXss(d, host) == IF (host \/ MsrHas("xsaves")) /\ d \in {0, 1} THEN {d} ELSE Refused
(* registers without effect if the guest has not got them: TSC_ADJUST; only with a feature: OSVW *)
SetTscAdjust(d) == IF MsrHas("tsc_adjust") THEN {d} ELSE {msrs["tsc_adjust"]}
SetOsvw(d) == IF MsrHas("osvw") THEN {d} ELSE Refused
(* paravirtual: the poll control has one bit, the steal time reserved ones (2, 3) *)
SetPoll(d) == IF MsrHas("poll_control") /\ d \in {0, 1} THEN {d} ELSE Refused
SetSteal(d) == IF MsrHas("steal_time") /\ d \in {0, 1} THEN {d} ELSE Refused

(* MISC_ENABLE: 1 has MWAIT *)
MwaitChanges(d) == ~quirk /\ (msrs["misc_enable"] = 1) # (d = 1)
SetMiscEnable(d) == IF MwaitChanges(d) /\ ~MsrHas("xmm3") THEN Refused ELSE {d}

(* kvm_set_apic_base: 1 xAPIC, 2 x2APIC, 3 x2APIC without the enable bit *)
kvm_set_apic_base(d, host) ==
  LET old == msrs["apic_base"] IN
  IF d = 3 \/ (d = 2 /\ ~MsrHas("x2apic")) THEN Refused
  ELSE IF ~host /\ ((old = 2 /\ d = 1) \/ (old = 0 /\ d = 2)) THEN Refused
  ELSE {d}

kvm_set_msr_common(m, d, host) ==
  CASE m \in HostOnly -> SetHostOnly(d, host)
    [] m = "ucode_rev" -> IF host THEN {d} ELSE {msrs[m]}
    [] m = "perf_capabilities" -> SetPerf(d, host)
    [] m = "platform_info" -> SetPlatform(d, host)
    [] m = "misc_features" -> SetMiscFeatures(d)
    [] m = "hwcr" -> SetHwcr(d)
    [] m = "mcg_ctl" -> SetMcgCtl(d, host)
    [] m = "mci_ctl" -> SetMciCtl(d)
    [] m = "mci_status" -> SetMciStatus(d, host)
    [] m \in {"mcg_status", "power_ctl"} -> {d}
    [] m = "xss" -> SetXss(d, host)
    [] m = "tsc_adjust" -> SetTscAdjust(d)
    [] m \in {"osvw_length", "osvw_status"} -> SetOsvw(d)
    [] m = "poll_control" -> SetPoll(d)
    [] m = "steal_time" -> SetSteal(d)
    [] m = "misc_enable" -> SetMiscEnable(d)
    [] m = "apic_base" -> kvm_set_apic_base(d, host)

(* kvm_get_msr_common: whether a read succeeds *)
kvm_get_msr_common(m, host) ==
  CASE m \in {"smbase"} -> host
    [] m = "arch_capabilities" -> host \/ MsrHas("arch_capabilities")
    [] m = "perf_capabilities" -> host \/ MsrHas("pdcm")
    [] m = "mcg_ctl" -> host \/ MsrHas("mcg_ctl_p")
    [] m = "xss" -> host \/ MsrHas("xsaves")
    [] m \in {"osvw_length", "osvw_status"} -> MsrHas("osvw")
    [] m = "poll_control" -> MsrHas("poll_control")
    [] m = "steal_time" -> MsrHas("steal_time")
    [] OTHER -> TRUE

(* kvm_update_cpuid_runtime, when MWAIT changes *)
Updates(m, d) == m = "misc_enable" /\ MwaitChanges(d)
RuntimeCpuid(m, d) ==
  IF ~Updates(m, d) THEN cpuid ELSE IF d = 1 THEN cpuid \cup {"mwait"} ELSE cpuid \ {"mwait"}

-----------------------------------------------------------------------------
Write(m, d, host) ==
  /\ phase = "run" /\ m \in Msrs
  /\ \E v \in kvm_set_msr_common(m, d, host) : msrs' = [msrs EXCEPT ![m] = v]
  /\ cpuid' = RuntimeCpuid(m, d)
  /\ hwcr' = IF m = "hwcr" /\ ~host THEN d ELSE hwcr
  /\ UNCHANGED <<quirk, phase, saved, left, amd>>

(* KVM_GET_MSRS of every register that can be read, then a new VCPU with the same CPUID *)
MsrSave ==
  /\ phase = "run" /\ phase' = "restore"
  /\ saved' = msrs /\ left' = {m \in Msrs : kvm_get_msr_common(m, TRUE)}
  /\ msrs' = Fresh(Msrs) /\ cpuid' = cpuid \ {"mwait"}
  /\ UNCHANGED <<quirk, hwcr, amd>>

(* KVM_SET_MSRS, one of them at a time: it stops at the first that is refused *)
MsrRestore(m) ==
  /\ phase = "restore" /\ m \in left
  /\ IF kvm_set_msr_common(m, saved[m], TRUE) = Refused
     THEN phase' = "failed" /\ UNCHANGED <<msrs, cpuid, left>>
     ELSE /\ \E v \in kvm_set_msr_common(m, saved[m], TRUE) : msrs' = [msrs EXCEPT ![m] = v]
          /\ cpuid' = RuntimeCpuid(m, saved[m])
          /\ left' = left \ {m} /\ phase' = IF left = {m} THEN "done" ELSE phase
  /\ UNCHANGED <<quirk, saved, hwcr, amd>>

MsrNext ==
  \/ \E m \in Msrs, d \in MsrData, host \in BOOLEAN : Write(m, d, host)
  \/ MsrSave \/ \E m \in Msrs : MsrRestore(m)

MsrSpec == MsrInit /\ [][MsrNext]_msrVars
-----------------------------------------------------------------------------
(* Properties *)

\* Whatever the guest and the host have written, every register the host can
\* read is accepted when it is written to a new VCPU, in any order.
RestoreSucceeds == phase # "failed"

\* After that the guest reads what it read before, from every register it can
\* read, and its CPUID is the same.
RestoredIsSame ==
  phase = "done" => \A m \in Msrs : kvm_get_msr_common(m, FALSE) => msrs[m] = saved[m]

\* CPUID faulting is enabled only while the platform has it, although each of
\* the two registers is written on its own, by the guest and by the host.
FaultNeedsSupport ==
  (phase = "run" /\ {"misc_features", "platform_info"} \subseteq Msrs)
    => (msrs["misc_features"] = 1 => msrs["platform_info"] = 1)

\* Without the quirk the CPUID bit for MWAIT follows the register.
CpuidFollows ==
  (~quirk /\ "misc_enable" \in Msrs) => (MsrHas("mwait") <=> msrs["misc_enable"] = 1)

\* The APIC is never in x2APIC mode without being enabled, nor in a mode that
\* the guest's CPUID has not got, however the host and the guest move it.
ApicModes ==
  "apic_base" \in Msrs => msrs["apic_base"] # 3 /\ (msrs["apic_base"] = 2 => MsrHas("x2apic"))

-----------------------------------------------------------------------------
(***************************************************************************)
(* The checks of an MSR write (__kvm_set_msr, kvm/x86.c): the guest writes *)
(* base, entry point and SYSENTER registers with the address width its    *)
(* paging mode gives it, the vendor module loads them into the processor, *)
(* and user space reads them and writes them back, here or on the host it *)
(* migrates to.                                                            *)
(*                                                                         *)
(* An address has Bits bits: canonical at width w when the bits from w - 1 *)
(* up are equal. Four-level paging has width Bits - 2, five-level paging   *)
(* Bits - 1. The low half of TSC_AUX has Bits \div 2 bits. The registers do *)
(* not depend on each other: one of them is followed.                      *)
(***************************************************************************)

CONSTANTS
  Bits,
  MaxMigrations   \* bound on migrations
ASSUME MsrWriteAssumption == Bits \in Nat /\ Bits >= 4 /\ MaxMigrations \in Nat

Index == {"LSTAR", "SYSENTER_EIP", "TSC_AUX"}
Vendor == {"intel", "amd"}
WrmsrData == 0..(2^Bits - 1)
Half == 2^(Bits \div 2)
WrmsrNone == -1
Width(la57) == IF la57 THEN Bits - 1 ELSE Bits - 2

VARIABLES
  index,          \* the register
  wrmsrHost,           \* the processor: its vendor, its address width, and whether it has TSC_AUX
  model,          \* the processor the guest's CPUID claims
  rdtscp,         \* the guest's CPUID has RDTSCP or RDPID
  la57,           \* five-level paging is on: vcpu_virt_addr_bits
  wrmsrMsr,            \* the value the vendor module keeps
  image,          \* what user space read for a migration, or None
  wrmsrAsked,          \* ghost: what the guest last wrote with success
  wrote,          \* ghost: the paging mode in which the guest wrote it
  migrations,
  refused         \* ghost: user space could not write back what it had read

wrmsrVars == <<index, wrmsrHost, model, rdtscp, la57, wrmsrMsr, image, wrmsrAsked, wrote, migrations, refused>>

WrmsrHosts == [vendor : Vendor, width : {Width(FALSE), Width(TRUE)}, aux : BOOLEAN]
WrmsrInit ==
  /\ index \in Index /\ wrmsrHost \in WrmsrHosts /\ model \in Vendor /\ rdtscp \in BOOLEAN
  /\ rdtscp => wrmsrHost.aux
  /\ la57 = FALSE /\ wrmsrMsr = 0 /\ image = WrmsrNone /\ wrmsrAsked = 0
  /\ wrote = FALSE /\ migrations = 0 /\ refused = FALSE

-----------------------------------------------------------------------------
Canonical(d, w) == (d \div 2^(w - 1)) \in {0, 2^(Bits - w + 1) - 1}
is_noncanonical_address(d) == ~Canonical(d, Width(la57))
get_canonical(d, w) ==
  LET low == d % 2^w IN IF low < 2^(w - 1) THEN low ELSE low + (2^Bits - 2^w)

(* __kvm_set_msr: the value that reaches the vendor module, or None for an error *)
__kvm_set_msr(i, d, host_initiated) ==
  CASE i = "LSTAR" -> IF is_noncanonical_address(d) THEN WrmsrNone ELSE d
    [] i = "SYSENTER_EIP" -> get_canonical(d, Width(la57))
    [] i = "TSC_AUX" ->
         IF \/ ~wrmsrHost.aux
            \/ ~host_initiated /\ ~rdtscp
            \/ model = "intel" /\ d \div Half # 0
         THEN WrmsrNone ELSE d % Half

(* WRMSR of the guest; an error is a #GP *)
GuestWrite(d) ==
  LET v == __kvm_set_msr(index, d, FALSE) IN
  /\ v # WrmsrNone /\ wrmsrMsr' = v /\ wrmsrAsked' = d /\ wrote' = la57 /\ image' = WrmsrNone
  /\ UNCHANGED <<index, wrmsrHost, model, rdtscp, la57, migrations, refused>>

(* The guest leaves long mode to change its paging mode (external: kvm_set_cr4, modelled in KvmCregs); *)
(* five levels need a processor that has them.                                                         *)
SetLa57(on) ==
  /\ on # la57 /\ (on => wrmsrHost.width = Width(TRUE))
  /\ la57' = on /\ UNCHANGED <<index, wrmsrHost, model, rdtscp, wrmsrMsr, image, wrmsrAsked, wrote, migrations, refused>>

-----------------------------------------------------------------------------
(* User space reads the registers, restores CR4 first (KVM_SET_SREGS) and writes them on a host that has *)
(* what the guest was promised.                                                                         *)
WrmsrSave ==
  /\ image' = wrmsrMsr /\ migrations < MaxMigrations
  /\ UNCHANGED <<index, wrmsrHost, model, rdtscp, la57, wrmsrMsr, wrmsrAsked, wrote, migrations, refused>>
Migrate(h) ==
  /\ image # WrmsrNone /\ migrations < MaxMigrations
  /\ wrmsrHost.width = Width(TRUE) => h.width = Width(TRUE)
  /\ wrmsrHost.aux => h.aux
  /\ wrmsrHost' = h /\ migrations' = migrations + 1 /\ wrmsrMsr' = 0
  /\ UNCHANGED <<index, model, rdtscp, la57, image, wrmsrAsked, wrote, refused>>
WrmsrRestore ==
  /\ image # WrmsrNone /\ migrations > 0 /\ (index = "TSC_AUX" => wrmsrHost.aux)
  /\ LET v == __kvm_set_msr(index, image, TRUE) IN
     /\ wrmsrMsr' = IF v = WrmsrNone THEN wrmsrMsr ELSE v
     /\ refused' = (v = WrmsrNone /\ ~(index = "LSTAR" /\ wrote # la57))
  /\ image' = WrmsrNone
  /\ UNCHANGED <<index, wrmsrHost, model, rdtscp, la57, wrmsrAsked, wrote, migrations>>

WrmsrNext ==
  \/ \E d \in WrmsrData : GuestWrite(d)
  \/ \E on \in BOOLEAN : SetLa57(on)
  \/ WrmsrSave \/ \E h \in WrmsrHosts : Migrate(h)
  \/ WrmsrRestore
WrmsrSpec == WrmsrInit /\ [][WrmsrNext]_wrmsrVars

-----------------------------------------------------------------------------
(* Entering the guest checks the address registers against the processor's width and fails on others: *)
(* none that is not canonical ever reaches the vendor module, also after the guest changed its paging *)
(* mode and after a migration.                                                                        *)
EntryNeverFails == index \in {"LSTAR", "SYSENTER_EIP"} => Canonical(wrmsrMsr, wrmsrHost.width)

(* The upper half of TSC_AUX stays clear, which a write on an Intel model would refuse, and an Intel *)
(* model never has a write truncated in silence.                                                     *)
AuxFits ==
  index = "TSC_AUX" => /\ wrmsrMsr < Half
                       /\ model = "intel" => wrmsrAsked < Half

(* What user space reads from one host it can write on another one, of either vendor: also for a guest   *)
(* that may not write the register itself. Only an address the guest wrote in the other paging mode may *)
(* be refused.                                                                                           *)
RestoreAccepted == ~refused

-----------------------------------------------------------------------------
(***************************************************************************)
(* RDMSR and WRMSR of the guest (kvm/x86.c) against the filter that user   *)
(* space sets, which VCPUs read without a lock while it is replaced, and   *)
(* the accesses that are passed to user space because they were filtered,  *)
(* because the register is unknown, or because they fault.                 *)
(*                                                                         *)
(* Registers are numbers. Ranges of a filter end below the largest one:    *)
(* KVM computes their end modulo 2^32. Three registers are special: one of *)
(* the x2APIC's, one that KVM does not know, and the deadline of the TSC.  *)
(***************************************************************************)

CONSTANTS
  FilterVcpus,
  Registers,                      \* the registers the guest uses
  FilterX2Apic, Unknown, Deadline,      \* special ones of them
  Filters,                        \* what user space may set
  MaxFilters,                     \* bound on the filters set
  ignore_msrs_filter,
  UserMask,                       \* reasons passed to user space: "filter", "unknown", "inval"
  FilterNone

ASSUME FilterAssumption == MaxFilters \in Nat /\ ignore_msrs_filter \in BOOLEAN

FilterIdle == [msr |-> FilterNone, write |-> FALSE]
NotDone == [by |-> "nobody", filter |-> 0, acc |-> FilterIdle]

VARIABLES
  content,     \* the filters that were made, in order; number 0 is no filter
  filter,      \* kvm->arch.msr_filter
  filterFreed,       \* filters whose memory is gone
  wpc, filterOld,    \* the ioctl: its step, and the filter it replaces
  waits,       \* readers synchronize_srcu waits for
  reads,       \* filter a VCPU is reading, under srcu
  vpc, acc,    \* what each VCPU does: "guest", "lookup", "user"; and the access
  reason,      \* why user space was asked
  intercept,   \* the filter the VCPU's intercepts follow
  reqs,        \* KVM_REQ_MSR_FILTER_CHANGED
  done         \* the access that has just taken effect

filterVars == <<content, filter, filterFreed, wpc, filterOld, waits, reads, vpc, acc, reason, intercept, reqs, done>>

FilterInit ==
  /\ content = <<>> /\ filter = 0 /\ filterFreed = {} /\ wpc = "idle" /\ filterOld = 0 /\ waits = {}
  /\ reads = [v \in FilterVcpus |-> FilterNone] /\ vpc = [v \in FilterVcpus |-> "guest"] /\ acc = [v \in FilterVcpus |-> FilterIdle]
  /\ reason = [v \in FilterVcpus |-> "no"] /\ intercept = [v \in FilterVcpus |-> 0] /\ reqs = {}
  /\ done = NotDone

-----------------------------------------------------------------------------
(* kvm_msr_allowed: the first range of the right kind that holds the register decides *)
Type(a) == IF a.write THEN "write" ELSE "read"
Holds(r, i) == i >= r.base /\ i < r.base + r.n
Matches(r, a) == Holds(r, a.msr) /\ Type(a) \in r.flags
kvm_msr_allowed(f, a) ==
  IF a.msr = FilterX2Apic \/ f = 0 THEN TRUE
  ELSE LET ranges == content[f].ranges
           hits == {k \in 1 .. Len(ranges) : Matches(ranges[k], a)} IN
       IF hits = {} THEN content[f].default_allow
       ELSE LET k == CHOOSE k \in hits : \A j \in hits : k <= j
            IN  (a.msr - ranges[k].base) \in ranges[k].bitmap

-----------------------------------------------------------------------------
(* kvm_vm_ioctl_set_msr_filter, under kvm->lock; the ranges are checked and copied first *)
kvm_add_msr_filter(f) == \A k \in 1 .. Len(f.ranges) : f.ranges[k].n > 0 => f.ranges[k].flags # {}
Prepare ==
  /\ done' = NotDone
  /\ wpc = "idle" /\ Len(content) < MaxFilters
  /\ \E f \in Filters :
       /\ f.default_allow \/ \E k \in 1 .. Len(f.ranges) : f.ranges[k].n > 0
       /\ kvm_add_msr_filter(f)
       /\ content' = Append(content, f)
  /\ wpc' = "assign"
  /\ UNCHANGED <<filter, filterFreed, filterOld, waits, reads, vpc, acc, reason, intercept, reqs>>
Assign ==
  /\ done' = NotDone
  /\ wpc = "assign" /\ filterOld' = filter /\ filter' = Len(content) /\ wpc' = "sync"
  /\ waits' = {v \in FilterVcpus : reads[v] # FilterNone}
  /\ UNCHANGED <<content, filterFreed, reads, vpc, acc, reason, intercept, reqs>>
synchronize_srcu ==
  /\ done' = NotDone
  /\ wpc = "sync" /\ waits = {} /\ wpc' = "free"
  /\ UNCHANGED <<content, filter, filterFreed, filterOld, waits, reads, vpc, acc, reason, intercept, reqs>>
kvm_free_msr_filter ==
  /\ done' = NotDone
  /\ wpc = "free" /\ filterFreed' = filterFreed \cup ({filterOld} \ {0}) /\ wpc' = "request"
  /\ UNCHANGED <<content, filter, filterOld, waits, reads, vpc, acc, reason, intercept, reqs>>
Request ==
  /\ done' = NotDone
  /\ wpc = "request" /\ reqs' = FilterVcpus /\ wpc' = "idle"
  /\ UNCHANGED <<content, filter, filterFreed, filterOld, waits, reads, vpc, acc, reason, intercept>>

-----------------------------------------------------------------------------
(* vcpu_enter_guest: the intercepts are set up from the filter there is *)
FilterChanged(v) ==
  /\ done' = NotDone
  /\ v \in reqs /\ vpc[v] = "guest" /\ reqs' = reqs \ {v} /\ intercept' = [intercept EXCEPT ![v] = filter]
  /\ UNCHANGED <<content, filter, filterFreed, wpc, filterOld, waits, reads, vpc, acc, reason>>

Finish(v, how, f) ==
  /\ vpc' = [vpc EXCEPT ![v] = "guest"] /\ acc' = [acc EXCEPT ![v] = FilterIdle]
  /\ done' = [by |-> how, filter |-> f, acc |-> acc[v]]
(* handle_fastpath_set_msr_irqoff: the deadline is set without a look at the filter *)
handle_fastpath_set_msr_irqoff(v) ==
  /\ vpc[v] = "guest"
  /\ \E a \in {[msr |-> i, write |-> TRUE] : i \in {FilterX2Apic, Deadline} \cap Registers} :
       done' = [by |-> "fast", filter |-> filter, acc |-> a]
  /\ UNCHANGED <<content, filter, filterFreed, wpc, filterOld, waits, reads, vpc, acc, reason, intercept, reqs>>
(* kvm_emulate_rdmsr, kvm_emulate_wrmsr: the lookup ... *)
Access(v) ==
  /\ done' = NotDone
  /\ vpc[v] = "guest" /\ vpc' = [vpc EXCEPT ![v] = "lookup"]
  /\ \E i \in Registers, w \in BOOLEAN : acc' = [acc EXCEPT ![v] = [msr |-> i, write |-> w]]
  /\ reads' = [reads EXCEPT ![v] = filter]
  /\ UNCHANGED <<content, filter, filterFreed, wpc, filterOld, waits, reason, intercept, reqs>>

(* kvm_msr_ignored_check: what KVM does not know may be ignored *)
kvm_msr_ignored_check(r) == IF r = "unknown" /\ ignore_msrs_filter THEN "ok" ELSE r
(* ... and what comes of it: the vendor's code may refuse the value *)
Results(v) ==
  IF ~kvm_msr_allowed(reads[v], acc[v]) THEN {"filter"}
  ELSE IF acc[v].msr = Unknown THEN {kvm_msr_ignored_check("unknown")}
  ELSE {"ok", "inval"}
(* kvm_msr_user_space *)
Decide(v) ==
  /\ vpc[v] = "lookup"
  /\ reads' = [reads EXCEPT ![v] = FilterNone] /\ waits' = waits \ {v}
  /\ \E r \in Results(v) :
       \/ r = "ok" /\ Finish(v, "kernel", reads[v]) /\ UNCHANGED reason
       \/ r # "ok" /\ r \notin UserMask /\ Finish(v, "fault", reads[v]) /\ UNCHANGED reason
       \/ /\ r \in UserMask /\ vpc' = [vpc EXCEPT ![v] = "user"] /\ reason' = [reason EXCEPT ![v] = r]
          /\ UNCHANGED acc /\ done' = NotDone
  /\ UNCHANGED <<content, filter, filterFreed, wpc, filterOld, intercept, reqs>>
(* complete_emulated_rdmsr, complete_emulated_wrmsr *)
Complete(v) ==
  /\ vpc[v] = "user" /\ reason' = [reason EXCEPT ![v] = "no"]
  /\ \E how \in {"user", "fault"} : Finish(v, how, filter)
  /\ UNCHANGED <<content, filter, filterFreed, wpc, filterOld, waits, reads, intercept, reqs>>

Ioctl == Assign \/ synchronize_srcu \/ kvm_free_msr_filter \/ Request
FilterNext ==
  \/ Prepare \/ Ioctl
  \/ \E v \in FilterVcpus : \/ FilterChanged(v) \/ Access(v) \/ Decide(v) \/ Complete(v)
                            \/ handle_fastpath_set_msr_irqoff(v)

FilterSpec == FilterInit /\ [][FilterNext]_filterVars /\ WF_filterVars(Ioctl) /\ \A v \in FilterVcpus : WF_filterVars(Decide(v))
-----------------------------------------------------------------------------
(* Properties *)

\* A VCPU never reads a filter whose memory was freed, however often the
\* filter is replaced while it looks.
NoUseAfterFree == \A v \in FilterVcpus : reads[v] # FilterNone => reads[v] \notin filterFreed

\* When no ioctl runs, the filter in use is the only one in memory.
OneFilterKept == wpc = "idle" => (1 .. Len(content)) \ filterFreed \subseteq {filter} /\ filter \notin filterFreed

\* Once the ioctl has returned the intercepts of a VCPU follow the new filter,
\* or it has a request to set them up before it runs the guest.
InterceptsFollow == wpc = "idle" => \A v \in FilterVcpus : intercept[v] = filter \/ v \in reqs

\* The documented decision: the first range of the access's kind that holds
\* the register, or the default.
Denied(f, a) ==
  /\ f # 0 /\ a.msr # FilterX2Apic
  /\ LET R == content[f].ranges
         In(k) == a.msr \in R[k].base .. R[k].base + R[k].n - 1 /\ Type(a) \in R[k].flags
     IN  \/ \E k \in 1 .. Len(R) : /\ In(k) /\ \A j \in 1 .. k - 1 : ~In(j)
                                   /\ (a.msr - R[k].base) \notin R[k].bitmap
         \/ ~content[f].default_allow /\ \A k \in 1 .. Len(R) : ~In(k)

\* What the filter denies KVM does not do for the guest: only user space may.
\* The fast path of the deadline is left out.
FilteredIsRefused ==
  done.by = "kernel" => ~Denied(done.filter, done.acc)

\* The ioctl ends although VCPUs keep looking at the filter.
IoctlEnds == wpc # "idle" ~> wpc = "idle"

-----------------------------------------------------------------------------
(***************************************************************************)
(* The three lists of registers that KVM tells user space of (kvm/x86.c):  *)
(* those of the processor, those it emulates, and those that describe      *)
(* features. They are global, made anew each time a vendor module is       *)
(* loaded, and read in two calls: the first says how many there are.       *)
(*                                                                         *)
(* A register is a kind and, in an array of registers, a number. Which     *)
(* ones the processor has, its bugs and what the vendor module supports    *)
(* are external. The kinds stand for the entries of the three tables that  *)
(* are treated alike.                                                      *)
(***************************************************************************)

CONSTANTS
  ListHosts,              \* processors: [regs, ranges, counters, caps, bugs, rtm, l1d_flush, archcap]
  Params,             \* how a vendor module may be loaded: [caps, emulates, features]
  MaxGeneric,         \* INTEL_PMC_MAX_GENERIC
  ignore_msrs_list,
  ListMaxLoads            \* bound on the loads of a vendor module

ASSUME ListAssumption == MaxGeneric \in Nat /\ ListMaxLoads \in Nat /\ ignore_msrs_list \in BOOLEAN

One(k) == [kind |-> k, n |-> 0]
Array(k, len) == [i \in 1 .. len |-> [kind |-> k, n |-> i - 1]]
msrs_to_save_all ==
  <<One("sysenter"), One("bndcfgs"), One("tsc_aux"), One("umwait"), One("rtit_ctl"), One("rtit_cr3"),
    One("rtit_out")>> \o Array("rtit_addr", 4) \o Array("perfctr", 3) \o Array("eventsel", 3)
emulated_msrs_all == <<One("kvm_clock"), One("smbase"), One("vmx_true"), One("arch_cap"), One("ucode")>>
msr_based_features_all == <<One("vmx_true"), One("vmx_ctls"), One("decfg"), One("ucode"), One("arch_cap")>>

VARIABLES
  listHost, par,                        \* the processor; the loaded module, or NotLoaded
  msrs_to_save, emulated_msrs, msr_based_features,
  listLoads, open,                      \* loads so far; user space has /dev/kvm open
  listAsked,                            \* the list user space asks for: "none", "index", "feature"
  room,                             \* entries its buffer has
  got                               \* what the last call returned: [r, nmsrs, indices, values]

listVars == <<listHost, par, msrs_to_save, emulated_msrs, msr_based_features, listLoads, open, listAsked, room, got>>

NotLoaded == [caps |-> {}, emulates |-> {}, features |-> {"none"}]
Nothing == [r |-> "none", nmsrs |-> 0, indices |-> <<>>, values |-> <<>>]
ListInit ==
  /\ listHost \in ListHosts /\ par = NotLoaded /\ listLoads = 0 /\ open = FALSE
  /\ msrs_to_save = <<>> /\ emulated_msrs = <<>> /\ msr_based_features = <<>>
  /\ listAsked = "none" /\ room = 0 /\ got = Nothing

-----------------------------------------------------------------------------
(* kvm_init_msr_list: what of the tables this processor and this module support *)
Smaller(a, b) == IF a < b THEN a ELSE b
ListHas(p, c) == c \in p.caps
Exposed(m, p) ==
  CASE m.kind = "bndcfgs" -> ListHas(p, "mpx")
    [] m.kind = "tsc_aux" -> ListHas(p, "rdtscp") \/ ListHas(p, "rdpid")
    [] m.kind = "umwait" -> ListHas(p, "waitpkg")
    [] m.kind = "rtit_ctl" -> ListHas(p, "pt")
    [] m.kind = "rtit_cr3" -> ListHas(p, "pt") /\ "cr3_filtering" \in listHost.caps
    [] m.kind = "rtit_out" -> ListHas(p, "pt") /\ {"topa", "single_range"} \cap listHost.caps # {}
    [] m.kind = "rtit_addr" -> ListHas(p, "pt") /\ m.n < listHost.ranges * 2
    [] m.kind \in {"perfctr", "eventsel"} -> m.n < Smaller(MaxGeneric, listHost.counters)
    [] OTHER -> TRUE

(* kvm_get_arch_capabilities: the processor's bits, with those KVM answers for *)
kvm_get_arch_capabilities ==
  ((listHost.archcap \cup {"PSCHANGE_MC_NO"}
    \cup (IF listHost.l1d_flush = "never" THEN {} ELSE {"SKIP_VMENTRY_L1DFLUSH"})
    \cup (IF "MELTDOWN" \in listHost.bugs THEN {} ELSE {"RDCL_NO"})
    \cup (IF "SSB" \in listHost.bugs THEN {} ELSE {"SSB_NO"})
    \cup (IF "MDS" \in listHost.bugs THEN {} ELSE {"MDS_NO"}))
   \ (IF ~listHost.rtm THEN {"TAA_NO"} ELSE {}))
  \cup (IF listHost.rtm /\ "TAA" \notin listHost.bugs THEN {"TAA_NO"} ELSE {})

Known(m, p) == m.kind \in {"arch_cap", "ucode"} \cup p.features
kvm_get_msr_feature(m) == IF m.kind = "arch_cap" THEN kvm_get_arch_capabilities ELSE {"host"}

ListsOf(p, save, emul, feat) ==
  /\ msrs_to_save' = save \o SelectSeq(msrs_to_save_all, LAMBDA m : m.kind \in listHost.regs /\ Exposed(m, p))
  /\ emulated_msrs' = emul \o SelectSeq(emulated_msrs_all, LAMBDA m : m.kind \in p.emulates)
  /\ msr_based_features' = feat \o SelectSeq(msr_based_features_all, LAMBDA m : Known(m, p))
kvm_init_msr_list(p) == ListsOf(p, <<>>, <<>>, <<>>)

ListLoad(p) ==
  /\ par = NotLoaded /\ listLoads < ListMaxLoads /\ par' = p /\ listLoads' = listLoads + 1
  /\ kvm_init_msr_list(p)
  /\ UNCHANGED <<listHost, open, listAsked, room, got>>
(* the device is the vendor module's: while it is open the module stays *)
ListUnload ==
  /\ par # NotLoaded /\ ~open /\ par' = NotLoaded
  /\ UNCHANGED <<listHost, msrs_to_save, emulated_msrs, msr_based_features, listLoads, open, listAsked, room, got>>
Open ==
  /\ par # NotLoaded /\ ~open /\ open' = TRUE
  /\ \E a \in {"index", "feature"} : listAsked' = a
  /\ room' = 0 /\ got' = Nothing
  /\ UNCHANGED <<listHost, par, msrs_to_save, emulated_msrs, msr_based_features, listLoads>>
ListClose ==
  /\ open /\ open' = FALSE /\ listAsked' = "none" /\ room' = 0 /\ got' = Nothing
  /\ UNCHANGED <<listHost, par, msrs_to_save, emulated_msrs, msr_based_features, listLoads>>

-----------------------------------------------------------------------------
(* KVM_GET_MSR_INDEX_LIST and KVM_GET_MSR_FEATURE_INDEX_LIST *)
IndexList == msrs_to_save \o emulated_msrs
Answer(list) ==
  IF room < Len(list) THEN [r |-> "E2BIG", nmsrs |-> Len(list), indices |-> <<>>, values |-> <<>>]
  ELSE [r |-> "ok", nmsrs |-> Len(list), indices |-> list, values |-> <<>>]
GetList ==
  /\ open /\ got.r \in {"none", "resized"}
  /\ got' = Answer(IF listAsked = "index" THEN IndexList ELSE msr_based_features)
  /\ UNCHANGED <<listHost, par, msrs_to_save, emulated_msrs, msr_based_features, listLoads, open, listAsked, room>>
(* a copy to or from user space fails *)
GetListFaults ==
  /\ open /\ got.r \in {"none", "resized"} /\ got' = [Nothing EXCEPT !.r = "EFAULT"]
  /\ UNCHANGED <<listHost, par, msrs_to_save, emulated_msrs, msr_based_features, listLoads, open, listAsked, room>>
(* user space makes room for as many as it was told *)
Resize ==
  /\ got.r = "E2BIG" /\ room = 0 /\ room' = got.nmsrs /\ got' = [Nothing EXCEPT !.r = "resized"]
  /\ UNCHANGED <<listHost, par, msrs_to_save, emulated_msrs, msr_based_features, listLoads, open, listAsked>>

-----------------------------------------------------------------------------
(* KVM_GET_MSRS on /dev/kvm: do_get_msr_feature of each in turn, up to the first that fails. The entry *)
(* on the stack has no value when the register is unknown: the one returned then is arbitrary.         *)
Garbage == {{"zero"}, {"stack"}}
Succeeds(m) == Known(m, par) \/ ignore_msrs_list
__msr_io(ms) ==
  CHOOSE k \in 0 .. Len(ms) :
    (\A i \in 1 .. k : Succeeds(ms[i])) /\ (k = Len(ms) \/ ~Succeeds(ms[k + 1]))
GetFeatures ==
  /\ open /\ got.r \in {"none", "ok"} /\ got.values = <<>>
  /\ \E ms \in {got.indices} \cup {<<m>> : m \in {One("decfg"), One("arch_cap"), One("unknown")}} :
       LET n == __msr_io(ms) IN
       /\ listAsked = "feature" /\ Len(ms) > 0
       /\ \E last \in Garbage :
            got' = [r |-> "read", nmsrs |-> n, indices |-> ms,
                    values |-> [i \in 1 .. n |-> IF Known(ms[i], par) THEN kvm_get_msr_feature(ms[i]) ELSE last]]
  /\ UNCHANGED <<listHost, par, msrs_to_save, emulated_msrs, msr_based_features, listLoads, open, listAsked, room>>

ListNext ==
  \/ \E p \in Params : ListLoad(p)
  \/ ListUnload \/ Open \/ ListClose \/ GetList \/ GetListFaults \/ Resize \/ GetFeatures
ListSpec == ListInit /\ [][ListNext]_listVars

-----------------------------------------------------------------------------
(* What the second call returns is complete, names no register twice and nothing of a module that was  *)
(* loaded before: the counts start from zero at every load.                                            *)
AnswerIsWhole ==
  got.r = "ok" /\ listAsked = "index" =>
    /\ IsInjective(got.indices)
    /\ \A m \in ToSet(emulated_msrs_all) : m \in ToSet(got.indices) <=> m.kind \in par.emulates
    /\ Len(emulated_msrs) <= Len(emulated_msrs_all)

(* The room that the first call asks for is enough in the second. *)
SecondCallFits == room > 0 => got.r # "E2BIG"

(* Registers that only mean something together are listed together: the two bounds of an address range *)
(* of processor trace, and a performance counter with its event selector.                              *)
PairsTogether ==
  got.r = "ok" /\ listAsked = "index" =>
    /\ \A i \in 0 .. 1 : [kind |-> "rtit_addr", n |-> 2 * i] \in ToSet(got.indices)
                            <=> [kind |-> "rtit_addr", n |-> 2 * i + 1] \in ToSet(got.indices)
    /\ {"perfctr", "eventsel"} \subseteq listHost.regs =>
         \A i \in 0 .. 2 : [kind |-> "perfctr", n |-> i] \in ToSet(got.indices)
                              <=> [kind |-> "eventsel", n |-> i] \in ToSet(got.indices)

(* A feature register that was listed can be read: one call reads the whole list, although it stops at *)
(* the first failure.                                                                                  *)
ListedCanBeRead ==
  got.r = "read" /\ ~ignore_msrs_list /\ got.indices = msr_based_features => got.nmsrs = Len(got.indices)

(* The guest is told that it need not work around a bug only where the processor does not have it, and *)
(* never that transactions are safe where there are none.                                              *)
Immunity == [RDCL_NO |-> "MELTDOWN", SSB_NO |-> "SSB", MDS_NO |-> "MDS", TAA_NO |-> "TAA"]
ImmunityIsReal ==
  \A i \in DOMAIN got.values :
    got.indices[i].kind = "arch_cap" =>
      /\ \A b \in DOMAIN Immunity : b \in got.values[i] => Immunity[b] \notin listHost.bugs
      /\ "TAA_NO" \in got.values[i] => listHost.rtm
=============================================================================
