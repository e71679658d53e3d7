------------------------------- MODULE KvmTsc -------------------------------
(***************************************************************************)
(* The time stamp counter of x86.c in four parts, each with state and      *)
(* actions of its own: the scale computation, the rates of a virtual CPU,  *)
(* writes of the TSC by several virtual CPUs, and changes of a CPU's       *)
(* frequency.                                                              *)
(***************************************************************************)
EXTENDS Integers, FiniteSets, Naturals

(***************************************************************************)
(* kvm_get_time_scale (kvm/x86.c): the shift and the multiplier with which *)
(* pvclock_scale_delta turns ticks of base_hz into ticks of scaled_hz.     *)
(* The program's 32-bit word has W bits here; its loops are the steps.     *)
(***************************************************************************)

CONSTANTS
  ScaleW,       \* bits of a word
  Fixed,   \* the frequency that is not the caller's: NSEC_PER_SEC
  MaxHz,   \* the largest frequency a caller passes, in two words
  Deltas   \* the intervals that are converted

ASSUME WAssumption == ScaleW \in Nat /\ ScaleW > 1 /\ Fixed \in 1..(2^ScaleW - 1) /\ MaxHz \in 1..(4^ScaleW - 1)

VARIABLES
  scaled_hz, base_hz, \* the arguments
  tps64, scaled64, shift, multiplier, scalePc

scaleVars == <<scaled_hz, base_hz, tps64, scaled64, shift, multiplier, scalePc>>

Word == 2^ScaleW
TopBit == 2^(ScaleW - 1)
High(x) == x >= Word
(* the shift is returned in 8 bits *)
S8(x) == ((x + 128) % 256) - 128

(* The callers: nanoseconds from a CPU's frequency (kvm_guest_time_update, get_kvmclock_ns), *)
(* cycles from nanoseconds (kvm_set_tsc_khz); both return early when the frequency is 0.      *)
FromHz == 1
ScaleInit ==
  /\ \/ scaled_hz = Fixed /\ base_hz \in FromHz..MaxHz
     \/ base_hz = Fixed /\ scaled_hz \in FromHz..MaxHz
  /\ tps64 = base_hz /\ scaled64 = scaled_hz
  /\ shift = 0 /\ multiplier = 0 /\ scalePc = "down"

(* while (tps64 > scaled64*2 || tps64 & 0xffffffff00000000) *)
TooFast == tps64 > scaled64 * 2 \/ High(tps64)
ShiftDown ==
  /\ scalePc = "down" /\ TooFast
  /\ tps64' = tps64 \div 2 /\ shift' = S8(shift - 1)
  /\ UNCHANGED <<scaled_hz, base_hz, scaled64, multiplier, scalePc>>

(* tps32 = (uint32_t)tps64 *)
Narrow ==
  /\ scalePc = "down" /\ ~TooFast
  /\ tps64' = tps64 % Word /\ scalePc' = "up"
  /\ UNCHANGED <<scaled_hz, base_hz, scaled64, shift, multiplier>>

(* while (tps32 <= scaled64 || scaled64 & 0xffffffff00000000) *)
TooSlow == tps64 <= scaled64 \/ High(scaled64)
HalveScaled == High(scaled64) \/ tps64 >= TopBit
Shifted == S8(shift + 1)
ShiftUp ==
  /\ scalePc = "up" /\ TooSlow
  /\ IF HalveScaled
     THEN scaled64' = scaled64 \div 2 /\ tps64' = tps64
     ELSE tps64' = (tps64 * 2) % Word /\ scaled64' = scaled64
  /\ shift' = Shifted
  /\ UNCHANGED <<scaled_hz, base_hz, multiplier, scalePc>>

(* div_frac: scaled64 << 32 divided by tps32, a quotient of one word *)
Divide ==
  /\ scalePc = "up" /\ ~TooSlow
  /\ multiplier' = (scaled64 * Word) \div tps64
  /\ scalePc' = "done"
  /\ UNCHANGED <<scaled_hz, base_hz, tps64, scaled64, shift>>

Done == scalePc = "done" /\ UNCHANGED scaleVars
ScaleNext == ShiftDown \/ Narrow \/ ShiftUp \/ Divide \/ Done
ScaleSpec == ScaleInit /\ [][ScaleNext]_scaleVars /\ WF_scaleVars(ShiftDown \/ Narrow \/ ShiftUp \/ Divide)

(* pvclock_scale_delta *)
pvclock_scale_delta(delta) ==
  ((IF shift < 0 THEN delta \div 2^(-shift) ELSE delta * 2^shift) * multiplier) \div Word

-----------------------------------------------------------------------------
(* The state has its types. *)
ScaleTypeOK ==
  /\ tps64 \in 0..(4^ScaleW - 1) /\ scaled64 \in 0..(4^ScaleW - 1) /\ shift \in -(2*ScaleW)..(2*ScaleW)
  /\ scalePc \in {"down", "up", "done"}

(* The division never faults and its result is one word: the divl of div_frac traps on a zero *)
(* divisor and on a quotient that does not fit.                                               *)
DivisionFits ==
  /\ scalePc = "up" /\ ~TooSlow => tps64 > 0 /\ scaled64 < tps64
  /\ scalePc = "done" => multiplier < Word

(* The conversion differs from the exact one by no more than what the bits shifted out of the *)
(* interval, of the frequencies and of the multiplier are worth.                               *)
CloseToExact ==
  scalePc = "done" =>
    \A delta \in Deltas :
      LET got == pvclock_scale_delta(delta)
          lost == IF shift < 0 THEN 2^(-shift) ELSE 1
          slack == delta \div base_hz + (delta * scaled_hz) \div (base_hz * (TopBit \div 2)) + 2
      IN /\ got * base_hz <= delta * scaled_hz + slack * base_hz
         /\ delta * scaled_hz <= (got + slack + 1) * base_hz + lost * scaled_hz

(* The loops end, for every frequency a caller can pass. *)
Terminates == <>(scalePc = "done")

-----------------------------------------------------------------------------
(***************************************************************************)
(* The rate of a virtual CPU's TSC (kvm/x86.c): KVM_SET_TSC_KHZ,           *)
(* kvm_set_tsc_khz, and the offset and multiplier the hardware applies,    *)
(* also while a nested guest (L2) runs with its own on top.                *)
(* A ratio has FracBits bits of fraction.                                  *)
(***************************************************************************)

CONSTANTS
  FracBits,    \* kvm_tsc_scaling_ratio_frac_bits
  MaxRatio,    \* kvm_max_tsc_scaling_ratio
  HasControl,  \* kvm_has_tsc_control
  TscKhz,      \* tsc_khz of the host; 0 if calibration failed
  Tolerance,   \* tsc_tolerance_ppm, as parts of 100 here
  UserKhz,     \* what userspace asks for
  Offsets,     \* offsets of the TSC, of L1 and of L2
  L2Ratios,    \* multipliers L1 gives L2
  HostTscs     \* counter values the guest's is compared at

ASSUME RateAssumption ==
  /\ FracBits \in Nat /\ TscKhz \in Nat /\ Tolerance \in 0..99
  /\ UserKhz \subseteq Nat /\ Offsets \subseteq Int /\ HostTscs \subseteq Nat
  /\ MaxRatio \in Nat /\ L2Ratios \subseteq 1..MaxRatio

Default == 2^FracBits

VARIABLES
  l1Ratio, l1Offset, \* l1_tsc_scaling_ratio, l1_tsc_offset
  ratio, rateOffset,     \* tsc_scaling_ratio, tsc_offset: what the hardware has
  l2,                \* the nested guest that runs: its multiplier and its offset
  virtualKhz,        \* virtual_tsc_khz
  catchup,           \* tsc_always_catchup
  answer             \* of the last KVM_SET_TSC_KHZ

rateVars == <<l1Ratio, l1Offset, ratio, rateOffset, l2, virtualKhz, catchup, answer>>

NoL2 == [runs |-> FALSE, ratio |-> Default, offset |-> 0]

Scale(r, x) == (x * r) \div Default
(* mul_s64_u64_shr scales the magnitude *)
ScaleSigned(r, x) == IF x < 0 THEN -Scale(r, -x) ELSE Scale(r, x)
kvm_scale_tsc(tsc, r) == IF r = Default THEN tsc ELSE Scale(r, tsc)
kvm_read_l1_tsc_rate(host) == l1Offset + kvm_scale_tsc(host, l1Ratio)

kvm_calc_nested_tsc_offset(l1, l2off, l2mult) ==
  (IF l2mult = Default THEN l1 ELSE ScaleSigned(l2mult, l1)) + l2off
kvm_calc_nested_tsc_multiplier(l1, l2mult) == IF l2mult # Default THEN Scale(l2mult, l1) ELSE l1

(* kvm_vcpu_write_tsc_multiplier, kvm_vcpu_write_tsc_offset: what the hardware gets *)
HwRatio(r) == IF l2.runs THEN kvm_calc_nested_tsc_multiplier(r, l2.ratio) ELSE r
HwOffset(o) == IF l2.runs THEN kvm_calc_nested_tsc_offset(o, l2.offset, l2.ratio) ELSE o

-----------------------------------------------------------------------------
adjust_tsc_khz(khz, ppm) == (khz * (100 + ppm)) \div 100
WithinHigh(khz) == khz <= adjust_tsc_khz(TscKhz, Tolerance)
WithinTolerance(khz) ==
  khz >= adjust_tsc_khz(TscKhz, -Tolerance) /\ khz <= adjust_tsc_khz(TscKhz, Tolerance)
RatioFor(khz) == (Default * khz) \div TscKhz
InRange(r) == r # 0 /\ r < MaxRatio

(* kvm_max_guest_tsc_khz, from kvm_arch_hardware_setup *)
kvm_max_guest_tsc_khz == Scale(MaxRatio, TscKhz)

(* kvm_set_tsc_khz and set_tsc_khz *)
kvm_set_tsc_khz(khz) ==
  LET Multiplier(r) == l1Ratio' = r /\ ratio' = HwRatio(r)
      KeepMultiplier == UNCHANGED <<l1Ratio, ratio>>
  IN \/ /\ khz = 0
        /\ Multiplier(Default) /\ answer' = "EINVAL" /\ UNCHANGED <<virtualKhz, catchup>>
     \/ /\ khz # 0 /\ virtualKhz' = khz
        /\ \/ /\ WithinTolerance(khz)
              /\ Multiplier(Default) /\ answer' = "ok" /\ UNCHANGED catchup
           \/ /\ ~WithinTolerance(khz) /\ ~HasControl /\ KeepMultiplier
              /\ IF khz > TscKhz THEN catchup' = TRUE /\ answer' = "ok"
                                 ELSE catchup' = catchup /\ answer' = "EINVAL"
           \/ /\ ~WithinTolerance(khz) /\ HasControl /\ UNCHANGED catchup
              /\ IF InRange(RatioFor(khz)) THEN Multiplier(RatioFor(khz)) /\ answer' = "ok"
                                           ELSE KeepMultiplier /\ answer' = "EINVAL"
  /\ UNCHANGED <<l1Offset, rateOffset, l2>>

(* kvm_arch_vcpu_create: a new virtual CPU has the host's rate *)
RateInit ==
  /\ l1Ratio = Default /\ ratio = Default /\ l1Offset = 0 /\ rateOffset = 0 /\ l2 = NoL2
  /\ virtualKhz = TscKhz /\ catchup = FALSE /\ answer = IF TscKhz = 0 THEN "EINVAL" ELSE "ok"

(* the ioctl KVM_SET_TSC_KHZ *)
SetTscKhz(u) ==
  IF HasControl /\ u >= kvm_max_guest_tsc_khz
  THEN /\ answer' = "EINVAL"
       /\ UNCHANGED <<l1Ratio, l1Offset, ratio, rateOffset, l2, virtualKhz, catchup>>
  ELSE kvm_set_tsc_khz(IF u = 0 THEN TscKhz ELSE u)

(* kvm_vcpu_write_tsc_offset *)
kvm_vcpu_write_tsc_offset(o) ==
  /\ l1Offset' = o /\ rateOffset' = HwOffset(o)
  /\ UNCHANGED <<l1Ratio, ratio, l2, virtualKhz, catchup, answer>>

(* nested entry and exit (nested.c) *)
EnterL2(r, o) ==
  /\ ~l2.runs
  /\ l2' = [runs |-> TRUE, ratio |-> r, offset |-> o]
  /\ ratio' = kvm_calc_nested_tsc_multiplier(l1Ratio, r)
  /\ rateOffset' = kvm_calc_nested_tsc_offset(l1Offset, o, r)
  /\ UNCHANGED <<l1Ratio, l1Offset, virtualKhz, catchup, answer>>
ExitL2 ==
  /\ l2.runs /\ l2' = NoL2
  /\ ratio' = l1Ratio /\ rateOffset' = l1Offset
  /\ UNCHANGED <<l1Ratio, l1Offset, virtualKhz, catchup, answer>>

RateNext ==
  \/ \E u \in UserKhz : SetTscKhz(u)
  \/ \E o \in Offsets : kvm_vcpu_write_tsc_offset(o)
  \/ \E r \in L2Ratios \cup {Default}, o \in Offsets : EnterL2(r, o)
  \/ ExitL2
RateSpec == RateInit /\ [][RateNext]_rateVars

-----------------------------------------------------------------------------
(* The state has its types; the multiplier of L1 is never 0, with which its TSC would stand *)
(* still, and always one the hardware has.                                                   *)
RateTypeOK ==
  /\ l1Ratio \in 1..(MaxRatio - 1) \cup {Default} /\ ratio \in Nat
  /\ l1Offset \in Int /\ rateOffset \in Int /\ catchup \in BOOLEAN /\ answer \in {"ok", "EINVAL"}

(* When the rate was accepted, the virtual TSC runs at it: within the tolerance or the last *)
(* place of the ratio, or it is slower and caught up at each entry.                           *)
RunsAtRequestedRate ==
  answer = "ok" =>
    LET runs == kvm_scale_tsc(TscKhz, l1Ratio) IN
    \/ runs <= virtualKhz /\ virtualKhz - runs <= (TscKhz \div Default) + 1
    \/ l1Ratio = Default /\ (virtualKhz - TscKhz) * 100 \in -(Tolerance * TscKhz)..(Tolerance * TscKhz)
    \/ ~HasControl /\ catchup /\ runs <= virtualKhz

(* A nested guest that runs while the offset or the rate of its host is changed sees what its *)
(* own multiplier and offset make of L1's TSC, to the rounding of the two products.            *)
L2SeesScaledL1 ==
  \A host \in HostTscs :
    LET hw == rateOffset + kvm_scale_tsc(host, ratio)
        expected == l2.offset + kvm_scale_tsc(kvm_read_l1_tsc_rate(host), l2.ratio)
    IN hw - expected \in -(3 + host \div Default + l2.ratio \div Default)
                         ..(3 + host \div Default + l2.ratio \div Default)

-----------------------------------------------------------------------------
(***************************************************************************)
(* The time stamp counters of a virtual machine (kvm/x86.c): writes that   *)
(* are taken as attempts to synchronise (kvm_synchronize_tsc), the         *)
(* generations they form, the decision to run on the master clock, and the *)
(* compensation of a host counter that was reset by a suspend.             *)
(*                                                                         *)
(* A write goes in two steps, as the code does: the offset under           *)
(* tsc_write_lock, the count of matched virtual CPUs under                 *)
(* pvclock_gtod_sync_lock.  Time is counted in cycles of the host; a       *)
(* virtual CPU's frequency is a multiple of it.                            *)
(***************************************************************************)

CONSTANTS
  TscVcpus,      \* virtual CPUs
  Khz,        \* virtual CPU -> its virtual_tsc_khz, as a multiple of the host's
  Window,     \* one second, in cycles
  Data,       \* the values written to the counter
  Unstable,   \* kvm_check_tsc_unstable
  BootVcpu,   \* the virtual CPU with vcpu_id 0
  OldMsrs,    \* the registers its guest announces its clock with: TRUE is the old one
  TscMaxTime, TscMaxWrites, MaxSuspends

ASSUME TscAssumption ==
  IsFiniteSet(TscVcpus) /\ BootVcpu \in TscVcpus /\ OldMsrs \subseteq BOOLEAN /\ Khz \in [TscVcpus -> Nat \ {0}] /\ Data \subseteq Nat

VARIABLES
  tscNow,      \* nanoseconds since boot
  guestTsc,      \* the host's counter
  tscOnline,   \* the created virtual CPUs
  v,        \* virtual CPU -> its counter's state, and the value its guest last read
  kvm,      \* kvm->arch: the last write, the current generation, the count, the old kvmclock
  tscPc,       \* virtual CPU -> where its write is
  tscMaster,   \* use_master_clock
  based,    \* the host's clock source is the TSC
  tscUpdate,   \* the virtual CPUs with KVM_REQ_MASTERCLOCK_UPDATE
  tscSpent,    \* writes and suspends so far
  tscRaced     \* history: a write began before another was counted, and no generation alone since

tscVars == <<tscNow, guestTsc, tscOnline, v, kvm, tscPc, tscMaster, based, tscUpdate, tscSpent, tscRaced>>

TscInit ==
  /\ tscNow = 0 /\ guestTsc = 0 /\ tscOnline = {}
  /\ v = [c \in TscVcpus |-> [offset |-> 0, gen |-> 0, adjust |-> 0, hostTsc |-> 0, guestTsc |-> 0,
                         read |-> 0, own |-> FALSE]]
  /\ kvm = [nsec |-> 0, write |-> 0, khz |-> 0, gen |-> 0, offset |-> 0, matched |-> 0,
            backwards |-> FALSE, old |-> FALSE]
  /\ tscPc = [c \in TscVcpus |-> "none"]
  /\ tscMaster = FALSE /\ based = TRUE /\ tscUpdate = {}
  /\ tscSpent = [writes |-> 0, suspends |-> 0] /\ tscRaced = FALSE

-----------------------------------------------------------------------------
kvm_read_l1_tsc_tsc(c) == v[c].offset + (guestTsc * Khz[c])
kvm_compute_l1_tsc_offset(c, target) == target - (guestTsc * Khz[c])

(* a write within a second of what the counter would show is meant to synchronise *)
Synchronizing(c, data) ==
  LET exp == kvm.write + ((tscNow - kvm.nsec) * Khz[c]) IN
  data = 0 \/ (data < exp + (Window * Khz[c]) /\ data + (Window * Khz[c]) > exp)

Matches(c, data) == Synchronizing(c, data) /\ Khz[c] = kvm.khz

NextGen == kvm.gen + 1

TscIdle == {"none", "idle"}
BetweenLocks == {d \in TscVcpus : tscPc[d] \notin TscIdle}

(* kvm_synchronize_tsc under tsc_write_lock; the virtual CPU is loaded before and put after. *)
(* Others may be between its two locks.                                                      *)
kvm_synchronize_tsc(c, data) ==
  LET matched == Matches(c, data)
      written == IF matched /\ Unstable THEN data + ((tscNow - kvm.nsec) * Khz[c]) ELSE data
      offset == IF matched /\ ~Unstable THEN kvm.offset
                ELSE kvm_compute_l1_tsc_offset(c, written)
      gen == IF matched THEN kvm.gen ELSE NextGen
  IN
  /\ kvm' = [kvm EXCEPT !.nsec = tscNow, !.write = written, !.khz = Khz[c], !.gen = gen,
                        !.offset = IF matched THEN @ ELSE offset]
  /\ v' = [v EXCEPT ![c] = [offset |-> offset, gen |-> gen, adjust |-> 0, hostTsc |-> guestTsc,
                           guestTsc |-> written, read |-> offset + (guestTsc * Khz[c]),
                           own |-> FALSE]]
  /\ tscPc' = [tscPc EXCEPT ![c] = IF ~matched THEN "unmatched"
                             ELSE IF v[c].gen = kvm.gen THEN "already" ELSE "matched"]
  /\ tscRaced' = IF BetweenLocks = {} THEN tscRaced /\ matched ELSE TRUE

(* kvm_arch_vcpu_postcreate: a new virtual CPU's counter is written with 0 *)
kvm_arch_vcpu_postcreate(c) ==
  /\ c \notin tscOnline /\ tscPc[c] = "none"
  /\ tscOnline' = tscOnline \cup {c}
  /\ kvm_synchronize_tsc(c, 0)
  /\ UNCHANGED <<tscNow, guestTsc, tscMaster, based, tscUpdate, tscSpent>>

(* MSR_IA32_TSC written by userspace *)
WriteTsc(c, data) ==
  /\ c \in tscOnline /\ tscPc[c] = "idle" /\ tscSpent.writes < TscMaxWrites
  /\ tscSpent' = [tscSpent EXCEPT !.writes = @ + 1]
  /\ kvm_synchronize_tsc(c, data)
  /\ UNCHANGED <<tscNow, guestTsc, tscOnline, tscMaster, based, tscUpdate>>

(* MSR_IA32_TSC written by the guest: only its own offset, and no generation *)
GuestWriteTsc(c, data) ==
  /\ c \in tscOnline /\ tscPc[c] = "idle" /\ tscSpent.writes < TscMaxWrites
  /\ tscSpent' = [tscSpent EXCEPT !.writes = @ + 1]
  /\ v' = [v EXCEPT ![c] = [@ EXCEPT !.offset = kvm_compute_l1_tsc_offset(c, data), !.adjust = 0,
                                     !.hostTsc = guestTsc, !.guestTsc = data, !.read = data,
                                     !.own = TRUE]]
  /\ UNCHANGED <<tscNow, guestTsc, tscOnline, kvm, tscPc, tscMaster, based, tscUpdate, tscRaced>>

(* the rest of kvm_synchronize_tsc, with kvm_track_tsc_matching *)
Matched(n) == n + 1 = Cardinality(tscOnline)
TrackMatching(c, n) ==
  /\ kvm' = [kvm EXCEPT !.matched = n]
  /\ tscUpdate' = IF tscMaster \/ (based /\ Matched(n)) THEN tscUpdate \cup {c} ELSE tscUpdate
CountMatching(c) ==
  /\ tscPc[c] \in {"unmatched", "matched", "already"}
  /\ LET n == CASE tscPc[c] = "unmatched" -> 0
                [] tscPc[c] = "matched" -> kvm.matched + 1
                [] tscPc[c] = "already" -> kvm.matched
     IN TrackMatching(c, n)
  /\ tscPc' = [tscPc EXCEPT ![c] = "idle"]
  /\ UNCHANGED <<tscNow, guestTsc, tscOnline, v, tscMaster, based, tscSpent, tscRaced>>

UseIfBased == based /\ ~kvm.backwards /\ ~kvm.old
UseMasterClock == based /\ Matched(kvm.matched) /\ ~kvm.backwards /\ ~kvm.old

(* MSR_KVM_SYSTEM_TIME (old) or MSR_KVM_SYSTEM_TIME_NEW written by the boot virtual CPU's guest: *)
(* kvm_write_system_time                                                                          *)
kvm_write_system_time_tsc(c, old) ==
  /\ c = BootVcpu /\ c \in tscOnline /\ tscPc[c] = "idle"
  /\ tscUpdate' = IF kvm.old # old THEN tscUpdate \cup {c} ELSE tscUpdate
  /\ kvm' = [kvm EXCEPT !.old = old]
  /\ UNCHANGED <<tscNow, guestTsc, tscOnline, v, tscPc, tscMaster, based, tscSpent, tscRaced>>

(* KVM_REQ_MASTERCLOCK_UPDATE: pvclock_update_vm_gtod_copy *)
pvclock_update_vm_gtod_copy(c) ==
  /\ c \in tscUpdate
  /\ tscUpdate' = tscUpdate \ {c}
  /\ tscMaster' = UseMasterClock
  /\ UNCHANGED <<tscNow, guestTsc, tscOnline, v, kvm, tscPc, based, tscSpent, tscRaced>>

(* the host gives up the TSC as its clock source, and is told so: pvclock_gtod_notify, *)
(* pvclock_gtod_update_fn                                                              *)
pvclock_gtod_notify ==
  /\ based
  /\ based' = FALSE
  /\ tscUpdate' = IF tscMaster THEN tscOnline ELSE tscUpdate
  /\ UNCHANGED <<tscNow, guestTsc, tscOnline, v, kvm, tscPc, tscMaster, tscSpent, tscRaced>>

-----------------------------------------------------------------------------
UnstableOffset(c) == kvm_compute_l1_tsc_offset(c, v[c].guestTsc)
Adjusted(c) == v[c].offset + (v[c].adjust * Khz[c])

(* kvm_arch_vcpu_load, a while in the guest, kvm_arch_vcpu_put: adjustments are applied, *)
(* and an unstable counter goes on where it was                                          *)
RunGuest(c) ==
  /\ c \in tscOnline /\ tscPc[c] = "idle"
  /\ LET base == Adjusted(c)
         offset == IF Unstable THEN UnstableOffset(c) ELSE base
     IN v' = [v EXCEPT ![c] = [@ EXCEPT !.offset = offset, !.adjust = 0, !.hostTsc = guestTsc,
                                        !.guestTsc = offset + (guestTsc * Khz[c]), !.read = offset + (guestTsc * Khz[c])]]
  /\ UNCHANGED <<tscNow, guestTsc, tscOnline, kvm, tscPc, tscMaster, based, tscUpdate, tscSpent, tscRaced>>

TscTick ==
  /\ tscNow < TscMaxTime
  /\ tscNow' = tscNow + 1 /\ guestTsc' = guestTsc + 1
  /\ UNCHANGED <<tscOnline, v, kvm, tscPc, tscMaster, based, tscUpdate, tscSpent, tscRaced>>

(* The host is suspended and resumed, its counter starts again at `at'.                    *)
(* kvm_arch_hardware_enable: the furthest counter seen tells how much is missing, the same *)
(* adjustment goes to all virtual CPUs, and synchronisation starts anew.                   *)
Missing(c, at) ==
  LET seen == {v[d].hostTsc : d \in tscOnline} IN
  (CHOOSE m \in seen : \A s \in seen : s <= m) - at
Backwards(at) == ~Unstable /\ \E c \in tscOnline : v[c].hostTsc > at
AdjustedBy(c, at) == v[c].adjust + Missing(c, at)
kvm_arch_hardware_enable(at) ==
  /\ tscSpent.suspends < MaxSuspends /\ \A c \in TscVcpus : tscPc[c] \in TscIdle
  /\ tscSpent' = [tscSpent EXCEPT !.suspends = @ + 1]
  /\ guestTsc' = at
  /\ IF Backwards(at)
     THEN /\ v' = [c \in TscVcpus |-> IF c \in tscOnline
                                   THEN [v[c] EXCEPT !.adjust = AdjustedBy(c, at), !.hostTsc = at]
                                   ELSE v[c]]
          /\ kvm' = [kvm EXCEPT !.backwards = TRUE, !.nsec = 0, !.write = 0]
          /\ tscUpdate' = tscOnline
     ELSE UNCHANGED <<v, kvm, tscUpdate>>
  /\ UNCHANGED <<tscNow, tscOnline, tscPc, tscMaster, based, tscRaced>>

-----------------------------------------------------------------------------
TscNext ==
  \/ \E c \in TscVcpus : kvm_arch_vcpu_postcreate(c) \/ CountMatching(c)
                      \/ pvclock_update_vm_gtod_copy(c) \/ RunGuest(c)
                      \/ \E d \in Data : WriteTsc(c, d) \/ GuestWriteTsc(c, d)
                      \/ \E old \in OldMsrs : kvm_write_system_time_tsc(c, old)
  \/ pvclock_gtod_notify \/ TscTick
  \/ \E at \in 0..1 : kvm_arch_hardware_enable(at)
TscSpec == TscInit /\ [][TscNext]_tscVars

-----------------------------------------------------------------------------
(* The state has its types: the count of matched virtual CPUs never exceeds the others once all *)
(* are counted, unless one was counted after a later one had begun a generation.                *)
TscTypeOK ==
  /\ tscOnline \subseteq TscVcpus /\ tscUpdate \subseteq TscVcpus /\ tscMaster \in BOOLEAN
  /\ kvm.matched \in Nat /\ (tscRaced \/ BetweenLocks # {} \/ kvm.matched = 0 \/ kvm.matched \in 1..(Cardinality(tscOnline) - 1))

Settled == tscUpdate = {} /\ BetweenLocks = {}

(* On the master clock, once the requests are answered, the host's clock source is the TSC,    *)
(* which was not seen going backwards, the boot virtual CPU does not use the old kvmclock, and *)
(* all virtual CPUs are in the current generation, unless a write of it was counted among      *)
(* others.                                                                                     *)
MasterClockMeansMatched ==
  tscMaster /\ Settled => /\ based /\ ~kvm.backwards /\ ~kvm.old
                          /\ ~tscRaced => \A c \in tscOnline : v[c].gen = kvm.gen

(* Virtual CPUs of one generation and a reliable host counter show the same time, as long *)
(* as the host was not suspended and the guest does not set one of them itself.            *)
GenerationsAgree ==
  ~Unstable /\ ~kvm.backwards =>
    \A c, d \in tscOnline : v[c].gen = v[d].gen /\ ~v[c].own /\ ~v[d].own
                          => v[c].offset = v[d].offset

(* After a suspend every virtual CPU is moved by the same amount: those that agreed agree *)
(* again once both have run.                                                               *)
KeptTogether ==
  \A at \in 0..1 : \A c, d \in tscOnline :
    kvm_arch_hardware_enable(at) /\ Khz[c] = Khz[d] =>
      v'[c].offset + (v'[c].adjust * Khz[c]) - (v'[d].offset + (v'[d].adjust * Khz[d]))
      = v[c].offset + (v[c].adjust * Khz[c]) - (v[d].offset + (v[d].adjust * Khz[d]))

(* The counter a guest reads never goes backwards, over suspends, several in a row and on *)
(* unreliable counters, unless it is written.                                              *)
TscMonotonic ==
  [][\A c \in TscVcpus : tscPc[c] = "idle" /\ tscPc'[c] = "idle" /\ tscSpent'.writes = tscSpent.writes => v'[c].read >= v[c].read]_tscVars

-----------------------------------------------------------------------------
(***************************************************************************)
(* A host whose TSC frequency changes (kvm/x86.c): the kvmclock of a       *)
(* virtual CPU scales the counter of the CPU it runs on, so it is told the *)
(* frequency (cpu_tsc_khz) when its clock page is written.  The frequency  *)
(* changes through the cpufreq notifier, CPUs go and come, virtual CPUs    *)
(* migrate, or - on Hyper-V - the whole host moves to other hardware and   *)
(* its counter is emulated until kvm_hyperv_tsc_notifier has run.          *)
(***************************************************************************)

CONSTANTS
  FreqCpus,
  FreqVcpus,
  Freqs,    \* the frequencies of a CPU
  MaxMoves  \* how many transitions, migrations and hot-plugs happen

ASSUME FreqsAssumption == Freqs \subseteq Nat \ {0} /\ Freqs # {}

NoCpu == "none"

VARIABLES
  hyperv,   \* the host is itself a guest of Hyper-V
  freq,     \* CPU -> the rate its counter runs at
  freqKhz,      \* CPU -> cpu_tsc_khz, 0 while the CPU is going down
  freqOnline,   \* the CPUs that run threads
  vcpu,     \* virtual CPU -> the CPU it is loaded on, where it is, what it was told, its requests
  change,   \* the cpufreq transition under way: CPU, old, new, where the notifier is and runs
  stage,    \* where kvm_hyperv_tsc_notifier is
  freqLeft

freqVars == <<hyperv, freq, freqKhz, freqOnline, vcpu, change, stage, freqLeft>>

FreqIdle == [at |-> "idle"]
Tsc_khz == CHOOSE f \in Freqs : \A g \in Freqs : g <= f

FreqInit ==
  /\ hyperv \in BOOLEAN
  /\ freq = [p \in FreqCpus |-> Tsc_khz] /\ freqKhz = freq /\ freqOnline = FreqCpus
  /\ vcpu = [c \in FreqVcpus |-> [cpu |-> NoCpu, at |-> "out", told |-> 0, requests |-> {}]]
  /\ change = FreqIdle /\ stage = "idle" /\ freqLeft = MaxMoves

InGuestOn(p) == {c \in FreqVcpus : vcpu[c].at = "guest" /\ vcpu[c].cpu = p}
Ask(S, q) == [c \in FreqVcpus |-> IF c \in S THEN [vcpu[c] EXCEPT !.requests = @ \cup {q}] ELSE vcpu[c]]
(* an interrupt brings the virtual CPU on p out of the guest *)
Interrupted(p) == [c \in FreqVcpus |-> IF c \in InGuestOn(p) THEN [vcpu[c] EXCEPT !.at = "host"]
                                                        ELSE vcpu[c]]

-----------------------------------------------------------------------------
(* kvm_arch_vcpu_load on another CPU than the last time; the request before vcpu->cpu.  Such *)
(* a host has no master clock.                                                                *)
kvm_arch_vcpu_load_freq(c, p) ==
  /\ vcpu[c].at \in {"out", "host"} /\ p \in freqOnline /\ p # vcpu[c].cpu
  /\ vcpu[c].cpu \in freqOnline => freqLeft > 0
  /\ freqLeft' = IF vcpu[c].cpu \in freqOnline THEN freqLeft - 1 ELSE freqLeft
  /\ vcpu' = [vcpu EXCEPT ![c] = [@ EXCEPT !.cpu = p, !.at = "host", !.requests = @ \cup {"CLOCK"}]]
  /\ UNCHANGED <<hyperv, freq, freqKhz, freqOnline, change, stage>>

(* kvm_guest_time_update: a CPU that is going down has no frequency, the request stays *)
KhzKnown(c) == freqKhz[vcpu[c].cpu] # 0
kvm_guest_time_update_freq(c) ==
  /\ vcpu[c].at = "host" /\ vcpu[c].cpu \in freqOnline /\ "CLOCK" \in vcpu[c].requests
  /\ KhzKnown(c)
  /\ vcpu' = [vcpu EXCEPT ![c] = [@ EXCEPT !.told = freqKhz[vcpu[c].cpu], !.requests = @ \ {"CLOCK"}]]
  /\ UNCHANGED <<hyperv, freq, freqKhz, freqOnline, change, stage, freqLeft>>

(* while a notifier runs on the CPU, no guest does *)
FreqEnterGuest(c) ==
  /\ vcpu[c].at = "host" /\ vcpu[c].cpu \in freqOnline /\ vcpu[c].requests = {}
  /\ change.at # "idle" => change.on # vcpu[c].cpu
  /\ vcpu' = [vcpu EXCEPT ![c].at = "guest"]
  /\ UNCHANGED <<hyperv, freq, freqKhz, freqOnline, change, stage, freqLeft>>

FreqExitGuest(c) ==
  /\ vcpu[c].at = "guest"
  /\ vcpu' = [vcpu EXCEPT ![c].at = "host"]
  /\ UNCHANGED <<hyperv, freq, freqKhz, freqOnline, change, stage, freqLeft>>

-----------------------------------------------------------------------------
(* cpufreq announces a change of CPU p, from CPU q *)
StartChange(p, q, new) ==
  /\ ~hyperv /\ change = FreqIdle /\ freqLeft > 0 /\ p \in freqOnline /\ q \in freqOnline /\ new # freq[p]
  /\ InGuestOn(q) = {}
  /\ freqLeft' = freqLeft - 1
  /\ change' = [at |-> "pre", cpu |-> p, on |-> q, old |-> freq[p], new |-> new, ipi |-> FALSE]
  /\ UNCHANGED <<hyperv, freq, freqKhz, freqOnline, vcpu, stage>>

(* kvmclock_cpufreq_notifier: before the change when the clock accelerates, after it when it *)
(* slows                                                                                      *)
Skipped(at) == IF at = "pre" THEN change.old > change.new ELSE change.old < change.new
NotifySkip ==
  /\ change.at \in {"pre", "post"} /\ Skipped(change.at)
  /\ change' = IF change.at = "pre" THEN [change EXCEPT !.at = "switch"] ELSE FreqIdle
  /\ UNCHANGED <<hyperv, freq, freqKhz, freqOnline, vcpu, stage, freqLeft>>

(* __kvmclock_cpufreq_notifier: the frequency is set on the CPU itself, *)
NotifyKhz ==
  /\ change.at \in {"pre", "post"} /\ ~Skipped(change.at)
  /\ freqKhz' = [freqKhz EXCEPT ![change.cpu] = change.new]
  /\ vcpu' = Interrupted(change.cpu)
  /\ change' = [change EXCEPT !.at = IF change.at = "pre" THEN "preask" ELSE "postask"]
  /\ UNCHANGED <<hyperv, freq, freqOnline, stage, freqLeft>>

(* then the virtual CPUs that are there are asked to update, *)
NotifyAsk ==
  /\ change.at \in {"preask", "postask"}
  /\ LET here == {c \in FreqVcpus : vcpu[c].cpu = change.cpu} IN
     /\ vcpu' = Ask(here, "CLOCK")
     /\ change' = [change EXCEPT !.at = IF change.at = "preask" THEN "prekick" ELSE "postkick",
                                 !.ipi = here # {} /\ change.cpu # change.on]
  /\ UNCHANGED <<hyperv, freq, freqKhz, freqOnline, stage, freqLeft>>

(* and brought out of the guest if the clock accelerates *)
Kick == change.old < change.new /\ change.ipi
NotifyKick ==
  /\ change.at \in {"prekick", "postkick"}
  /\ IF Kick THEN vcpu' = Interrupted(change.cpu) /\ freqKhz' = [freqKhz EXCEPT ![change.cpu] = change.new]
             ELSE UNCHANGED <<vcpu, freqKhz>>
  /\ change' = IF change.at = "prekick" THEN [change EXCEPT !.at = "switch"] ELSE FreqIdle
  /\ UNCHANGED <<hyperv, freq, freqOnline, stage, freqLeft>>

(* the hardware changes *)
Switch ==
  /\ change.at = "switch"
  /\ freq' = [freq EXCEPT ![change.cpu] = change.new]
  /\ change' = [change EXCEPT !.at = "post"]
  /\ UNCHANGED <<hyperv, freqKhz, freqOnline, vcpu, stage, freqLeft>>

-----------------------------------------------------------------------------
(* A CPU is taken down - it has no frequency from now on, and its threads move away - and *)
(* brought up again; not while its frequency changes.                                      *)
kvmclock_cpu_down_prep(p) ==
  /\ freqLeft > 0 /\ p \in freqOnline /\ change = FreqIdle /\ InGuestOn(p) = {} /\ freqKhz[p] # 0
  /\ freqLeft' = freqLeft - 1
  /\ freqKhz' = [freqKhz EXCEPT ![p] = 0]
  /\ UNCHANGED <<hyperv, freq, freqOnline, vcpu, change, stage>>
CpuDead(p) ==
  /\ freqKhz[p] = 0 /\ p \in freqOnline /\ freqOnline # {p} /\ InGuestOn(p) = {} /\ change = FreqIdle
  /\ freqOnline' = freqOnline \ {p}
  /\ UNCHANGED <<hyperv, freq, freqKhz, vcpu, change, stage, freqLeft>>
(* tsc_khz_changed without a transition: the current frequency *)
OnlineKhz(p) == freq[p]
kvmclock_cpu_online(p) ==
  /\ (p \notin freqOnline \/ freqKhz[p] = 0) /\ change = FreqIdle
  /\ freqKhz' = [freqKhz EXCEPT ![p] = OnlineKhz(p)] /\ freqOnline' = freqOnline \cup {p}
  /\ UNCHANGED <<hyperv, freq, vcpu, change, stage, freqLeft>>

-----------------------------------------------------------------------------
(* kvm_hyperv_tsc_notifier: no virtual CPU in the guest, the emulation ends and with it the *)
(* old frequency, every clock is to be updated, and they may run again.                     *)
HvBegin ==
  /\ hyperv /\ stage = "idle" /\ freqLeft > 0
  /\ freqLeft' = freqLeft - 1 /\ stage' = "inprogress"
  /\ vcpu' = [c \in FreqVcpus |-> [vcpu[c] EXCEPT !.requests = @ \cup {"INPROGRESS"},
                                              !.at = IF @ = "guest" THEN "host" ELSE @]]
  /\ UNCHANGED <<hyperv, freq, freqKhz, freqOnline, change>>
HvSet(new) ==
  /\ stage = "inprogress" /\ stage' = "set"
  /\ freq' = [p \in FreqCpus |-> new] /\ freqKhz' = [p \in FreqCpus |-> new]
  /\ UNCHANGED <<hyperv, freqOnline, vcpu, change, freqLeft>>
HvAsked == "CLOCK"
HvAsk ==
  /\ stage = "set" /\ stage' = "asked"
  /\ vcpu' = Ask(FreqVcpus, HvAsked)
  /\ UNCHANGED <<hyperv, freq, freqKhz, freqOnline, change, freqLeft>>
HvEnd ==
  /\ stage = "asked" /\ stage' = "idle"
  /\ vcpu' = [c \in FreqVcpus |-> [vcpu[c] EXCEPT !.requests = @ \ {"INPROGRESS"}]]
  /\ UNCHANGED <<hyperv, freq, freqKhz, freqOnline, change, freqLeft>>

-----------------------------------------------------------------------------
FreqNext ==
  \/ \E c \in FreqVcpus : \/ kvm_guest_time_update_freq(c) \/ FreqEnterGuest(c) \/ FreqExitGuest(c)
                          \/ \E p \in FreqCpus : kvm_arch_vcpu_load_freq(c, p)
  \/ \E p, q \in FreqCpus, new \in Freqs : StartChange(p, q, new)
  \/ NotifySkip \/ NotifyKhz \/ NotifyAsk \/ NotifyKick \/ Switch
  \/ \E p \in FreqCpus : kvmclock_cpu_down_prep(p) \/ CpuDead(p) \/ kvmclock_cpu_online(p)
  \/ HvBegin \/ HvAsk \/ HvEnd \/ \E new \in Freqs : HvSet(new)
FreqFairness ==
  \A c \in FreqVcpus : /\ WF_freqVars(kvm_guest_time_update_freq(c)) /\ WF_freqVars(FreqExitGuest(c))
                       /\ WF_freqVars(NotifySkip \/ NotifyKhz \/ NotifyAsk \/ NotifyKick \/ Switch)
                       /\ WF_freqVars(HvAsk \/ HvEnd \/ \E new \in Freqs : HvSet(new))
                       /\ \A p \in FreqCpus : WF_freqVars(kvmclock_cpu_online(p))
                       /\ SF_freqVars(FreqEnterGuest(c))
FreqSpec == FreqInit /\ [][FreqNext]_freqVars
FreqFairSpec == FreqSpec /\ FreqFairness

-----------------------------------------------------------------------------
(* The state has its types, and a virtual CPU in the guest was told a frequency. *)
FreqTypeOK ==
  /\ freq \in [FreqCpus -> Freqs] /\ freqKhz \in [FreqCpus -> Freqs \cup {0}] /\ freqOnline \in SUBSET FreqCpus
  /\ \A c \in FreqVcpus : vcpu[c].requests \subseteq {"CLOCK", "INPROGRESS"}
  /\ \A c \in FreqVcpus : vcpu[c].at = "guest" => vcpu[c].told \in Freqs

(* "We allow guests to temporarily run on slowing clocks, provided we notify them after, or to *)
(* run on accelerating clocks, provided we notify them before.  Thus time never goes           *)
(* backwards": a guest never runs on a counter faster than the frequency it was told.          *)
NeverFasterThanTold ==
  \A c \in FreqVcpus : vcpu[c].at = "guest" => freq[vcpu[c].cpu] <= vcpu[c].told

(* When no change is under way, a virtual CPU in the guest knows its frequency or is asked to *)
(* read it when it next enters.                                                               *)
ToldOrAsked ==
  \A c \in FreqVcpus :
    vcpu[c].at = "guest" /\ change = FreqIdle /\ stage = "idle"
      => vcpu[c].told = freq[vcpu[c].cpu] \/ "CLOCK" \in vcpu[c].requests

(* Every virtual CPU that has to renew its clock does: on a CPU that is going down it waits *)
(* until it is moved or the CPU comes back.                                                  *)
AskedIsUpdated ==
  \A c \in FreqVcpus : vcpu[c].cpu # NoCpu /\ "CLOCK" \in vcpu[c].requests
                     ~> "CLOCK" \notin vcpu[c].requests
=============================================================================
