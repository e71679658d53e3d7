----------------------------- MODULE KvmEmulate -----------------------------
(***************************************************************************)
(* The emulator's callbacks in x86.c, in two parts: segments and far       *)
(* calls, and the emulation of one instruction.                            *)
(***************************************************************************)
EXTENDS Integers, Naturals

(***************************************************************************)
(* The register callbacks of the instruction emulator (emulator_get_* and  *)
(* emulator_set_* of kvm/x86.c). The emulator (emulate.c, external) keeps a *)
(* segment as a descriptor, whose limit counts pages when g is set, whose  *)
(* base has one half of an address and whose upper half is a separate word; *)
(* KVM keeps it as the processor does: limit in bytes, base whole.         *)
(*                                                                         *)
(* The instructions followed are a far call, which saves CS, loads the new *)
(* one and puts the old one back when the jump fails, a task switch, which *)
(* reads selectors and loads descriptors, and moves to control registers.  *)
(* A page has PageBytes bytes, half of an address holds Half values.       *)
(***************************************************************************)

CONSTANTS PageBytes, Half, Limits, Selectors
ASSUME SegmentsAssumption ==
  /\ PageBytes \in Nat \ {0} /\ Half \in Nat \ {0}
  /\ Limits \subseteq Nat /\ Selectors \subseteq Nat

(* What a descriptor holds: raw limit, half of the base, and the bits type, s, dpl, p, avl, l, d as one. *)
Descriptors == [limit : Limits, base : 0..(Half - 1), g : BOOLEAN, p : BOOLEAN]
NullDesc == [limit |-> 0, base |-> 0, g |-> FALSE, p |-> FALSE]

VARIABLES
  cs, seg,        \* struct kvm_segment: the cached code segment, and a task or data segment
  cr,             \* control registers, upper half and lower half
  segPc,             \* the instruction: idle or before its jump
  old,            \* emulator: the descriptor, selector and upper base it saved
  segBefore,         \* ghost: the registers when the instruction began
  outcome         \* how the last instruction ended

segVars == <<cs, seg, cr, segPc, old, segBefore, outcome>>

(* emulator_set_segment *)
emulator_set_segment(sel, d, base3) ==
  [selector |-> sel, base |-> d.base + base3 * Half,
   limit |-> IF d.g THEN d.limit * PageBytes + (PageBytes - 1) ELSE d.limit,
   g |-> d.g, present |-> d.p, unusable |-> ~d.p]

(* A segment as the processor caches it: with g the low bits of the limit are all set, code segments of *)
(* 64-bit guests have a base of one half, system segments of both.                                     *)
CodeSegs == {emulator_set_segment(s, d, 0) : s \in Selectors, d \in Descriptors}
SystemSegs == {emulator_set_segment(s, d, b) : s \in Selectors, d \in {d \in Descriptors : d.p}, b \in 0..(Half - 1)}
Cr == [hi : 0..1, lo : 0..1]
Registers == {0, 3}     \* CR4 is as CR0; CR2 and CR8 are as CR3
Names == Registers \cup {1}

NoOld == [d |-> NullDesc, sel |-> 0, base3 |-> 0]
Regs == <<cs, seg, cr>>
SegInit ==
  /\ cs \in {s \in CodeSegs : s.present} /\ seg \in SystemSegs
  /\ cr \in [Registers -> Cr]
  /\ segPc = "idle" /\ old = NoOld
  /\ segBefore = Regs /\ outcome = "none"

-----------------------------------------------------------------------------
(* emulator_get_segment: an unusable segment reads as zeroes *)
emulator_get_segment(var) ==
  [sel |-> var.selector,
   d |-> IF var.unusable THEN NullDesc
         ELSE [limit |-> IF var.g THEN var.limit \div PageBytes ELSE var.limit,
               base |-> var.base % Half, g |-> var.g, p |-> var.present],
   base3 |-> IF var.unusable THEN 0 ELSE var.base \div Half]

(* emulator_set_cr: half of CR0 is kept, CR3 is written whole, another number is an error, and what *)
(* kvm_set_cr0 and kvm_set_cr3 (KvmCregs, KvmPcid) refuse changes nothing                           *)
mk_cr_64(curr, v) == [hi |-> curr.hi, lo |-> v.lo]
emulator_set_cr(n, v) ==
  \/ /\ n \in Registers /\ outcome' = "done"
     /\ cr' = [cr EXCEPT ![n] = IF n = 0 THEN mk_cr_64(cr[0], v) ELSE v]
  \/ outcome' = "fault" /\ UNCHANGED cr
emulator_get_cr(n) == IF n \in Registers THEN cr[n] ELSE [hi |-> 0, lo |-> 0]

-----------------------------------------------------------------------------
(* em_call_far: CS is saved and loaded with the target *)
CallFar(sel, d) ==
  /\ segPc = "idle" /\ d.p /\ segBefore' = Regs
  /\ old' = emulator_get_segment(cs)
  /\ cs' = emulator_set_segment(sel, d, 0) /\ segPc' = "jump" /\ outcome' = "none"
  /\ UNCHANGED <<seg, cr>>
JumpSucceeds ==
  /\ segPc = "jump" /\ segPc' = "idle" /\ outcome' = "done" /\ old' = NoOld
  /\ UNCHANGED <<cs, seg, cr, segBefore>>
(* the jump's address is outside the limit, or the return address cannot be pushed *)
JumpFails ==
  /\ segPc = "jump" /\ cs' = emulator_set_segment(old.sel, old.d, 0)
  /\ segPc' = "idle" /\ outcome' = "fault" /\ old' = NoOld
  /\ UNCHANGED <<seg, cr, segBefore>>

(* emulator_do_task_switch sets the busy bit through the descriptor: the task register is read, changed in *)
(* type only and written back with its upper base                                                         *)
TaskSegmentAgain ==
  /\ segPc = "idle" /\ segBefore' = Regs /\ ~seg.unusable
  /\ LET t == emulator_get_segment(seg) IN
     seg' = emulator_set_segment(t.sel, t.d, t.base3)
  /\ outcome' = "kept" /\ UNCHANGED <<cs, cr, segPc, old>>
(* load_segment_descriptor; a null selector leaves a segment that is not present *)
LoadSegment(sel, d) ==
  /\ segPc = "idle" /\ segBefore' = Regs /\ seg' = emulator_set_segment(sel, d, 0)
  /\ outcome' = "done" /\ UNCHANGED <<cs, cr, segPc, old>>

MovToCr(n, v) ==
  /\ segPc = "idle" /\ segBefore' = Regs /\ emulator_set_cr(n, v)
  /\ UNCHANGED <<cs, seg, old, segPc>>
(* CLTS and LMSW: read CR0, change its low half, write it back; here the value read *)
CrAgain(n) ==
  /\ segPc = "idle" /\ segBefore' = Regs /\ emulator_set_cr(n, emulator_get_cr(n))
  /\ UNCHANGED <<cs, seg, old, segPc>>

SegNext ==
  \/ \E s \in Selectors, d \in Descriptors : CallFar(s, d) \/ LoadSegment(s, d)
  \/ JumpSucceeds \/ JumpFails \/ TaskSegmentAgain
  \/ \E n \in Names : CrAgain(n) \/ \E v \in Cr : MovToCr(n, v)
SegSpec == SegInit /\ [][SegNext]_segVars

-----------------------------------------------------------------------------
(* An instruction that ends in a fault, and one that writes back what it read, leave every register as *)
(* it was: the segment the emulator kept as a descriptor comes back with its limit in bytes, whatever *)
(* its granularity, and with its base.                                                                *)
FaultRestores == outcome \in {"fault", "kept"} => Regs = segBefore

-----------------------------------------------------------------------------
(***************************************************************************)
(* What x86_emulate_instruction (kvm/x86.c) does around the emulator       *)
(* itself: decoding, executing the instruction again on the processor when *)
(* the page it writes was only write-protected by KVM, failures, I/O that  *)
(* user space completes while it may read and write the registers, and the *)
(* interrupt shadow.                                                       *)
(*                                                                         *)
(* An instruction stores to one page: "plain"; "pt", a page table of the   *)
(* guest that KVM shadows and write-protects; "self", a page table that    *)
(* maps the instruction or the page, so that running the instruction       *)
(* protects it again; "ro", read-only for the host; "noslot", no memory.   *)
(* The MMU shadows the guest's tables; a direct one protects no pages.     *)
(* One general register stands for all: it holds a number modulo Mod.      *)
(***************************************************************************)

CONSTANTS
  Eips,            \* addresses of instructions, not 0
  ExitOnError,     \* KVM_CAP_EXIT_ON_EMULATION_FAILURE
  Mod,
  MaxReprotect     \* bound on pages protected again by other VCPUs

ASSUME EmulateAssumption ==
  Eips \subseteq Nat \ {0} /\ ExitOnError \in BOOLEAN /\ Mod \in Nat \ {0, 1} /\ MaxReprotect \in Nat

EmulPages == {"plain", "pt", "self", "ro", "noslot"}
Insns ==
  {i \in [eip : Eips, page : EmulPages, emulable : BOOLEAN, writes_pt : BOOLEAN, io : {"none", "in", "out"},
          shadow : {"none", "sti", "movss"}, cpl : {0, 3}] :
     /\ i.io # "none" => i.page = "plain" /\ i.emulable
     /\ i.shadow # "none" => i.page = "plain" /\ i.io = "none" /\ i.emulable
     /\ i.writes_pt => i.page \in {"pt", "self"}
     /\ i.emulable => i.cpl = 0}

VARIABLES
  emulPc,                    \* "guest", "decode", "exec", "wait" (for user space), "dead"
  insn, emulN,               \* the instruction, and a bit that flips when it is over
  etype,                 \* emulation_type
  protected, reprotects, \* the page is write-protected by KVM
  write_fault_to_spt,    \* vcpu->arch.write_fault_to_shadow_pgtable
  last_retry,            \* last_retry_eip with its address, or 0
  reg, emulCache,            \* the VCPU's register, and the emulator's copy
  sync_to, sync_from,    \* emulate_regs_need_sync_to_vcpu, ..._from_vcpu
  want, stale,           \* what the register should hold; something else was read of it
  shadow, emulBefore         \* interrupt shadow, and the one before the last instruction

emulVars == <<emulPc, insn, emulN, etype, protected, reprotects, write_fault_to_spt, last_retry, reg, emulCache, sync_to,
          sync_from, want, stale, shadow, emulBefore>>
mmu == <<protected, reprotects, write_fault_to_spt, last_retry>>
emulRegs == <<reg, emulCache, sync_to, sync_from, want, stale>>
NoCache == [valid |-> FALSE, dirty |-> FALSE, val |-> 0]

Fresh == insn' \in Insns /\ protected' = (insn'.page = "pt") /\ emulN' = 1 - emulN /\ emulPc' = "guest" /\ etype' = "none"
EmulInit ==
  /\ emulPc = "guest" /\ insn \in Insns /\ emulN = 0 /\ etype = "none"
  /\ protected = (insn.page = "pt") /\ reprotects = 0 /\ write_fault_to_spt = FALSE /\ last_retry = 0
  /\ reg = 0 /\ emulCache = NoCache /\ sync_to = FALSE /\ sync_from = FALSE /\ want = 0 /\ stale = FALSE
  /\ shadow = "none" /\ emulBefore = "none"

-----------------------------------------------------------------------------
(* The processor runs the instruction, or leaves to KVM *)
Faults == insn.page \in {"ro", "noslot", "self"} \/ (insn.page = "pt" /\ protected)
EmulHardware ==
  /\ emulPc = "guest" /\ insn.io = "none" /\ ~Faults
  /\ reg' = (reg + 1) % Mod /\ want' = (want + 1) % Mod
  /\ emulBefore' = shadow /\ shadow' = IF insn.shadow = shadow THEN "none" ELSE insn.shadow
  /\ Fresh /\ UNCHANGED <<reprotects, write_fault_to_spt, last_retry, emulCache, sync_to, sync_from, stale>>
FaultOrExit ==
  /\ emulPc = "guest" /\ emulPc' = "decode"
  /\ etype' \in (IF insn.io # "none" THEN {"io"} ELSE IF Faults THEN {"pf"} ELSE {"ud", "gp", "skip"})
  /\ write_fault_to_spt' = (insn.page = "self" /\ insn.io = "none")
  /\ UNCHANGED <<insn, emulN, protected, reprotects, last_retry, emulRegs, shadow, emulBefore>>
Reprotect ==
  /\ emulPc = "guest" /\ insn.page = "pt" /\ ~protected /\ reprotects < MaxReprotect
  /\ protected' = TRUE /\ reprotects' = reprotects + 1
  /\ UNCHANGED <<emulPc, insn, emulN, etype, write_fault_to_spt, last_retry, emulRegs, shadow, emulBefore>>

-----------------------------------------------------------------------------
(* handle_emulation_failure: "dead" is an exit with an internal error *)
handle_emulation_failure ==
  IF etype # "gp" /\ (ExitOnError \/ etype = "skip" \/ insn.cpl = 0) THEN "dead" ELSE "exception"
(* reexecute_instruction *)
Reexecutes ==
  /\ etype = "pf" /\ insn.page # "noslot" /\ insn.page # "ro"
  /\ ~write_fault_to_spt
(* An exception for the guest ends the instruction; else it is tried again *)
Abort(how) ==
  \/ how = "dead" /\ emulPc' = "dead" /\ UNCHANGED <<insn, emulN, etype, protected>>
  \/ how = "exception" /\ Fresh
  \/ how = "again" /\ emulPc' = "guest" /\ etype' = "none" /\ protected' = FALSE /\ UNCHANGED <<insn, emulN>>
Failed == IF Reexecutes THEN "again" ELSE handle_emulation_failure

(* x86_decode_emulated_instruction; write_fault_to_shadow_pgtable is read and cleared *)
Decode ==
  /\ emulPc = "decode" /\ emulCache' = NoCache /\ sync_from' = FALSE /\ UNCHANGED <<shadow, emulBefore>>
  /\ \/ ~insn.emulable /\ Abort(IF etype = "ud" THEN "exception" ELSE Failed) /\ UNCHANGED last_retry
     \/ Abort("exception") /\ UNCHANGED last_retry       \* the fetch of the instruction faults
     \/ etype = "gp" /\ insn.io = "none" /\ Abort("exception") /\ UNCHANGED last_retry   \* is_vmware_backdoor_opcode
     \/ /\ etype \notin {"gp", "skip"} /\ emulPc' = "exec" /\ UNCHANGED <<insn, emulN, etype, protected, last_retry>>
  /\ UNCHANGED <<reprotects, write_fault_to_spt, reg, sync_to, want, stale>>
(* EMULTYPE_SKIP: what the instruction does was done at the exit, it is only decoded for its length; *)
(* the caller ends the interrupt shadow                                                              *)
Skip ==
  /\ emulPc = "decode" /\ etype = "skip" /\ emulCache' = NoCache /\ sync_from' = FALSE
  /\ Fresh /\ shadow' = "none" /\ emulBefore' = shadow
  /\ UNCHANGED <<reprotects, write_fault_to_spt, last_retry, reg, sync_to, want, stale>>
(* retry_instruction: not a second time in a row at the same place *)
Retries == etype = "pf" /\ ~insn.writes_pt /\ last_retry # insn.eip
Retry ==
  /\ emulPc = "exec" /\ Retries
  /\ last_retry' = insn.eip /\ Abort("again")
  /\ UNCHANGED <<reprotects, write_fault_to_spt, emulRegs, shadow, emulBefore>>

(* emulator_read_gpr and its cache *)
Value == IF emulCache.valid THEN emulCache.val ELSE reg
Written(v) == [valid |-> TRUE, dirty |-> TRUE, val |-> v]
(* toggle_interruptibility *)
toggle_interruptibility(mask) == IF shadow = mask THEN "none" ELSE mask
(* The writeback of the registers *)
Finish(v) ==
  /\ reg' = v /\ emulCache' = [valid |-> TRUE, dirty |-> FALSE, val |-> v] /\ sync_to' = FALSE /\ want' = (want + 1) % Mod
  /\ emulBefore' = shadow /\ shadow' = toggle_interruptibility(insn.shadow)
  /\ Fresh

(* x86_emulate_insn: the instruction reads and writes the register *)
Execute ==
  /\ emulPc = "exec" /\ ~Retries
  /\ last_retry' = 0
  /\ \/ /\ insn.emulable /\ insn.io # "in"
        /\ Finish((Value + 1) % Mod) /\ UNCHANGED <<sync_from, stale>>
     \/ /\ insn.io = "in" /\ emulPc' = "wait"
        /\ emulCache' = Written((Value + 1) % Mod) /\ want' = (want + 1) % Mod /\ sync_to' = TRUE
        /\ UNCHANGED <<insn, emulN, etype, protected, reg, sync_from, stale, shadow, emulBefore>>
     \/ /\ ~insn.emulable /\ Abort(Failed)
        /\ UNCHANGED <<emulRegs, shadow, emulBefore>>
     \/ /\ Abort("exception") /\ UNCHANGED <<reg, emulCache, sync_to, sync_from, want, stale, shadow, emulBefore>>
  /\ UNCHANGED <<reprotects, write_fault_to_spt>>

(* KVM_GET_REGS and KVM_SET_REGS, also in the middle of an instruction *)
__get_regs ==
  /\ emulPc \in {"wait", "guest"}
  /\ reg' = (IF sync_to /\ emulCache.dirty THEN emulCache.val ELSE reg) /\ stale' = (stale \/ reg' # want) /\ sync_to' = FALSE
  /\ emulCache' = (IF sync_to THEN [emulCache EXCEPT !.dirty = FALSE] ELSE emulCache)
  /\ UNCHANGED <<emulPc, insn, emulN, etype, mmu, sync_from, want, shadow, emulBefore>>
__set_regs_emul ==
  /\ emulPc \in {"wait", "guest"}
  /\ \E v \in 0 .. Mod - 1 : reg' = v /\ want' = v
  /\ sync_from' = TRUE /\ sync_to' = FALSE /\ UNCHANGED stale
  /\ UNCHANGED <<emulPc, insn, emulN, etype, mmu, emulCache, shadow, emulBefore>>
(* complete_emulated_pio: the emulator goes on, with new registers if they were set *)
CompleteIo ==
  /\ emulPc = "wait"
  /\ LET v == IF sync_from THEN reg ELSE Value
     IN  stale' = (stale \/ v # want) /\ Finish((v + 1) % Mod)
  /\ sync_from' = FALSE
  /\ UNCHANGED <<reprotects, write_fault_to_spt, last_retry>>

Emulation == FaultOrExit \/ Decode \/ Skip \/ Retry \/ Execute \/ CompleteIo
EmulNext == EmulHardware \/ Reprotect \/ Emulation \/ __get_regs \/ __set_regs_emul
EmulSpec == EmulInit /\ [][EmulNext]_emulVars /\ WF_emulVars(EmulHardware \/ Emulation)
-----------------------------------------------------------------------------
(* Properties *)

\* What user space or the resumed instruction reads of a register is what the
\* last of them wrote, wherever the value was kept.
NothingStale == ~stale

\* The register of a guest that runs is the one it should have.
RegisterIsKept == emulPc = "guest" => reg = want

\* An instruction of an unprivileged program that KVM cannot emulate does not
\* stop the virtual machine, unless user space asked for that or KVM has done
\* the instruction already and cannot find out where it ends.
UserCannotStop == emulPc = "dead" => insn.cpl = 0 \/ ExitOnError \/ etype = "skip"

\* "an sti; sti; sequence only disable interrupts for the first instruction"
StiOnce == shadow # "none" => shadow # emulBefore
=============================================================================
