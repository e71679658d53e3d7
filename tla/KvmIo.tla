------------------------------- MODULE KvmIo --------------------------------
(***************************************************************************)
(* Accesses that leave the guest, in three parts: hypercalls (with the     *)
(* calls SMILE adds), memory-mapped I/O and port I/O.                      *)
(***************************************************************************)
EXTENDS Integers, Sequences, FiniteSets, Naturals

(***************************************************************************)
(* Hypercalls and halts of the patched KVM (kvm/x86.c): every virtual CPU  *)
(* runs guest code that traps, and userspace completes the calls that KVM  *)
(* hands on.  The patch gives the unknown numbers a meaning per virtual    *)
(* CPU: 2 has a trampoline written into the guest, 1 has its enclave pages *)
(* measured, 0 reads a guest buffer.                                       *)
(*                                                                         *)
(* The guest is a paravirtual lock: a waiter halts until the holder has    *)
(* handed the lock over and kicked it.                                     *)
(***************************************************************************)

CONSTANTS
    CallVcpus,                  \* virtual CPU numbers, a set of naturals
    Features,               \* the PV features the guest was given
    ExitEnabled,            \* KVM_CAP_EXIT_HYPERCALL covers MAP_GPA_RANGE
    Gvas, Gpas, Unmapped,   \* guest addresses and the failed translation
    Translate,              \* the guest's page tables: Gvas -> Gpas \cup {Unmapped}
    MaxCalls                \* bound on the calls of a virtual CPU

ASSUME CallAssumption == MaxCalls \in Nat /\ Unmapped \notin Gpas

VARIABLES
    callPc,                     \* "guest" | "wait" | "userspace" | "block"
                    \* is_64_bit_mode
    called,                 \* ghost: hypercalls and halts the guest executed
    callRip,                    \* instructions skipped
    rax,                    \* results written to RAX
    stat,                   \* vcpu->stat.hypercalls
    cui,                    \* arch.complete_userspace_io is complete_hypercall_exit
    mp_state_call,               \* "runnable" | "halted"
    pv_unhalted,
    handed,                 \* guest: the lock was handed to this virtual CPU
    memory,                 \* guest-physical memory: "guest" | "trampoline"
    records                 \* lines of kvm_count.txt

callVars == <<callPc, called, callRip, rax, stat, cui, mp_state_call, pv_unhalted, handed,
          memory, records>>

CallInit ==
    /\ callPc = [v \in CallVcpus |-> "guest"]
    /\ called = [v \in CallVcpus |-> 0]
    /\ callRip = [v \in CallVcpus |-> 0]
    /\ rax = [v \in CallVcpus |-> 0]
    /\ stat = [v \in CallVcpus |-> 0]
    /\ cui = [v \in CallVcpus |-> FALSE]
    /\ mp_state_call = [v \in CallVcpus |-> "runnable"]
    /\ pv_unhalted = [v \in CallVcpus |-> FALSE]
    /\ handed = [v \in CallVcpus |-> FALSE]
    /\ memory = [p \in Gpas |-> "guest"]
    /\ records = 0

-----------------------------------------------------------------------------
(* Prologue and epilogue of kvm_emulate_hypercall.                         *)

CallEnter(v) == /\ callPc[v] = "guest"
                /\ mp_state_call[v] = "runnable"
                /\ called[v] < MaxCalls
                /\ called' = [called EXCEPT ![v] = @ + 1]

kvm_skip_emulated_instruction(v) == callRip' = [callRip EXCEPT ![v] = @ + 1]

\* A result is written, whatever it is: zero or a negative error number.
Out(v) == /\ rax' = [rax EXCEPT ![v] = @ + 1]
               /\ stat' = [stat EXCEPT ![v] = @ + 1]
               /\ kvm_skip_emulated_instruction(v)

Inside(v) == UNCHANGED <<callPc, cui, mp_state_call>>

\* KVM_EPERM outside the guest's kernel, before anything else is looked at.
NotPermitted(v) ==
    /\ CallEnter(v)
    /\ Out(v)
    /\ Inside(v)
    /\ UNCHANGED <<pv_unhalted, handed, memory, records>>

\* Calls that change nothing of this state but the result: VAPIC_POLL_IRQ,
\* SEND_IPI, SCHED_YIELD, CLOCK_PAIRING, and any that the guest has no feature for.
PlainCall(v) ==
    /\ CallEnter(v)
    /\ Out(v)
    /\ Inside(v)
    /\ UNCHANGED <<pv_unhalted, handed, memory, records>>

-----------------------------------------------------------------------------
(* KVM_HC_KICK_CPU and HLT.                                                *)

\* The local APIC of the target notes the kick, whether the target halts or not.
KickNotes(v, t) == pv_unhalted' = [pv_unhalted EXCEPT ![t] = TRUE]
kvm_pv_kick_cpu_op(v, t) == KickNotes(v, t)

\* The lock's holder hands it over and kicks the new holder.
KVM_HC_KICK_CPU(v, t) ==
    /\ "PV_UNHALT" \in Features
    /\ t # v
    /\ CallEnter(v)
    /\ handed' = [handed EXCEPT ![t] = TRUE]
    /\ kvm_pv_kick_cpu_op(v, t)
    /\ Out(v)
    /\ Inside(v)
    /\ UNCHANGED <<memory, records>>

\* HLT: the instruction is skipped first, then the state changes; it is not a
\* hypercall.  A waiter looks whether the lock is its own, and halts if not.
kvm_vcpu_halt(v) == mp_state_call' = [mp_state_call EXCEPT ![v] = "halted"]

GuestWaits(v) ==
    /\ callPc[v] = "guest"
    /\ ~handed[v]
    /\ called[v] < MaxCalls
    /\ callPc' = [callPc EXCEPT ![v] = "wait"]
    /\ UNCHANGED <<called, callRip, rax, stat, cui, mp_state_call, pv_unhalted, handed, memory, records>>

kvm_emulate_halt(v) ==
    /\ callPc[v] = "wait"
    /\ called' = [called EXCEPT ![v] = @ + 1]
    /\ rax' = [rax EXCEPT ![v] = @ + 1]      \* ghost: HLT counts as finished
    /\ kvm_skip_emulated_instruction(v)
    /\ kvm_vcpu_halt(v)
    /\ callPc' = [callPc EXCEPT ![v] = "block"]
    /\ UNCHANGED <<stat, cui, pv_unhalted, handed, memory, records>>

\* vcpu_block: a halted virtual CPU whose flag is set runs again.
vcpu_block_call(v) ==
    /\ callPc[v] = "block"
    /\ pv_unhalted[v]
    /\ pv_unhalted' = [pv_unhalted EXCEPT ![v] = FALSE]
    /\ mp_state_call' = [mp_state_call EXCEPT ![v] = "runnable"]
    /\ callPc' = [callPc EXCEPT ![v] = "guest"]
    /\ UNCHANGED <<called, callRip, rax, stat, cui, handed, memory, records>>

-----------------------------------------------------------------------------
(* KVM_HC_MAP_GPA_RANGE leaves the kernel and comes back.                  *)

MapGpaRange(v) ==
    /\ ExitEnabled
    /\ CallEnter(v)
    /\ cui' = [cui EXCEPT ![v] = TRUE]
    /\ callPc' = [callPc EXCEPT ![v] = "userspace"]
    /\ UNCHANGED <<callRip, rax, stat, mp_state_call, pv_unhalted, handed, memory, records>>

MapGpaRangeInvalid(v) ==
    /\ ExitEnabled
    /\ CallEnter(v)
    /\ Out(v)
    /\ Inside(v)
    /\ UNCHANGED <<pv_unhalted, handed, memory, records>>

\* The next KVM_RUN calls complete_userspace_io, which clears it first.
CompletedOnce(v) == cui' = [cui EXCEPT ![v] = FALSE]
TakeCui(v) == CompletedOnce(v)

complete_hypercall_exit(v) ==
    /\ cui[v]
    /\ TakeCui(v)
    /\ Out(v)
    /\ callPc' = [callPc EXCEPT ![v] = "guest"]
    /\ UNCHANGED <<called, mp_state_call, pv_unhalted, handed, memory, records>>

-----------------------------------------------------------------------------
(* The patch: numbers KVM does not know, by virtual CPU.                   *)

\* kvm_write_guest refuses the address a failed translation yields.
WriteMapped(g) == IF Translate[g] = Unmapped THEN memory
                  ELSE [memory EXCEPT ![Translate[g]] = "trampoline"]
kvm_write_guest(g) == WriteMapped(g)

WriteTrampoline(v, g) ==
    /\ v = 2
    /\ CallEnter(v)
    /\ memory' = kvm_write_guest(g)
    /\ Out(v)
    /\ Inside(v)
    /\ UNCHANGED <<pv_unhalted, handed, records>>

\* The measurements are recorded when the file can be opened.
kvm_count == records' \in {records, records + 1}

MeasurePages(v) ==
    /\ v = 1
    /\ CallEnter(v)
    /\ kvm_count
    /\ Out(v)
    /\ Inside(v)
    /\ UNCHANGED <<pv_unhalted, handed, memory>>

\* The buffer is read into the hypervisor's stack and forgotten.
ReadBuffer(v) ==
    /\ v = 0
    /\ CallEnter(v)
    /\ Out(v)
    /\ Inside(v)
    /\ UNCHANGED <<pv_unhalted, handed, memory, records>>

\* The holder takes the lock it was handed: a step of the guest.
TakeLock(v) == /\ callPc[v] = "guest" /\ handed[v] /\ handed' = [handed EXCEPT ![v] = FALSE]
               /\ UNCHANGED <<callPc, called, callRip, rax, stat, cui, mp_state_call,
                              pv_unhalted, memory, records>>

CallNext == \E v \in CallVcpus :
    \/ NotPermitted(v)
    \/ PlainCall(v)
    \/ \E t \in CallVcpus : KVM_HC_KICK_CPU(v, t)
    \/ GuestWaits(v) \/ kvm_emulate_halt(v) \/ vcpu_block_call(v)
    \/ MapGpaRange(v) \/ MapGpaRangeInvalid(v)
    \/ complete_hypercall_exit(v)
    \/ \E g \in Gvas : WriteTrampoline(v, g)
    \/ MeasurePages(v) \/ ReadBuffer(v) \/ TakeLock(v)

CallSpec == /\ CallInit
            /\ [][CallNext]_callVars
            /\ \A v \in CallVcpus : WF_callVars(kvm_emulate_halt(v)) /\ WF_callVars(vcpu_block_call(v))
                                /\ WF_callVars(complete_hypercall_exit(v))
                                /\ WF_callVars(TakeLock(v))

-----------------------------------------------------------------------------

CallTypeOK ==
    /\ callPc \in [CallVcpus -> {"guest", "wait", "userspace", "block"}]
    /\ mp_state_call \in [CallVcpus -> {"runnable", "halted"}]
    /\ called \in [CallVcpus -> 0..MaxCalls]
    /\ memory \in [Gpas -> {"guest", "trampoline"}]
    /\ records \in Nat

\* Every trap is finished exactly once: one instruction is skipped and one result
\* written per hypercall or halt, also when userspace finishes it (the exit for
\* MAP_GPA_RANGE skips nothing itself and complete_hypercall_exit runs once).
FinishedOnce ==
    \A v \in CallVcpus :
        /\ callRip[v] + (IF callPc[v] = "userspace" THEN 1 ELSE 0) = called[v]
        /\ rax[v] = callRip[v]
        /\ cui[v] <=> callPc[v] = "userspace"

\* A virtual CPU that was handed the lock takes it, whenever the kick came: before
\* it halted, between its check and HLT, or while it slept (pv_unhalted).
HandedIsTaken == \A v \in CallVcpus : [](handed[v] => <>~handed[v])

\* Only pages the guest has mapped are overwritten, and nothing else of guest
\* memory (kvm_mmu_gva_to_gpa_system may fail, its result is not looked at).
OnlyMappedWritten ==
    \A p \in Gpas : memory[p] = "trampoline" => \E g \in Gvas : Translate[g] = p

-----------------------------------------------------------------------------
(***************************************************************************)
(* Emulated memory accesses of a virtual CPU (kvm/x86.c): memory, devices  *)
(* in the kernel, and devices of userspace, to which an access is handed   *)
(* over piece by piece through kvm_run (KVM_EXIT_MMIO) while the emulated  *)
(* instruction waits.                                                      *)
(*                                                                         *)
(* The byte at address a has the value a; byte i of a plain store has the  *)
(* value Imm(i).  A page has PageSize bytes and a piece, 8 bytes in the    *)
(* program, has Piece.                                                     *)
(***************************************************************************)

CONSTANTS
  PageSize, Piece,
  Pages,      \* how many pages the address space has; the last address is followed by 0
  MaxBytes,   \* the largest operand
  Kernels,    \* the sets of addresses that devices in the kernel may serve
  MmioMaxInsns    \* how many instructions are emulated

ASSUME MmioAssumption ==
  PageSize \in Nat \ {0} /\ Piece \in 1..PageSize /\ MaxBytes \in 1..PageSize /\ Pages \in Nat \ {0}

MaxFragments == 2

VARIABLES
  type,      \* page -> what is behind it
  kernel,    \* the addresses served by devices in the kernel
  mmioPc,        \* where the virtual CPU's thread is
  mmioInsn,      \* the instruction that is emulated: read from, write to, how many bytes
  val,       \* the operand, byte by byte
  frags,     \* mmio_fragments, up to mmio_nr_fragments: gpa, offset of data in val, len
  mmioCur,       \* mmio_cur_fragment
  needed, isWrite, completed, \* mmio_needed, mmio_is_write, mmio_read_completed
  run,       \* kvm_run->mmio
  stored, count, \* address -> what the last store left there, how often it was stored to
  outcome,   \* of the last instruction
  mmioLeft

mmioVars == <<type, kernel, mmioPc, mmioInsn, val, frags, mmioCur, needed, isWrite, completed, run, stored, count,
          outcome, mmioLeft>>
devices == <<type, kernel>>

Addrs == 0..(PageSize * Pages - 1)
MmioNone == -1
Wrap(a) == a % (PageSize * Pages)
Imm(i) == 1000 + i
NoRun == [addr |-> MmioNone, len |-> 0, write |-> FALSE, data |-> <<>>]
Min2(a, b) == IF a < b THEN a ELSE b

MmioInit ==
  /\ type \in [0..(Pages - 1) -> {"ram", "mmio", "none"}] /\ kernel \in Kernels
  /\ mmioPc = "guest" /\ mmioInsn = [kind |-> "none"] /\ val = [i \in 0..(MaxBytes - 1) |-> MmioNone]
  /\ frags = <<>> /\ mmioCur = 0 /\ needed = FALSE /\ isWrite = FALSE /\ completed = FALSE
  /\ run = NoRun /\ stored = [a \in Addrs |-> MmioNone] /\ count = [a \in Addrs |-> 0]
  /\ outcome = "none" /\ mmioLeft = MmioMaxInsns

-----------------------------------------------------------------------------
(* vcpu_mmio_read, vcpu_mmio_write: whole pieces, until one is not served in the kernel *)
Served(addr, n) ==
  LET whole == {h \in 0..n : (h = n \/ h % Piece = 0) /\ \A i \in 0..(h - 1) : addr + i \in kernel}
  IN CHOOSE h \in whole : \A k \in whole : k <= h

(* what has happened to an access so far *)
Access(v, st, ct, fr, fault) == [v |-> v, st |-> st, ct |-> ct, fr |-> fr, fault |-> fault]

(* n bytes at addr are read into val from off on, or stored *)
Move(s, addr, off, n, write) ==
  IF write
  THEN [s EXCEPT !.st = [a \in Addrs |-> IF a \in addr..(addr + n - 1) THEN s.v[off + a - addr] ELSE @[a]],
                 !.ct = [a \in Addrs |-> IF a \in addr..(addr + n - 1) THEN @[a] + 1 ELSE @[a]]]
  ELSE [s EXCEPT !.v = [i \in DOMAIN @ |-> IF i \in off..(off + n - 1) THEN addr + i - off ELSE @[i]]]

(* emulator_read_write_onepage *)
OnePage(s, addr, off, n, write) ==
  LET behind == type[addr \div PageSize]
      h == Served(addr, n)
  IN CASE behind = "none" -> [s EXCEPT !.fault = TRUE]
       [] behind = "ram" -> Move(s, addr, off, n, write)
       [] OTHER -> LET t == Move(s, addr, off, h, write) IN
                   IF h = n THEN t
                   ELSE [t EXCEPT !.fr = Append(@, [gpa |-> addr + h, off |-> off + h, len |-> n - h])]

CrossesNever(addr, n) == FALSE
(* emulator_read_write: an access that crosses a page is made page by page *)
Crosses(addr, n) == addr \div PageSize # (addr + n - 1) \div PageSize
emulator_read_write(addr, n, write) ==
  LET s == Access(val, stored, count, <<>>, FALSE)
      now == PageSize - (addr % PageSize)
      t == OnePage(s, addr, 0, now, write)
  IN IF ~Crosses(addr, n) THEN OnePage(s, addr, 0, n, write)
     ELSE IF t.fault THEN t
     ELSE OnePage(t, Wrap(addr + now), now, n - now, write)

(* kvm_run for the next piece; a store's data with it *)
PieceLen(f) == Min2(Piece, f.len)
PieceOf(f, v, write) ==
  [addr |-> f.gpa, len |-> PieceLen(f), write |-> write,
   data |-> IF write THEN [i \in 1..PieceLen(f) |-> v[f.off + i - 1]] ELSE <<>>]

-----------------------------------------------------------------------------
(* an instruction: a load, a store, or a move from memory to memory *)
Start(kind, from, to, n) ==
  /\ mmioPc = "guest" /\ mmioLeft > 0
  /\ mmioInsn' = [kind |-> kind, from |-> from, to |-> to, n |-> n]
  /\ val' = [i \in DOMAIN val |-> IF kind = "store" /\ i < n THEN Imm(i) ELSE MmioNone]
  /\ mmioPc' = IF kind = "store" THEN "write" ELSE "read"
  /\ stored' = [a \in Addrs |-> MmioNone] /\ count' = [a \in Addrs |-> 0]
  /\ outcome' = "running" /\ mmioLeft' = mmioLeft - 1
  /\ UNCHANGED <<devices, frags, mmioCur, needed, isWrite, completed, run>>

Retire(o) == mmioPc' = "guest" /\ outcome' = o

(* emulator_read_emulated: after userspace has answered the instruction is emulated again and *)
(* finds its operand; else the access is made, and userspace asked for what is missing        *)
EmulateRead ==
  /\ mmioPc = "read" /\ ~completed
  /\ \E s \in {emulator_read_write(mmioInsn.from, mmioInsn.n, FALSE)} :
       /\ val' = s.v /\ stored' = s.st /\ count' = s.ct
       /\ frags' = s.fr
       /\ IF s.fault
          THEN Retire("fault") /\ UNCHANGED <<mmioCur, needed, isWrite, run>>
          ELSE IF s.fr = <<>>
          THEN /\ IF mmioInsn.kind = "move" THEN mmioPc' = "write" /\ UNCHANGED outcome ELSE Retire("done")
               /\ UNCHANGED <<mmioCur, needed, isWrite, run>>
          ELSE /\ needed' = TRUE /\ mmioCur' = 1 /\ isWrite' = FALSE
               /\ run' = PieceOf(s.fr[1], s.v, FALSE)
               /\ mmioPc' = "exit" /\ UNCHANGED outcome
  /\ UNCHANGED <<devices, mmioInsn, completed, mmioLeft>>

(* read_prepare *)
ClearCompleted == FALSE
ReadPrepared ==
  /\ mmioPc = "read" /\ completed
  /\ completed' = ClearCompleted
  /\ IF mmioInsn.kind = "move" THEN mmioPc' = "write" /\ UNCHANGED outcome ELSE Retire("done")
  /\ UNCHANGED <<devices, mmioInsn, val, frags, mmioCur, needed, isWrite, run, stored, count, mmioLeft>>

(* an exception comes before an exit to userspace *)
Faulted(s) == s.fault
(* emulator_write_emulated: the emulation goes on, userspace is told afterwards *)
EmulateWrite ==
  /\ mmioPc = "write"
  /\ \E s \in {emulator_read_write(mmioInsn.to, mmioInsn.n, TRUE)} :
       /\ val' = s.v /\ stored' = s.st /\ count' = s.ct
       /\ frags' = s.fr
       /\ IF Faulted(s)
          THEN Retire("fault") /\ UNCHANGED <<mmioCur, needed, isWrite, run>>
          ELSE IF s.fr = <<>>
          THEN Retire("done") /\ UNCHANGED <<mmioCur, needed, isWrite, run>>
          ELSE /\ needed' = TRUE /\ mmioCur' = 1 /\ isWrite' = TRUE
               /\ run' = PieceOf(s.fr[1], s.v, TRUE)
               /\ mmioPc' = "exit" /\ UNCHANGED outcome
  /\ UNCHANGED <<devices, mmioInsn, completed, mmioLeft>>

(* kvm_sev_es_mmio_read, kvm_sev_es_mmio_write: the guest asks itself, for one range *)
SevMmio(addr, n, write) ==
  /\ mmioPc = "guest" /\ mmioLeft > 0 /\ addr + n - 1 \in Addrs
  /\ mmioLeft' = mmioLeft - 1
  /\ mmioInsn' = [kind |-> IF write THEN "sevstore" ELSE "sevload", from |-> addr, to |-> addr, n |-> n]
  /\ \E v \in {[i \in DOMAIN val |-> IF write /\ i < n THEN Imm(i) ELSE MmioNone]} :
     \E h \in {Served(addr, n)} :
     \E s \in {Move(Access(v, [a \in Addrs |-> MmioNone], [a \in Addrs |-> 0], <<>>, FALSE),
                    addr, 0, h, write)} :
       /\ val' = s.v /\ stored' = s.st /\ count' = s.ct
       /\ IF h = n
          THEN Retire("done") /\ UNCHANGED <<frags, mmioCur, needed, isWrite, run>>
          ELSE /\ frags' = <<[gpa |-> addr + h, off |-> h, len |-> n - h]>>
               /\ needed' = TRUE /\ mmioCur' = 1 /\ isWrite' = write
               /\ run' = PieceOf(frags'[1], s.v, write)
               /\ mmioPc' = "exit" /\ outcome' = "running"
  /\ UNCHANGED <<devices, completed>>

-----------------------------------------------------------------------------
(* userspace serves what kvm_run says, and calls KVM_RUN again *)
Userspace ==
  /\ mmioPc = "exit" /\ mmioPc' = "complete"
  /\ IF run.write
     THEN /\ stored' = [a \in Addrs |-> IF a \in run.addr..(run.addr + run.len - 1)
                                        THEN run.data[a - run.addr + 1] ELSE stored[a]]
          /\ count' = [a \in Addrs |-> IF a \in run.addr..(run.addr + run.len - 1)
                                       THEN count[a] + 1 ELSE count[a]]
          /\ run' = run
     ELSE /\ run' = [run EXCEPT !.data = [i \in 1..run.len |-> run.addr + i - 1]]
          /\ UNCHANGED <<stored, count>>
  /\ UNCHANGED <<devices, mmioInsn, val, frags, mmioCur, needed, isWrite, completed, outcome, mmioLeft>>

(* complete_emulated_mmio and complete_sev_es_emulated_mmio *)
LastPiece(f) == f.len <= Piece
Sev == mmioInsn.kind \in {"sevload", "sevstore"}
Complete ==
  /\ mmioPc = "complete"
  /\ \E f \in {frags[mmioCur]}, len \in {Min2(Piece, frags[mmioCur].len)} :
     /\ val' = IF isWrite THEN val
               ELSE [i \in DOMAIN val |-> IF i \in f.off..(f.off + len - 1)
                                          THEN run.data[i - f.off + 1] ELSE val[i]]
     /\ IF LastPiece(f)
        THEN mmioCur' = mmioCur + 1 /\ frags' = frags
        ELSE /\ mmioCur' = mmioCur
             /\ frags' = [frags EXCEPT ![mmioCur] = [gpa |-> f.gpa + len, off |-> f.off + len,
                                                 len |-> f.len - len]]
     /\ IF mmioCur' > Len(frags)
        THEN /\ needed' = FALSE /\ run' = run
             /\ IF isWrite \/ Sev
                THEN Retire("done") /\ completed' = completed
                ELSE mmioPc' = "read" /\ completed' = TRUE /\ UNCHANGED outcome
        ELSE /\ run' = PieceOf(frags'[mmioCur'], val, isWrite)
             /\ mmioPc' = "exit" /\ UNCHANGED <<needed, completed, outcome>>
  /\ UNCHANGED <<devices, mmioInsn, isWrite, stored, count, mmioLeft>>

Finished == mmioPc = "guest" /\ mmioLeft = 0 /\ UNCHANGED mmioVars
MmioNext ==
  \/ \E a, b \in Addrs, n \in 1..MaxBytes :
       Start("load", a, MmioNone, n) \/ Start("store", MmioNone, a, n) \/ Start("move", a, b, n)
  \/ \E a \in Addrs, n \in 1..MaxBytes, w \in BOOLEAN : SevMmio(a, n, w)
  \/ EmulateRead \/ ReadPrepared \/ EmulateWrite \/ Userspace \/ Complete \/ Finished
MmioSpec == MmioInit /\ [][MmioNext]_mmioVars

-----------------------------------------------------------------------------
(* The state has its types, and an access never has more fragments than there is room for *)
(* (WARN_ON), also when it crosses a page.                                                 *)
MmioTypeOK ==
  /\ Len(frags) <= MaxFragments /\ mmioCur \in 0..(MaxFragments + 1)
  /\ mmioPc \in {"guest", "read", "write", "exit", "complete"}
  /\ run.len \in 0..Piece

(* Userspace is asked exactly while an access waits for it: BUG_ON(!mmio_needed) on completion *)
(* and WARN_ON(mmio_needed) when the guest runs again never trigger, nor is an operand that     *)
(* userspace gave for one instruction left for the next.                                        *)
OneAccessAtATime ==
  /\ needed <=> mmioPc \in {"exit", "complete"}
  /\ mmioPc = "guest" => ~completed
  /\ completed => mmioInsn.kind \in {"load", "move"} /\ mmioPc = "read"

(* An instruction that is done has read every byte of its operand from its own address, *)
(* whoever served it: memory, a device in the kernel, or userspace in several exits.     *)
LoadExact ==
  mmioPc = "guest" /\ outcome = "done" /\ mmioInsn.kind \in {"load", "move", "sevload"} =>
    \A i \in 0..(mmioInsn.n - 1) : val[i] = Wrap(mmioInsn.from + i)

(* the bytes of a store that lie on the page it begins on, when it goes on to the next page *)
FirstPart(to, n) ==
  LET now == PageSize - (to % PageSize) IN IF now < n THEN 0..(now - 1) ELSE {}
StoredSome(v, st, ct, to, part) ==
  \A a \in Addrs : ct[a] = 0 \/ (ct[a] = 1 /\ \E i \in part : a = Wrap(to + i) /\ st[a] = v[i])

(* An instruction that is done has stored each byte of its operand exactly once, at its own  *)
(* address, and nothing else.  One that faults may have stored what lies on its first page,   *)
(* which is written before the second page is looked at: each of those bytes at most once, at *)
(* its own address, and none of the second page, whatever userspace was still to be asked for *)
(* on the first; it has stored nothing at all when it stays on one page or its operand could   *)
(* not be read.                                                                                *)
StoredOnce ==
  LET writes == mmioInsn.kind \in {"store", "move", "sevstore"}
      n == IF writes THEN mmioInsn.n ELSE 0
  IN mmioPc = "guest" =>
    /\ outcome = "done" =>
         \A a \in Addrs :
           IF \E i \in 0..(n - 1) : a = Wrap(mmioInsn.to + i)
           THEN count[a] = 1 /\ \A i \in 0..(n - 1) : a = Wrap(mmioInsn.to + i) => stored[a] = val[i]
           ELSE count[a] = 0
    /\ outcome = "fault" =>
         StoredSome(val, stored, count, mmioInsn.to, IF writes THEN FirstPart(mmioInsn.to, n) ELSE {})

-----------------------------------------------------------------------------
(***************************************************************************)
(* Port I/O of a virtual CPU (kvm/x86.c): IN and OUT handled at the exit   *)
(* (kvm_fast_pio), IN and OUT of the emulator, also with several items,    *)
(* and the string I/O of an encrypted guest (SEV-ES).  A port is served by *)
(* the kernel, or by userspace after an exit; what was begun is completed  *)
(* when userspace runs the virtual CPU again, and in between userspace may *)
(* have changed its registers.                                             *)
(*                                                                         *)
(* The items are numbered: item k of an instruction is the pair            *)
(* <<instruction, k>>.                                                     *)
(***************************************************************************)

CONSTANTS
  PioMaxInsns,  \* how many instructions are executed
  MaxItems,  \* items of an instruction with several
  PageItems  \* how many items fit the page they are exchanged in

ASSUME PioAssumption == MaxItems \in Nat \ {0} /\ PageItems \in Nat \ {0}

VARIABLES
  pioPc,       \* "guest", "exit" (in userspace), "resume" (KVM_RUN again)
  pioInsn,     \* the instruction: its number, kind, direction, items and port
  pioRip,      \* how far the guest is
  moved,    \* userspace has set rip since the exit
  pio,      \* arch.pio: items under way, direction; and the data page
  linear,   \* pio.linear_rip
  callback, \* complete_userspace_io
  sev,      \* sev_pio_count, and how many items sev_pio_data has advanced
  got,      \* the items the guest received, in order
  pioSeen,     \* the items a device saw, in order
  skips     \* how often rip was advanced for this instruction

pioVars == <<pioPc, pioInsn, pioRip, moved, pio, linear, callback, sev, got, pioSeen, skips>>

NoPio == [count |-> 0, in |-> FALSE, data |-> <<>>]
NoSev == [count |-> 0, at |-> 0]
Items(from, n) == [k \in 1..n |-> <<pioInsn.no, from + k>>]

PioInit ==
  /\ pioPc = "guest" /\ pioInsn = [no |-> 0, kind |-> "none", in |-> FALSE, items |-> 0, port |-> "other"]
  /\ pioRip = 0 /\ moved = FALSE /\ pio = NoPio /\ linear = 0 /\ callback = "none" /\ sev = NoSev
  /\ got = <<>> /\ pioSeen = <<>> /\ skips = 0

(* the guest's next instruction exits *)
Kinds == {"fast", "emulated", "sev"}
Begin(kind, in, items, port) ==
  /\ pioPc = "guest" /\ pioInsn.no < PioMaxInsns
  /\ items > 1 => kind # "fast"
  /\ kind = "emulated" => items <= PageItems
  /\ pioInsn' = [no |-> pioInsn.no + 1, kind |-> kind, in |-> in, items |-> items, port |-> port]
  /\ pioPc' = "begin" /\ moved' = FALSE
  /\ got' = <<>> /\ pioSeen' = <<>> /\ skips' = 0
  /\ sev' = IF kind = "sev" THEN [count |-> items, at |-> 0] ELSE sev
  /\ UNCHANGED <<pioRip, pio, linear, callback>>

Skip == pioRip' = pioRip + 1 /\ skips' = skips + 1
NoSkip == UNCHANGED <<pioRip, skips>>

-----------------------------------------------------------------------------
(* kvm_fast_pio_in, kvm_fast_pio_out: served by the kernel *)
FastKernel ==
  /\ pioPc = "begin" /\ pioInsn.kind = "fast"
  /\ got' = IF pioInsn.in THEN Items(0, 1) ELSE got
  /\ pioSeen' = IF pioInsn.in THEN pioSeen ELSE Items(0, 1)
  /\ pio' = NoPio /\ pioPc' = "guest" /\ Skip
  /\ UNCHANGED <<pioInsn, moved, linear, callback, sev>>

(* by userspace: "OUT 0x7e" is skipped before the exit, the others afterwards *)
Quirk == ~pioInsn.in /\ pioInsn.port = "0x7e"
FastExit ==
  /\ pioPc = "begin" /\ pioInsn.kind = "fast"
  /\ pio' = [count |-> 1, in |-> pioInsn.in, data |-> IF pioInsn.in THEN <<>> ELSE Items(0, 1)]
  /\ IF Quirk THEN Skip ELSE NoSkip
  /\ callback' = IF pioInsn.in THEN "in" ELSE IF Quirk THEN "out7e" ELSE "out"
  /\ linear' = IF Quirk THEN linear ELSE pioRip
  /\ pioPc' = "exit"
  /\ UNCHANGED <<pioInsn, moved, sev, got, pioSeen>>

(* complete_fast_pio_in, complete_fast_pio_out, complete_fast_pio_out_port_0x7e *)
SkipDue == callback # "out7e" /\ pioRip = linear
FastComplete ==
  /\ pioPc = "resume" /\ callback \in {"in", "out", "out7e"}
  /\ got' = IF callback = "in" /\ pioRip = linear THEN pio.data ELSE got
  /\ IF SkipDue THEN Skip ELSE NoSkip
  /\ pio' = NoPio /\ callback' = "none" /\ pioPc' = "guest"
  /\ UNCHANGED <<pioInsn, moved, linear, sev, pioSeen>>

-----------------------------------------------------------------------------
(* x86_emulate_instruction: the items of the emulator's IN or OUT.  An OUT is done when it is *)
(* handed over; an IN is emulated again when its data is there.                                *)
EmulatedKernel ==
  /\ pioPc = "begin" /\ pioInsn.kind = "emulated"
  /\ got' = IF pioInsn.in THEN Items(0, pioInsn.items) ELSE got
  /\ pioSeen' = IF pioInsn.in THEN pioSeen ELSE Items(0, pioInsn.items)
  /\ pio' = NoPio /\ pioPc' = "guest" /\ Skip
  /\ UNCHANGED <<pioInsn, moved, linear, callback, sev>>

HandedOver(p) == [p EXCEPT !.count = IF pioInsn.in THEN @ ELSE 0]
EmulatedExit ==
  /\ pioPc = "begin" /\ pioInsn.kind = "emulated"
  /\ pio' = HandedOver([count |-> pioInsn.items, in |-> pioInsn.in,
                        data |-> IF pioInsn.in THEN <<>> ELSE Items(0, pioInsn.items)])
  /\ callback' = IF pioInsn.in THEN "emulated" ELSE "none"
  /\ IF pioInsn.in THEN NoSkip ELSE Skip
  /\ pioPc' = "exit"
  /\ UNCHANGED <<pioInsn, moved, linear, sev, got, pioSeen>>

EmulatedComplete ==
  /\ pioPc = "resume" /\ callback = "emulated"
  /\ got' = pio.data
  /\ pio' = NoPio /\ callback' = "none" /\ pioPc' = "guest" /\ Skip
  /\ UNCHANGED <<pioInsn, moved, linear, sev, pioSeen>>

(* an OUT of the emulator left nothing to complete *)
ResumeNothing ==
  /\ pioPc = "resume" /\ callback = "none"
  /\ pioPc' = "guest"
  /\ UNCHANGED <<pioInsn, pioRip, moved, pio, linear, callback, sev, got, pioSeen, skips>>

-----------------------------------------------------------------------------
(* kvm_sev_es_outs, kvm_sev_es_ins: page by page, each served by the kernel or userspace; the *)
(* guest advances its own rip                                                                  *)
Chunk == IF sev.count < PageItems THEN sev.count ELSE PageItems
Advanced == [count |-> sev.count - Chunk, at |-> sev.at + Chunk]
SevKernel ==
  /\ pioPc = "begin" /\ pioInsn.kind = "sev"
  /\ got' = IF pioInsn.in THEN got \o Items(sev.at, Chunk) ELSE got
  /\ pioSeen' = IF pioInsn.in THEN pioSeen ELSE pioSeen \o Items(sev.at, Chunk)
  /\ sev' = Advanced /\ pio' = NoPio
  /\ pioPc' = IF sev'.count = 0 THEN "guest" ELSE "begin"
  /\ UNCHANGED <<pioInsn, pioRip, moved, linear, callback, skips>>

SevExit ==
  /\ pioPc = "begin" /\ pioInsn.kind = "sev"
  /\ pio' = [count |-> Chunk, in |-> pioInsn.in,
             data |-> IF pioInsn.in THEN <<>> ELSE Items(sev.at, Chunk)]
  /\ sev' = IF pioInsn.in THEN sev ELSE Advanced
  /\ callback' = IF pioInsn.in THEN "sevin" ELSE "sevout"
  /\ pioPc' = "exit"
  /\ UNCHANGED <<pioInsn, pioRip, moved, linear, got, pioSeen, skips>>

(* complete_sev_es_emulated_outs, complete_sev_es_emulated_ins *)
SevComplete ==
  /\ pioPc = "resume" /\ callback \in {"sevin", "sevout"}
  /\ got' = IF callback = "sevin" THEN got \o pio.data ELSE got
  /\ sev' = IF callback = "sevin" THEN [count |-> sev.count - pio.count, at |-> sev.at + pio.count]
                                  ELSE sev
  /\ pio' = NoPio /\ callback' = "none"
  /\ pioPc' = IF sev'.count = 0 THEN "guest" ELSE "begin"
  /\ UNCHANGED <<pioInsn, pioRip, moved, linear, pioSeen, skips>>

-----------------------------------------------------------------------------
(* userspace sees the items of an OUT, gives those of an IN, and may move rip *)
UserServes ==
  /\ pioPc = "exit"
  /\ pioPc' = "resume"
  /\ IF pioInsn.in
     THEN /\ pio' = [pio EXCEPT !.data = Items(IF pioInsn.kind = "sev" THEN sev.at ELSE 0, pio.count)]
          /\ UNCHANGED pioSeen
     ELSE pioSeen' = pioSeen \o pio.data /\ UNCHANGED pio
  /\ UNCHANGED <<pioInsn, pioRip, moved, linear, callback, sev, got, skips>>
UserMovesRip ==
  /\ pioPc = "exit" /\ pioInsn.kind = "fast" /\ ~moved
  /\ moved' = TRUE /\ pioRip' = pioRip + 10
  /\ UNCHANGED <<pioPc, pioInsn, pio, linear, callback, sev, got, pioSeen, skips>>

Done == pioPc = "guest" /\ pioInsn.no = PioMaxInsns /\ UNCHANGED pioVars
PioNext ==
  \/ \E kind \in Kinds, in \in BOOLEAN, items \in 1..MaxItems, port \in {"0x7e", "other"} :
       Begin(kind, in, items, port)
  \/ FastKernel \/ FastExit \/ FastComplete
  \/ EmulatedKernel \/ EmulatedExit \/ EmulatedComplete \/ ResumeNothing
  \/ SevKernel \/ SevExit \/ SevComplete
  \/ UserServes \/ UserMovesRip \/ Done
PioSpec == PioInit /\ [][PioNext]_pioVars

-----------------------------------------------------------------------------
(* The state has its types, and what is completed is what was begun: complete_fast_pio_in's *)
(* BUG_ON(pio.count != 1), complete_emulated_pio's BUG_ON(!pio.count) and                   *)
(* WARN_ON(pio.count) when the guest runs or a new IN begins never trigger.                 *)
PioTypeOK ==
  /\ pio.count \in 0..MaxItems /\ sev.count \in 0..MaxItems
  /\ pioPc = "resume" /\ callback = "in" => pio.count = 1
  /\ pioPc = "resume" /\ callback = "emulated" => pio.count = pioInsn.items
  /\ pioPc \in {"guest", "begin"} => pio.count = 0 /\ callback = "none"
  /\ pioPc = "resume" /\ callback = "none" => pio.count = 0

(* A device sees the items of every OUT, and the guest gets those of every IN, each exactly *)
(* once and in order, however they are split between the kernel and userspace.               *)
ItemsInOrder ==
  pioPc = "guest" /\ pioInsn.kind # "none" /\ ~moved =>
    /\ got = IF pioInsn.in THEN Items(0, pioInsn.items) ELSE <<>>
    /\ pioSeen = IF pioInsn.in THEN <<>> ELSE Items(0, pioInsn.items)

(* An instruction is skipped exactly once when it is done - before the exit for "OUT 0x7e", *)
(* as userspace relies on, and after it for the others - and not at all when userspace has   *)
(* moved rip in between: it stays where userspace put it.                                     *)
SkippedOnce ==
  pioPc = "guest" /\ pioInsn.kind \in {"fast", "emulated"} =>
    skips = IF moved /\ ~Quirk THEN 0 ELSE 1
=============================================================================
