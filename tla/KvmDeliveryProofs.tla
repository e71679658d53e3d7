------------------------- MODULE KvmDeliveryProofs --------------------------
(***************************************************************************)
(* What kvm/x86.c delivers (MCKvmDelivery), for every value of the         *)
(* constants: what the guest had is kept over save and restore, SMM, the   *)
(* handler of a machine check, debugging, and emulated instructions.       *)
(***************************************************************************)
EXTENDS MCKvmDelivery, TLAPS

-----------------------------------------------------------------------------
(***************************************************************************)
(* An emulated instruction.  Where the value of the register is kept is    *)
(* told by where the instruction is and which copy was written last.       *)
(***************************************************************************)
EmulInv ==
    /\ emulPc \in {"guest", "decode", "exec", "wait", "dead"}
    /\ emulCache \in [valid : BOOLEAN, dirty : BOOLEAN, val : Nat] /\ reg \in Nat /\ want \in Nat
    /\ sync_to \in BOOLEAN /\ sync_from \in BOOLEAN
    /\ emulPc # "wait" => reg = want /\ ~sync_to
    /\ emulPc = "exec" => ~emulCache.valid /\ ~sync_from
    /\ emulPc = "wait" =>
         /\ sync_to => emulCache.dirty /\ ~sync_from
         /\ ~sync_to => reg = want
         /\ ~sync_from => emulCache.valid /\ emulCache.val = want
    /\ UserCannotStop /\ StiOnce /\ NothingStale

LEMMA EmulInitInv == EmulInit => EmulInv
<1> SUFFICES ASSUME EmulInit PROVE EmulInv
  OBVIOUS
<1>1. emulCache \in [valid : BOOLEAN, dirty : BOOLEAN, val : Nat] /\ reg \in Nat /\ want \in Nat
  BY DEF EmulInit, NoCache
<1>2. sync_to \in BOOLEAN /\ sync_from \in BOOLEAN /\ ~sync_to /\ ~stale
  BY Zenon DEF EmulInit
<1>3. emulPc = "guest" /\ reg = want /\ shadow = "none"
  BY DEF EmulInit
<1>4. QED
  BY <1>1, <1>2, <1>3 DEF EmulInv, UserCannotStop, StiOnce, NothingStale

LEMMA NextValue == \A n \in Nat : (n + 1) % Mod \in Nat
  BY EmulateAssumption

LEMMA EmulNextInv ==
    ASSUME EmulInv, EmulNext
    PROVE  EmulInv'
<1> USE NextValue DEF EmulInv
<1>a. NoCache \in [valid : BOOLEAN, dirty : BOOLEAN, val : Nat] /\ ~NoCache.valid
  BY DEF NoCache
<1>1. CASE EmulHardware
  BY <1>1 DEF EmulHardware, Fresh, UserCannotStop, StiOnce, NothingStale
<1>2. CASE Reprotect
  BY <1>2 DEF Reprotect, emulRegs, UserCannotStop, StiOnce, NothingStale
<1>3. CASE FaultOrExit
  BY <1>3 DEF FaultOrExit, emulRegs, UserCannotStop, StiOnce, NothingStale
<1>4. ASSUME NEW how, Abort(how) PROVE
         /\ emulPc' \in {"dead", "guest"} /\ (emulPc' = "dead" => how = "dead" /\ insn' = insn /\ etype' = etype)
  BY <1>4 DEF Abort, Fresh
<1>5. (Failed = "dead" => insn.cpl = 0 \/ ExitOnError \/ etype = "skip")
  BY DEF Failed, handle_emulation_failure
<1>6. CASE Decode
  <2>1. /\ emulPc = "decode" /\ emulCache' = NoCache /\ sync_from' = FALSE
        /\ UNCHANGED <<reg, sync_to, want, stale, shadow, emulBefore>>
    BY <1>6 DEF Decode
  <2>2. \/ emulPc' = "exec"
        \/ emulPc' \in {"dead", "guest"} /\ (emulPc' = "dead" => UserCannotStop')
    BY <1>4, <1>5, <1>6 DEF Decode, UserCannotStop
  <2>3. QED
    BY <1>a, <2>1, <2>2 DEF UserCannotStop, StiOnce, NothingStale
<1>7. CASE Retry
  <2>1. emulPc = "exec" /\ UNCHANGED <<reg, emulCache, sync_to, sync_from, want, stale, shadow, emulBefore>>
    BY <1>7 DEF Retry, emulRegs
  <2>2. emulPc' = "guest"
    BY <1>7 DEF Retry, Abort
  <2>3. QED
    BY <2>1, <2>2 DEF UserCannotStop, StiOnce, NothingStale
<1>8. CASE Execute
  <2>0. emulPc = "exec" /\ Value = reg
    BY <1>8 DEF Execute, Value
  <2>1. CASE Finish((Value + 1) % Mod) /\ UNCHANGED <<sync_from, stale>>
    BY <2>0, <2>1 DEF Finish, Fresh, UserCannotStop, StiOnce, NothingStale, toggle_interruptibility
  <2>2. CASE /\ emulPc' = "wait" /\ emulCache' = Written((Value + 1) % Mod) /\ want' = (want + 1) % Mod /\ sync_to' = TRUE
             /\ UNCHANGED <<insn, reg, sync_from, stale, shadow, emulBefore>>
    BY <2>0, <2>2 DEF Written, UserCannotStop, StiOnce, NothingStale
  <2>3. CASE (Abort(Failed) \/ Abort("exception")) /\ UNCHANGED <<reg, emulCache, sync_to, sync_from, want, stale, shadow, emulBefore>>
    <3>1. emulPc' \in {"dead", "guest"} /\ (emulPc' = "dead" => UserCannotStop')
      BY <1>4, <1>5, <2>3 DEF UserCannotStop
    <3>2. QED
      BY <2>0, <2>3, <3>1 DEF UserCannotStop, StiOnce, NothingStale
  <2>4. QED
    BY <1>8, <2>1, <2>2, <2>3 DEF Execute, emulRegs
<1>9. CASE __get_regs
  BY <1>9 DEF __get_regs, UserCannotStop, StiOnce, NothingStale
<1>10. CASE __set_regs_emul
  <2>1. PICK w \in 0 .. Mod - 1 : reg' = w /\ want' = w
    BY <1>10 DEF __set_regs_emul
  <2>2. reg' \in Nat /\ want' \in Nat /\ reg' = want'
    BY <2>1, EmulateAssumption
  <2>3. sync_from' \in BOOLEAN /\ sync_to' \in BOOLEAN /\ sync_from' /\ ~sync_to'
    BY <1>10, Zenon DEF __set_regs_emul
  <2>4. emulPc \in {"wait", "guest"} /\ UNCHANGED <<emulPc, insn, emulCache, shadow, emulBefore, stale>>
    BY <1>10 DEF __set_regs_emul
  <2>5. QED
    BY <2>2, <2>3, <2>4 DEF UserCannotStop, StiOnce, NothingStale
<1>11. CASE CompleteIo
  <2>1. (IF sync_from THEN reg ELSE Value) = want /\ emulPc = "wait"
    BY <1>11 DEF CompleteIo, Value
  <2>2. Finish((want + 1) % Mod) /\ stale' = (stale \/ want # want) /\ sync_from' = FALSE
    BY <1>11, <2>1 DEF CompleteIo
  <2>3. QED
    BY <2>1, <2>2 DEF Finish, Fresh, UserCannotStop, StiOnce, NothingStale, toggle_interruptibility
<1>13. CASE Skip
  BY <1>a, <1>13 DEF Skip, Fresh, UserCannotStop, StiOnce, NothingStale
<1>12. QED
  BY <1>1, <1>2, <1>3, <1>6, <1>7, <1>8, <1>9, <1>10, <1>11, <1>13 DEF EmulNext, Emulation

-----------------------------------------------------------------------------
(***************************************************************************)
(* Debugging from two sides.  While an emulated instruction waits, the     *)
(* flags it was decoded with hold no trace flag but the guest's.           *)
(***************************************************************************)
DebugInv ==
    /\ tf \in BOOLEAN /\ gtf \in BOOLEAN /\ ctxt \in [wait : BOOLEAN, tf : BOOLEAN]
    /\ ctxt.wait /\ ctxt.tf => gtf
    /\ LoadedRegisters /\ TraceFlagIsTheGuests

LEMMA DebugInitInv == DebugInit => DebugInv
<1> SUFFICES ASSUME DebugInit PROVE DebugInv
  OBVIOUS
<1>1. tf \in BOOLEAN /\ gtf \in BOOLEAN /\ ~tf
  BY Zenon DEF DebugInit
<1>2. ctxt \in [wait : BOOLEAN, tf : BOOLEAN] /\ ~ctxt.wait
  BY DEF DebugInit, NoCtxt
<1>3. LoadedRegisters
  BY DEF DebugInit, LoadedRegisters, Off
<1>4. QED
  BY <1>1, <1>2, <1>3 DEF DebugInv, TraceFlagIsTheGuests

LEMMA DebugNextInv ==
    ASSUME DebugInv, DebugNext
    PROVE  DebugInv'
<1> USE DEF DebugInv
\* the raised flag after __kvm_set_rflags
<1>a. ASSUME NEW t \in BOOLEAN, NEW gd, NEW at, NEW r, __kvm_set_rflags(t, gd, at, r)
      PROVE  tf' \in BOOLEAN /\ ("step" \notin gd /\ tf' => t)
  BY <1>a, Zenon DEF __kvm_set_rflags
<1>b. ASSUME UNCHANGED dregs PROVE LoadedRegisters' /\ guest_debug' = guest_debug
  BY <1>b DEF dregs, LoadedRegisters
<1>c. init_emulate_ctxt \in BOOLEAN /\ (init_emulate_ctxt => gtf)
  BY Zenon DEF init_emulate_ctxt, kvm_get_rflags, TraceFlagIsTheGuests
<1>d. ASSUME NEW kind, NEW t0 \in BOOLEAN, Writeback(kind, t0), t0 => gtf, UNCHANGED dregs
      PROVE  tf' \in BOOLEAN /\ gtf' \in BOOLEAN /\ TraceFlagIsTheGuests' /\ LoadedRegisters'
  <2>1. PICK at \in Addr, t \in {t0} \cup BOOLEAN :
          /\ (t = t0 /\ UNCHANGED gtf) \/ gtf' = t
          /\ __kvm_set_rflags(t, guest_debug, at, singlestep_rip)
    BY <1>d DEF Writeback
  <2>2. t \in BOOLEAN
    BY <1>d
  <2>3. gtf' \in BOOLEAN /\ (t => gtf')
    <3>1. CASE t = t0 /\ gtf' = gtf
      BY <1>d, <3>1
    <3>2. CASE gtf' = t
      BY <2>2, <3>2, Zenon
    <3>3. QED
      BY <2>1, <3>1, <3>2
  <2>4. QED
    BY <1>a, <1>b, <1>d, <2>1, <2>2, <2>3 DEF TraceFlagIsTheGuests
<1>1. CASE kvm_arch_vcpu_ioctl_set_guest_debug
  <2>1. PICK gd \in SUBSET {"step", "hw_bp"}, inject \in {"no", "DB"} :
        \E regs \in IF "hw_bp" \in gd THEN [DbRegs -> Addr] ELSE {dbg_db},
           d7 \in IF "hw_bp" \in gd THEN Dr7s ELSE {guest_debug_dr7} :
          /\ guest_debug' = gd
          /\ Breakpoints(gd, regs, d7)
          /\ kvm_update_dr7(gd, dr7, IF "hw_bp" \in gd THEN d7 ELSE guest_debug_dr7)
          /\ StepFlags(gd)
    BY <1>1 DEF kvm_arch_vcpu_ioctl_set_guest_debug
  <2>2. PICK regs, d7 :
          /\ guest_debug' = gd
          /\ Breakpoints(gd, regs, d7)
          /\ kvm_update_dr7(gd, dr7, IF "hw_bp" \in gd THEN d7 ELSE guest_debug_dr7)
          /\ StepFlags(gd)
    BY <2>1
  <2>3. UNCHANGED <<db, dr7, gtf, ctxt>>
    BY <1>1 DEF kvm_arch_vcpu_ioctl_set_guest_debug
  <2>4. LoadedRegisters'
    BY <2>2, <2>3 DEF LoadedRegisters, Breakpoints, kvm_update_dr7
  <2>5. PICK at : __kvm_set_rflags(kvm_get_rflags(guest_debug), gd, rip, at)
    BY <2>2 DEF StepFlags
  <2>6. tf' \in BOOLEAN /\ ("step" \notin gd /\ tf' => gtf)
    BY <1>a, <1>c, <2>5 DEF init_emulate_ctxt
  <2>7. QED
    BY <2>2, <2>3, <2>4, <2>6 DEF TraceFlagIsTheGuests
<1>2. CASE __set_regs_debug \/ kvm_task_switch
  <2>1. PICK at \in Addr, t \in BOOLEAN : gtf' = t /\ __kvm_set_rflags(t, guest_debug, at, singlestep_rip)
    BY <1>2 DEF __set_regs_debug, kvm_task_switch
  <2>2. ~ctxt.wait /\ UNCHANGED <<dregs, ctxt>>
    BY <1>2 DEF __set_regs_debug, kvm_task_switch
  <2>3. QED
    BY <1>a, <1>b, <2>1, <2>2 DEF TraceFlagIsTheGuests
<1>3. CASE kvm_set_dr
  <2>1. UNCHANGED <<guest_debug, dbg_db, guest_debug_dr7, tf, gtf, ctxt>>
    BY <1>3 DEF kvm_set_dr
  <2>2. CASE \E i \in DbRegs, a \in Addr :
          /\ db' = [db EXCEPT ![i] = a] /\ eff_db' = EffStays(i, a)
          /\ UNCHANGED <<dr7, hw_dr7, bp_enabled>>
    BY <2>1, <2>2 DEF LoadedRegisters, EffStays, TraceFlagIsTheGuests
  <2>3. CASE \E d \in Dr7s : dr7' = d /\ kvm_update_dr7(guest_debug, d, guest_debug_dr7) /\ UNCHANGED <<db, eff_db>>
    BY <2>1, <2>3 DEF LoadedRegisters, kvm_update_dr7, TraceFlagIsTheGuests
  <2>4. QED
    BY <1>3, <2>2, <2>3 DEF kvm_set_dr
<1>4. CASE kvm_vcpu_ioctl_x86_set_debugregs
  BY <1>4 DEF kvm_vcpu_ioctl_x86_set_debugregs, LoadedRegisters, kvm_update_dr7, TraceFlagIsTheGuests
<1>5. CASE DebugHardware
  <2>1. UNCHANGED <<dregs, ctxt>> /\ ~ctxt.wait /\ (UNCHANGED <<tf, gtf>> \/ (tf' \in BOOLEAN /\ gtf' = tf'))
    BY <1>5 DEF DebugHardware
  <2>2. QED
    BY <1>b, <2>1 DEF TraceFlagIsTheGuests
<1>6. CASE DebugDeliver
  <2>1. UNCHANGED <<dregs, ctxt>> /\ ~ctxt.wait
    BY <1>6 DEF DebugDeliver
  <2>2. tf' \in BOOLEAN /\ gtf' \in BOOLEAN /\ ~tf'
    BY <1>6, Zenon DEF DebugDeliver
  <2>3. QED
    BY <1>b, <2>1, <2>2 DEF TraceFlagIsTheGuests
<1>7. CASE kvm_skip_emulated_instruction
  BY <1>7, <1>b DEF kvm_skip_emulated_instruction, TraceFlagIsTheGuests
<1>8. CASE Emulate
  <2>1. UNCHANGED dregs /\ ~ctxt.wait
    BY <1>8 DEF Emulate
  <2>2. CASE UNCHANGED <<tf, gtf, ctxt>>
    BY <1>b, <2>1, <2>2 DEF TraceFlagIsTheGuests
  <2>3. CASE (Writeback("emul", init_emulate_ctxt) \/ Writeback("out", init_emulate_ctxt)) /\ UNCHANGED ctxt
    BY <1>c, <1>d, <2>1, <2>3
  <2>4. CASE ctxt' = [wait |-> TRUE, tf |-> init_emulate_ctxt] /\ UNCHANGED <<tf, gtf>>
    <3>1. ctxt' \in [wait : BOOLEAN, tf : BOOLEAN] /\ ctxt'.tf = init_emulate_ctxt
      BY <1>c, <2>4
    <3>2. QED
      BY <1>b, <1>c, <2>1, <2>4, <3>1 DEF TraceFlagIsTheGuests
  <2>5. QED
    BY <1>8, <2>2, <2>3, <2>4 DEF Emulate
<1>9. CASE Complete
  <2>1. ctxt' \in [wait : BOOLEAN, tf : BOOLEAN] /\ ~ctxt'.wait
    BY <1>9 DEF Complete, NoCtxt
  <2>2. ctxt.tf \in BOOLEAN /\ (ctxt.tf => gtf) /\ Writeback("late", ctxt.tf) /\ UNCHANGED dregs
    BY <1>9 DEF Complete
  <2>3. QED
    BY <1>d, <2>1, <2>2
<1>10. QED
  BY <1>1, <1>2, <1>3, <1>4, <1>5, <1>6, <1>7, <1>8, <1>9 DEF DebugNext

-----------------------------------------------------------------------------
(***************************************************************************)
(* Machine checks.  An uncorrected error is recorded only while none is in *)
(* progress, and the handler runs only while one is: no new one can come   *)
(* between two of its reads.                                               *)
(***************************************************************************)
Statuses == [val : BOOLEAN, uc : BOOLEAN, over : BOOLEAN, err : Nat]
Handlers == [step : {"idle", "status", "addr", "misc", "clear", "done"}, bank : Bank, err : Nat, addr : Nat, misc : Nat]
MceInv ==
    /\ status \in [Bank -> Statuses] /\ addr \in [Bank -> Nat] /\ misc \in [Bank -> Nat]
    /\ handler \in Handlers /\ bank_num \in 1 .. KVM_MAX_MCE_BANKS /\ injected \in Nat
    /\ mcip \in BOOLEAN /\ mc \in BOOLEAN
    /\ handler.step # "idle" \/ mc => mcip
    /\ \A b \in Bank : status[b].uc => status[b].val
    /\ RecordIsOneError /\ HandlerReadsOneError

LEMMA MceShapes ==
    /\ NoStatus \in Statuses /\ ~NoStatus.val /\ ~NoStatus.uc
    /\ Idle \in Handlers /\ Idle.step = "idle"
  BY MceAssumption DEF NoStatus, Statuses, Idle, Handlers, Bank

LEMMA MceInitInv == MceInit => MceInv
<1> SUFFICES ASSUME MceInit PROVE MceInv
  OBVIOUS
<1>1. /\ status \in [Bank -> Statuses] /\ addr \in [Bank -> Nat] /\ misc \in [Bank -> Nat]
      /\ handler \in Handlers /\ bank_num \in 1 .. KVM_MAX_MCE_BANKS /\ injected \in Nat
  BY MceShapes, MceAssumption DEF MceInit
<1>2. mcip \in BOOLEAN /\ mc \in BOOLEAN /\ ~mc
  BY Zenon DEF MceInit
<1>3. handler.step = "idle" /\ \A b \in Bank : ~status[b].uc /\ ~status[b].val
  BY MceShapes DEF MceInit
<1>4. QED
  BY <1>1, <1>2, <1>3 DEF MceInv, RecordIsOneError, HandlerReadsOneError

LEMMA MceNextInv ==
    ASSUME MceInv, MceNext
    PROVE  MceInv'
<1> USE DEF MceInv
<1>0. KVM_MAX_MCE_BANKS \in Nat \ {0} /\ handler.bank \in Bank /\ handler.bank \in Nat /\ bank_num \in Nat
  BY MceAssumption DEF Handlers, Bank
<1>a. ASSUME UNCHANGED <<status, addr, misc, handler, bank_num, injected, mcip, mc>> PROVE MceInv'
  BY <1>a DEF RecordIsOneError, HandlerReadsOneError
\* a bank takes an error over that the handler is not reading
<1>b. ASSUME NEW b \in Bank, NEW e \in Nat, NEW uc \in BOOLEAN, Record(b, e, uc), uc => handler.step = "idle",
             UNCHANGED handler
      PROVE  /\ status' \in [Bank -> Statuses] /\ addr' \in [Bank -> Nat] /\ misc' \in [Bank -> Nat]
             /\ \A c \in Bank : status'[c].uc => status'[c].val
             /\ RecordIsOneError' /\ HandlerReadsOneError'
  <2> DEFINE x == [val |-> TRUE, uc |-> uc, over |-> status[b].val, err |-> e]
  <2>1. x \in Statuses /\ x.val /\ x.uc = uc /\ x.err = e
    BY <1>b DEF Statuses
  <2>2. /\ status' = [status EXCEPT ![b] = x] /\ addr' = [addr EXCEPT ![b] = e] /\ misc' = [misc EXCEPT ![b] = e]
    BY <1>b DEF Record
  <2> HIDE DEF x
  <2>3. /\ status' \in [Bank -> Statuses] /\ addr' \in [Bank -> Nat] /\ misc' \in [Bank -> Nat]
    BY <1>b, <2>1, <2>2
  <2>4. /\ \A c \in Bank : status'[c].uc => status'[c].val
        /\ RecordIsOneError'
    BY <1>b, <2>1, <2>2 DEF RecordIsOneError
  <2>5. HandlerReadsOneError'
    BY <1>0, <1>b, <2>1, <2>2 DEF HandlerReadsOneError
  <2>6. QED
    BY <2>3, <2>4, <2>5
<1>c. ASSUME NEW h \in Handlers PROVE
        /\ AfterBank(h) \in Handlers
        /\ AfterBank(h).step \notin {"idle", "addr", "misc", "clear"}
  <2>0. h.bank \in Bank /\ bank_num \in 1 .. KVM_MAX_MCE_BANKS
    BY <1>c DEF Handlers
  <2> HIDE DEF MceInv
  <2>1. h.bank \in Nat /\ (h.bank + 1 < bank_num => h.bank + 1 \in Bank)
    BY <1>0, <2>0 DEF Bank
  <2>2. CASE h.bank + 1 < bank_num
    BY <1>0, <2>1, <2>2 DEF AfterBank, Idle, Handlers
  <2>3. CASE ~(h.bank + 1 < bank_num)
    BY MceShapes, <2>3 DEF AfterBank, Idle, Handlers
  <2>4. QED
    BY <2>2, <2>3
<1>1. ASSUME NEW n \in 1..KVM_MAX_MCE_BANKS, NEW p \in BOOLEAN, kvm_vcpu_ioctl_x86_setup_mce(n, p) PROVE MceInv'
  BY <1>1 DEF kvm_vcpu_ioctl_x86_setup_mce, RecordIsOneError, HandlerReadsOneError
<1>2. ASSUME NEW b \in Bank, NEW uc \in BOOLEAN, kvm_vcpu_ioctl_x86_set_mce(b, uc) PROVE MceInv'
  <2> DEFINE e == injected'
  <2>1. e \in Nat /\ injected' \in Nat /\ UNCHANGED <<bank_num, handler>> /\ (IF uc THEN Uncorrected(b, e) ELSE Corrected(b, e))
    BY <1>2 DEF kvm_vcpu_ioctl_x86_set_mce
  <2>2. CASE UNCHANGED <<mcip, status, addr, misc, mc>>
    BY <2>1, <2>2 DEF RecordIsOneError, HandlerReadsOneError
  <2>3. CASE Record(b, e, TRUE) /\ mcip' = TRUE /\ mc' = TRUE /\ ~mcip
    <3>1. mcip' \in BOOLEAN /\ mc' \in BOOLEAN /\ mcip'
      BY <2>3, Zenon
    <3>2. handler.step = "idle"
      BY <2>3
    <3>3. QED
      BY <1>b, <2>1, <2>3, <3>1, <3>2
  <2>4. CASE Record(b, e, FALSE) /\ UNCHANGED <<mcip, mc>>
    BY <1>b, <2>1, <2>4
  <2>5. CASE status' = [status EXCEPT ![b].over = TRUE] /\ UNCHANGED <<addr, misc, mcip, mc>>
    <3>1. status' = [status EXCEPT ![b] = [status[b] EXCEPT !.over = TRUE]]
      BY <2>5
    <3> DEFINE x == [status[b] EXCEPT !.over = TRUE]
    <3>2. x \in Statuses /\ x.val = status[b].val /\ x.uc = status[b].uc /\ x.err = status[b].err
      BY DEF Statuses
    <3> HIDE DEF x
    <3>3. status' = [status EXCEPT ![b] = x] /\ status' \in [Bank -> Statuses]
      BY <3>1, <3>2 DEF x
    <3>4. \A c \in Bank : status'[c].val = status[c].val /\ status'[c].uc = status[c].uc /\ status'[c].err = status[c].err
      BY <3>2, <3>3
    <3>5. RecordIsOneError' /\ HandlerReadsOneError' /\ \A c \in Bank : status'[c].uc => status'[c].val
      BY <1>0, <2>1, <2>5, <3>4 DEF RecordIsOneError, HandlerReadsOneError
    <3>6. QED
      BY <2>1, <2>5, <3>3, <3>5
  <2>6. QED
    BY <2>1, <2>2, <2>3, <2>4, <2>5 DEF Uncorrected, Corrected, Ignore
<1>3. CASE Shutdown
  <2>1. /\ handler' \in Handlers /\ handler'.step = "idle" /\ status' \in [Bank -> Statuses]
        /\ \A b \in Bank : ~status'[b].val /\ ~status'[b].uc
        /\ UNCHANGED <<bank_num, addr, misc, injected>>
    BY <1>3, MceShapes DEF Shutdown
  <2>2. mc' \in BOOLEAN /\ mcip' \in BOOLEAN /\ ~mc'
    BY <1>3, Zenon DEF Shutdown
  <2>3. QED
    BY <2>1, <2>2 DEF RecordIsOneError, HandlerReadsOneError
<1>4. CASE \/ SetCr4 \/ (\E w \in BOOLEAN : SetMcgCtl(w)) \/ (\E b \in Bank, w \in BOOLEAN : SetMciCtl(b, w))
  BY <1>4, <1>a DEF SetCr4, SetMcgCtl, SetMciCtl, banks
<1>5. CASE MceDeliver
  <2>1. handler' \in Handlers /\ handler'.step = "status"
    BY <1>5, MceShapes DEF MceDeliver, Handlers
  <2>2. mc' \in BOOLEAN /\ ~mc' /\ mcip' = mcip /\ mcip
    BY <1>5, Zenon DEF MceDeliver
  <2>3. UNCHANGED <<status, addr, misc, bank_num, injected>>
    BY <1>5 DEF MceDeliver, banks
  <2>4. QED
    BY <2>1, <2>2, <2>3 DEF RecordIsOneError, HandlerReadsOneError
<1>6. CASE ReadStatus
  <2>1. UNCHANGED <<status, addr, misc, bank_num, injected, mcip, mc>> /\ handler.step = "status"
    BY <1>6 DEF ReadStatus, HandlerSame, Handler
  <2>2. CASE handler' = [handler EXCEPT !.step = "addr", !.err = status[handler.bank].err]
    <3>1. status[handler.bank].err \in Nat
      BY <1>0 DEF Statuses
    <3>2. /\ handler' \in Handlers /\ handler'.step = "addr" /\ handler'.bank = handler.bank
          /\ handler'.err = status[handler.bank].err
      BY <2>2, <3>1 DEF Handlers
    <3>3. QED
      BY <2>1, <3>2 DEF RecordIsOneError, HandlerReadsOneError
  <2>3. CASE handler' = AfterBank(handler)
    BY <1>c, <2>1, <2>3 DEF RecordIsOneError, HandlerReadsOneError
  <2>4. QED
    BY <1>6, <2>2, <2>3 DEF ReadStatus
<1>7. CASE ReadAddr
  <2>1. UNCHANGED <<status, addr, misc, bank_num, injected, mcip, mc>> /\ handler.step = "addr"
    BY <1>7 DEF ReadAddr, HandlerSame, Handler
  <2>2. handler' = [handler EXCEPT !.step = "misc", !.addr = addr[handler.bank]] /\ addr[handler.bank] \in Nat
    BY <1>0, <1>7 DEF ReadAddr
  <2>3. /\ handler' \in Handlers /\ handler'.step = "misc" /\ handler'.bank = handler.bank
        /\ handler'.err = handler.err /\ handler'.addr = addr[handler.bank]
    BY <2>2 DEF Handlers
  <2>4. QED
    BY <1>0, <2>1, <2>3 DEF RecordIsOneError, HandlerReadsOneError
<1>8. CASE ReadMisc
  <2>1. UNCHANGED <<status, addr, misc, bank_num, injected, mcip, mc>> /\ handler.step = "misc"
    BY <1>8 DEF ReadMisc, HandlerSame, Handler
  <2>2. handler' = [handler EXCEPT !.step = "clear", !.misc = misc[handler.bank]] /\ misc[handler.bank] \in Nat
    BY <1>0, <1>8 DEF ReadMisc
  <2>3. /\ handler' \in Handlers /\ handler'.step = "clear" /\ handler'.bank = handler.bank
        /\ handler'.err = handler.err /\ handler'.addr = handler.addr /\ handler'.misc = misc[handler.bank]
    BY <2>2 DEF Handlers
  <2>4. QED
    BY <1>0, <2>1, <2>3 DEF RecordIsOneError, HandlerReadsOneError
<1>d. ASSUME NEW b \in Bank, status' = [status EXCEPT ![b] = NoStatus], UNCHANGED <<addr, misc>>
      PROVE  /\ status' \in [Bank -> Statuses] /\ RecordIsOneError'
             /\ \A c \in Bank : status'[c].uc => status'[c].val /\ status'[c] = status[c]
  BY <1>d, MceShapes DEF RecordIsOneError
<1>9. CASE ClearStatus
  <2>1. UNCHANGED <<addr, misc, bank_num, injected, mcip, mc>> /\ handler.step = "clear"
    BY <1>9 DEF ClearStatus, HandlerSame, Handler
  <2>2. handler' \in Handlers /\ handler'.step \notin {"addr", "misc", "clear"}
    BY <1>9, <1>c DEF ClearStatus
  <2>3. status' = [status EXCEPT ![handler.bank] = NoStatus]
    BY <1>9 DEF ClearStatus
  <2>4. QED
    BY <1>0, <1>d, <2>1, <2>2, <2>3 DEF HandlerReadsOneError
<1>10. CASE ClearMcip
  <2>1. UNCHANGED <<status, addr, misc, bank_num, injected, mc>> /\ handler' \in Handlers /\ handler'.step = "idle" /\ ~mc
    BY <1>10, MceShapes DEF ClearMcip, HandlerSame, Handler
  <2>2. mcip' \in BOOLEAN
    BY <1>10, Zenon DEF ClearMcip
  <2>3. QED
    BY <2>1, <2>2 DEF RecordIsOneError, HandlerReadsOneError
<1>11. ASSUME NEW b \in Bank, Poll(b) PROVE MceInv'
  <2>1. UNCHANGED <<addr, misc, bank_num, injected, mc, mcip, handler>> /\ handler.step = "idle"
    BY <1>11 DEF Poll, HandlerSame, Quiet
  <2>2. status' = [status EXCEPT ![b] = NoStatus]
    BY <1>11 DEF Poll
  <2>3. QED
    BY <1>d, <2>1, <2>2 DEF HandlerReadsOneError
<1>12. QED
  BY <1>1, <1>2, <1>3, <1>4, <1>5, <1>6, <1>7, <1>8, <1>9, <1>10, <1>11 DEF MceNext, MceUser, MceGuest

-----------------------------------------------------------------------------
(***************************************************************************)
(* Memory reached by virtual address.  The cached translation is one the   *)
(* page table had since the VCPU flushed the page, and as long as the      *)
(* memory slots are of its generation it is of a device.                   *)
(***************************************************************************)
MemInv ==
    /\ DOMAIN use = Vcpus /\ DOMAIN memSince = Vcpus /\ DOMAIN memCache = Vcpus
    /\ DOMAIN pt = VPages
    /\ \A c \in Vcpus : DOMAIN memSince[c] = VPages
    /\ gen \in Nat /\ ram \subseteq Frames /\ Apic \notin ram
    /\ \A p \in VPages : pt[p].gfn \in Frames \cup {0}
    /\ \A c \in Vcpus, p \in VPages : pt[p] \in memSince[c][p]
    /\ \A c \in Vcpus : DOMAIN memCache[c] = {"page", "pte", "gen"}
    /\ \A c \in Vcpus : memCache[c].gen \in Nat /\ memCache[c].gen <= gen /\ memCache[c].page \in VPages \cup {0}
    /\ \A c \in Vcpus : memCache[c].page # 0 =>
         /\ memCache[c].pte \in memSince[c][memCache[c].page]
         /\ memCache[c].gen = gen => memCache[c].pte.gfn \in Frames \ ram
    /\ TranslationIsTlbLike /\ RightPlace

LEMMA MemInitInv == MemInit => MemInv
<1> SUFFICES ASSUME MemInit PROVE MemInv
  OBVIOUS
<1>1. \A c \in Vcpus : use[c].how = "none"
  BY DEF MemInit, NoUse
<1>2. TranslationIsTlbLike /\ RightPlace
  BY <1>1 DEF TranslationIsTlbLike, RightPlace
<1>3. Unmapped.gfn = 0
  BY DEF Unmapped
<1>4. QED
  BY <1>2, <1>3, MemAssumption DEF MemInit, MemInv

LEMMA MemNextInv ==
    ASSUME MemInv, MemNext
    PROVE  MemInv'
<1> USE DEF MemInv
<1>u. ASSUME UNCHANGED use PROVE TranslationIsTlbLike' /\ RightPlace' /\ DOMAIN use' = Vcpus
  BY <1>u DEF TranslationIsTlbLike, RightPlace
<1>a. ASSUME UNCHANGED <<pt, memSince, ram, gen, memCache, use>> PROVE MemInv'
  BY <1>a, <1>u
<1>1. ASSUME NEW c \in Vcpus, NEW p \in VPages, NEW w \in BOOLEAN, Access(c, p, w) PROVE MemInv'
  <2> DEFINE a == vcpu_mmio_gva_to_gpa(c, p, w)
  <2>1. UNCHANGED <<pt, memSince, ram, gen, memCache>>
    BY <1>1 DEF Access
  <2>2. a.gfn # 0 => \E e \in memSince[c][p] : e.gfn = a.gfn /\ ~permission_fault(e, cpl3[c], w)
    <3>1. CASE vcpu_match_mmio_gva(c, p) /\ ~permission_fault(memCache[c].pte, cpl3[c], w)
      <4>1. a.gfn = memCache[c].pte.gfn
        BY <3>1 DEF vcpu_mmio_gva_to_gpa
      <4>2. memCache[c].pte \in memSince[c][p]
        BY <1>1, <3>1, MemAssumption DEF vcpu_match_mmio_gva
      <4>3. QED
        BY <3>1, <4>1, <4>2
    <3>2. CASE ~(vcpu_match_mmio_gva(c, p) /\ ~permission_fault(memCache[c].pte, cpl3[c], w))
      <4>1. a.gfn = gva_to_gpa(p, cpl3[c], w)
        BY <3>2 DEF vcpu_mmio_gva_to_gpa
      <4>2. pt[p] \in memSince[c][p]
        BY <1>1
      <4>3. QED
        BY <4>1, <4>2 DEF gva_to_gpa
    <3>3. QED
      BY <3>1, <3>2
  <2>3. a.gfn # 0 => /\ a.mmio => a.gfn \notin ram
                     /\ a.mmio \in BOOLEAN
    <3>1. CASE vcpu_match_mmio_gva(c, p) /\ ~permission_fault(memCache[c].pte, cpl3[c], w)
      <4>1. a.gfn = memCache[c].pte.gfn /\ a.mmio = TRUE
        BY <3>1 DEF vcpu_mmio_gva_to_gpa
      <4>2. memCache[c].pte.gfn \notin ram
        BY <1>1, <3>1, MemAssumption DEF vcpu_match_mmio_gva
      <4>3. QED
        BY <4>1, <4>2
    <3>2. CASE ~(vcpu_match_mmio_gva(c, p) /\ ~permission_fault(memCache[c].pte, cpl3[c], w))
      <4>1. /\ a.gfn = gva_to_gpa(p, cpl3[c], w)
            /\ a.mmio = (a.gfn # 0 /\ vcpu_is_mmio_gpa(c, a.gfn))
        BY <3>2 DEF vcpu_mmio_gva_to_gpa
      <4>2. ASSUME vcpu_is_mmio_gpa(c, a.gfn) PROVE a.gfn \notin ram
        BY <1>1, <4>2 DEF vcpu_is_mmio_gpa, vcpu_match_mmio_gpa
      <4> HIDE DEF a
      <4>3. QED
        BY <4>1, <4>2
    <3>3. QED
      BY <3>1, <3>2
  <2> DEFINE u == [how |-> CASE a.gfn = 0 -> "fault" [] a.gfn # 0 /\ ~a.mmio /\ a.gfn \in ram -> "ram" [] OTHER -> "mmio",
                   gfn |-> a.gfn, user |-> cpl3[c], write |-> w, seen |-> memSince[c][p], ram |-> a.gfn \in ram]
  <2>4. use' = [use EXCEPT ![c] = u]
    BY <1>1 DEF Access
  <2> HIDE DEF a
  <2>5. /\ u.gfn = a.gfn /\ u.user = cpl3[c] /\ u.write = w /\ u.seen = memSince[c][p] /\ u.ram = (a.gfn \in ram)
        /\ u.how = IF a.gfn = 0 THEN "fault" ELSE IF ~a.mmio /\ a.gfn \in ram THEN "ram" ELSE "mmio"
    OBVIOUS
  <2> HIDE DEF u
  <2>6. use'[c] = u /\ DOMAIN use' = Vcpus /\ \A d \in Vcpus \ {c} : use'[d] = use[d]
    BY <1>1, <2>4
  <2>7. u.how \in {"ram", "mmio"} => a.gfn # 0 /\ (u.how = "ram") = (a.gfn \in ram)
    BY <2>3, <2>5
  <2>8. TranslationIsTlbLike'
    BY <2>2, <2>5, <2>6, <2>7 DEF TranslationIsTlbLike
  <2>9. RightPlace'
    BY <2>5, <2>6, <2>7 DEF RightPlace
  <2>10. QED
    BY <2>1, <2>6, <2>8, <2>9
<1>2. ASSUME NEW c \in Vcpus, NEW p \in VPages, CacheMmio(c, p) PROVE MemInv'
  <2> DEFINE x == [page |-> p, pte |-> pt[p], gen |-> gen]
  <2>1. x.page = p /\ x.pte = pt[p] /\ x.gen = gen /\ DOMAIN x = {"page", "pte", "gen"}
    OBVIOUS
  <2>2. memCache' = [memCache EXCEPT ![c] = x] /\ UNCHANGED <<pt, memSince, ram, gen, use>> /\ pt[p].gfn \in Frames \ ram
    BY <1>2 DEF CacheMmio
  <2> HIDE DEF x
  <2>3. DOMAIN memCache' = Vcpus /\ memCache'[c] = x /\ \A d \in Vcpus \ {c} : memCache'[d] = memCache[d]
    BY <2>2
  <2>4. \A d \in Vcpus : /\ memCache'[d].gen \in Nat /\ memCache'[d].gen <= gen' /\ memCache'[d].page \in VPages \cup {0}
                        /\ DOMAIN memCache'[d] = {"page", "pte", "gen"}
    BY <2>1, <2>2, <2>3
  <2>5. \A d \in Vcpus : memCache'[d].page # 0 =>
         /\ memCache'[d].pte \in memSince'[d][memCache'[d].page]
         /\ memCache'[d].gen = gen' => memCache'[d].pte.gfn \in Frames \ ram'
    BY <2>1, <2>2, <2>3
  <2>6. QED
    BY <1>u, <2>2, <2>3, <2>4, <2>5
<1>3. ASSUME NEW c \in Vcpus, NEW p \in VPages, Flush(c, p) PROVE MemInv'
  <2>1. /\ UNCHANGED <<pt, ram, gen, use>>
        /\ memSince' = [memSince EXCEPT ![c] = [memSince[c] EXCEPT ![p] = {pt[p]}]]
        /\ memCache' = [memCache EXCEPT ![c] = [memCache[c] EXCEPT !.page = IF memCache[c].page = p THEN 0 ELSE memCache[c].page]]
    BY <1>3 DEF Flush
  <2>2. /\ DOMAIN memSince' = Vcpus /\ \A d \in Vcpus : DOMAIN memSince'[d] = VPages
        /\ \A d \in Vcpus, q \in VPages : memSince'[d][q] = IF d = c /\ q = p THEN {pt[p]} ELSE memSince[d][q]
    BY <2>1
  <2> DEFINE x == [memCache[c] EXCEPT !.page = IF memCache[c].page = p THEN 0 ELSE memCache[c].page]
  <2>3. /\ x.pte = memCache[c].pte /\ x.gen = memCache[c].gen /\ DOMAIN x = {"page", "pte", "gen"}
        /\ x.page = IF memCache[c].page = p THEN 0 ELSE memCache[c].page
    OBVIOUS
  <2>4. memCache' = [memCache EXCEPT ![c] = x]
    BY <2>1
  <2> HIDE DEF x
  <2>5. DOMAIN memCache' = Vcpus /\ memCache'[c] = x /\ \A d \in Vcpus \ {c} : memCache'[d] = memCache[d]
    BY <2>4
  <2>6. \A d \in Vcpus : /\ memCache'[d].gen \in Nat /\ memCache'[d].gen <= gen' /\ memCache'[d].page \in VPages \cup {0}
                        /\ DOMAIN memCache'[d] = {"page", "pte", "gen"}
    BY <2>1, <2>3, <2>5
  <2>7. \A d \in Vcpus : memCache'[d].page # 0 =>
         /\ memCache'[d].pte \in memSince'[d][memCache'[d].page]
         /\ memCache'[d].gen = gen' => memCache'[d].pte.gfn \in Frames \ ram'
    BY <2>1, <2>2, <2>3, <2>5
  <2>8. \A d \in Vcpus, q \in VPages : pt'[q] \in memSince'[d][q]
    BY <2>1, <2>2
  <2>9. QED
    BY <1>u, <2>1, <2>2, <2>5, <2>6, <2>7, <2>8
<1>4. ASSUME NEW p \in VPages, NEW e \in Ptes, SetPte(p, e) PROVE MemInv'
  <2>1. /\ UNCHANGED <<ram, gen, memCache, use>> /\ pt' = [pt EXCEPT ![p] = e]
        /\ memSince' = [c \in Vcpus |-> [memSince[c] EXCEPT ![p] = @ \cup {e}]]
    BY <1>4 DEF SetPte
  <2>2. /\ DOMAIN memSince' = Vcpus /\ \A c \in Vcpus : DOMAIN memSince'[c] = VPages
        /\ \A c \in Vcpus, q \in VPages : memSince'[c][q] = IF q = p THEN memSince[c][q] \cup {e} ELSE memSince[c][q]
    BY <2>1
  <2>3. /\ DOMAIN pt' = VPages /\ \A q \in VPages : pt'[q] = IF q = p THEN e ELSE pt[q]
    BY <2>1
  <2>4. \A q \in VPages : pt'[q].gfn \in Frames \cup {0}
    BY <2>3, MemAssumption
  <2>5. \A c \in Vcpus, q \in VPages : pt'[q] \in memSince'[c][q]
    BY <2>2, <2>3
  <2>6. \A c \in Vcpus : memCache'[c].page # 0 =>
         /\ memCache'[c].pte \in memSince'[c][memCache'[c].page]
         /\ memCache'[c].gen = gen' => memCache'[c].pte.gfn \in Frames \ ram'
    BY <2>1, <2>2
  <2>7. QED
    BY <1>u, <2>1, <2>2, <2>3, <2>4, <2>5, <2>6
<1>5. ASSUME NEW f \in Frames, AddSlot(f) PROVE MemInv'
  <2>1. /\ UNCHANGED <<pt, memSince, memCache, use>> /\ ram' = ram \cup {f} /\ gen' = gen + 1 /\ f # Apic
    BY <1>5 DEF AddSlot
  <2>2. \A c \in Vcpus : memCache'[c].gen <= gen' /\ memCache'[c].gen # gen'
    BY <2>1
  <2>3. QED
    BY <1>u, <2>1, <2>2
<1>6. CASE \E c \in Vcpus, p \in VPages :
        \/ LockLoad(c, p)
        \/ \E q \in VPages, s, w, x \in BOOLEAN : q \in p..(p + 1) /\ Start(c, p, q, s, w, x)
  BY <1>6, <1>a DEF LockLoad, Start
<1>7. CASE \E c \in Vcpus : CopyPage(c) \/ Done(c) \/ SetCpl(c) \/ (\E w \in BOOLEAN : emulator_cmpxchg_emulated(c, w))
  BY <1>7, <1>a DEF CopyPage, Done, SetCpl, emulator_cmpxchg_emulated
<1>8. QED
  BY <1>1, <1>2, <1>3, <1>4, <1>5, <1>6, <1>7 DEF MemNext

-----------------------------------------------------------------------------
(***************************************************************************)
(* Two virtual CPUs with locked increments of one frame: an exchange that  *)
(* is one stores only over the value it read.                              *)
(***************************************************************************)
LockInv ==
    /\ pt \in [{1} -> LockPtes \cup {Unmapped}] /\ 0 \notin ram
    /\ mem \in [{1, 3} -> Nat] /\ incs \in [{1, 3} -> Nat]
    /\ DOMAIN locked = {"v1", "v2"}
    /\ \A c \in {"v1", "v2"} : locked[c].on => locked[c].page = 1 /\ locked[c].old \in Nat
    /\ Locked!NoIncrementLost

LEMMA LockInitInv == Locked!MemInit => LockInv
  BY MemAssumption DEF Locked!MemInit, LockInv, Locked!NoIncrementLost, Unmapped, Locked!Unmapped, Locked!NoLock
LEMMA LockNextInv ==
    ASSUME LockInv, Locked!MemNext
    PROVE  LockInv'
<1> USE DEF LockInv
<1>0. \A e \in LockPtes \cup {Unmapped} : e.gfn \in {0, 1}
  BY DEF LockPtes, Unmapped
<1>a. ASSUME UNCHANGED <<pt, ram, mem, incs, torn, locked>> PROVE LockInv'
  BY <1>a DEF Locked!NoIncrementLost
<1> DEFINE Two == {"v1", "v2"}
<1>1. ASSUME NEW c \in Two, NEW p \in {1}, Locked!LockLoad(c, p) PROVE LockInv'
  <2> DEFINE x == [on |-> TRUE, page |-> p, gfn |-> pt[p].gfn, old |-> mem[pt[p].gfn]]
  <2>1. locked' = [locked EXCEPT ![c] = x] /\ UNCHANGED <<pt, ram, mem, incs, torn>>
    BY <1>1 DEF Locked!LockLoad
  <2>a. pt[p].gfn = 1
    <3>1. Locked!kvm_mmu_gva_to_gpa_write(c, p) \in {0, pt[p].gfn} \cap ram
      BY <1>1 DEF Locked!LockLoad, Locked!kvm_mmu_gva_to_gpa_write, Locked!gva_to_gpa
    <3>2. QED
      BY <1>0, <3>1
  <2>2. x.page = 1 /\ x.old \in Nat
    BY <2>a
  <2> HIDE DEF x
  <2>3. DOMAIN locked' = Two /\ \A d \in Two : locked'[d].on => locked'[d].page = 1 /\ locked'[d].old \in Nat
    BY <2>1, <2>2
  <2>4. QED
    BY <2>1, <2>3 DEF Locked!NoIncrementLost
<1>2. ASSUME NEW c \in Two, NEW wide \in BOOLEAN, Locked!emulator_cmpxchg_emulated(c, wide) PROVE LockInv'
  <2> DEFINE f == Locked!kvm_mmu_gva_to_gpa_write(c, locked[c].page)
  <2>1. f \in {0, 1}
    <3>1. locked[c].page = 1 /\ pt[1].gfn \in {0, 1}
      BY <1>0, <1>2 DEF Locked!emulator_cmpxchg_emulated
    <3>2. QED
      BY <3>1 DEF Locked!kvm_mmu_gva_to_gpa_write, Locked!gva_to_gpa
  <2>2. /\ locked' = [locked EXCEPT ![c] = Locked!NoLock] /\ UNCHANGED <<pt, ram>>
    BY <1>2 DEF Locked!emulator_cmpxchg_emulated
  <2>3. DOMAIN locked' = Two /\ \A d \in Two : locked'[d].on => locked'[d].page = 1 /\ locked'[d].old \in Nat
    BY <2>2 DEF Locked!NoLock
  <2>4. \/ f \in ram /\ mem[f] = locked[c].old /\ Locked!Store(c, f, TRUE)
        \/ f \in ram /\ Locked!Store(c, f, FALSE)
        \/ UNCHANGED <<mem, incs, torn>>
    BY <1>2 DEF Locked!emulator_cmpxchg_emulated
  <2> HIDE DEF f
  <2>5. CASE f \in ram /\ mem[f] = locked[c].old /\ Locked!Store(c, f, TRUE)
    <3>1. f = 1
      BY <2>1, <2>5
    <3>2. /\ mem' = [mem EXCEPT ![1] = mem[1] + 1] /\ incs' = [incs EXCEPT ![1] = incs[1] + 1] /\ torn' = torn
      BY <2>5, <3>1 DEF Locked!Store
    <3>3. mem' \in [{1, 3} -> Nat] /\ incs' \in [{1, 3} -> Nat]
      BY <3>2
    <3>4. Locked!NoIncrementLost'
      BY <3>2 DEF Locked!NoIncrementLost
    <3>5. QED
      BY <2>2, <2>3, <3>3, <3>4
  <2>6. CASE f \in ram /\ Locked!Store(c, f, FALSE)
    <3>1. f = 1
      BY <2>1, <2>6
    <3>2. /\ mem' = [mem EXCEPT ![1] = locked[c].old + 1] /\ incs' = [incs EXCEPT ![1] = incs[1] + 1] /\ torn' = torn \cup {1}
      BY <2>6, <3>1 DEF Locked!Store
    <3>3. locked[c].old \in Nat
      BY <1>2 DEF Locked!emulator_cmpxchg_emulated
    <3>4. mem' \in [{1, 3} -> Nat] /\ incs' \in [{1, 3} -> Nat]
      BY <3>2, <3>3
    <3>5. Locked!NoIncrementLost'
      BY <3>2 DEF Locked!NoIncrementLost
    <3>6. QED
      BY <2>2, <2>3, <3>4, <3>5
  <2>7. CASE UNCHANGED <<mem, incs, torn>>
    BY <2>2, <2>3, <2>7 DEF Locked!NoIncrementLost
  <2>8. QED
    BY <2>4, <2>5, <2>6, <2>7
<1>3. ASSUME NEW p \in {1}, NEW e \in LockPtes, Locked!SetPte(p, e) PROVE LockInv'
  <2>1. pt' = [pt EXCEPT ![p] = e] /\ UNCHANGED <<ram, mem, incs, torn, locked>>
    BY <1>3 DEF Locked!SetPte
  <2>2. pt' \in [{1} -> LockPtes \cup {Unmapped}]
    BY <2>1
  <2>3. QED
    BY <2>1, <2>2 DEF Locked!NoIncrementLost
<1>4. ASSUME NEW f \in {1, 3}, Locked!AddSlot(f) PROVE LockInv'
  BY <1>4 DEF Locked!AddSlot, Locked!NoIncrementLost
<1>5. CASE \E c \in Two, p \in {1} :
        \/ (\E w \in BOOLEAN : Locked!Access(c, p, w)) \/ Locked!CacheMmio(c, p) \/ Locked!Flush(c, p)
        \/ \E q \in {1}, s, w, x \in BOOLEAN : q \in p..(p + 1) /\ Locked!Start(c, p, q, s, w, x)
  BY <1>5, <1>a DEF Locked!Access, Locked!CacheMmio, Locked!Flush, Locked!Start
<1>6. CASE \E c \in Two : Locked!CopyPage(c) \/ Locked!Done(c) \/ Locked!SetCpl(c)
  BY <1>6, <1>a DEF Locked!CopyPage, Locked!Done, Locked!SetCpl
<1>7. QED
  BY <1>1, <1>2, <1>3, <1>4, <1>5, <1>6 DEF Locked!MemNext

-----------------------------------------------------------------------------
(***************************************************************************)
(* Segments and far calls.                                                 *)
(***************************************************************************)
LEMMA Quotient ==
    ASSUME NEW n \in Nat \ {0}, NEW a \in Nat, NEW r \in 0 .. n - 1
    PROVE  (a * n + r) \div n = a /\ (a * n + r) % n = r
<1> DEFINE x == a * n + r
           q == x \div n
           m == x % n
<1>0. a * n \in Nat /\ x \in Nat
  OBVIOUS
<1>1. q \in Int /\ m \in 0 .. n - 1 /\ x = n * q + m
  BY <1>0
<1> HIDE DEF q, m
<1>2. n * q + m = n * a + r
  BY <1>1
<1>3. ASSUME q < a PROVE FALSE
  <2>1. q + 1 <= a
    BY <1>1, <1>3
  <2>2. n * (q + 1) <= n * a
    BY <1>1, <2>1
  <2>3. n * (q + 1) = n * q + n
    BY <1>1
  <2>4. n * q \in Int /\ n * a \in Int
    BY <1>1
  <2>5. QED
    BY <1>1, <1>2, <2>2, <2>3, <2>4
<1>4. ASSUME a < q PROVE FALSE
  <2>1. a + 1 <= q
    BY <1>1, <1>4
  <2>2. n * (a + 1) <= n * q
    BY <1>1, <2>1
  <2>3. n * (a + 1) = n * a + n
    OBVIOUS
  <2>4. n * q \in Int /\ n * a \in Int
    BY <1>1
  <2>5. QED
    BY <1>1, <1>2, <2>2, <2>3, <2>4
<1>5. q = a
  BY <1>1, <1>3, <1>4
<1>6. m = r
  <2>1. n * a \in Int
    OBVIOUS
  <2>2. QED
    BY <1>1, <1>2, <1>5, <2>1
<1>7. QED
  BY <1>5, <1>6 DEF q, m

PresentDescs == {d \in Descriptors : d.p}

\* A present descriptor is read back as it was loaded.
LEMMA SegmentRoundTrip ==
    ASSUME NEW s, NEW d \in PresentDescs, NEW b \in 0 .. Half - 1
    PROVE  LET t == emulator_get_segment(emulator_set_segment(s, d, b))
           IN  t.sel = s /\ t.d = d /\ t.base3 = b
<1> DEFINE var == emulator_set_segment(s, d, b)
<1>0. /\ d = [limit |-> d.limit, base |-> d.base, g |-> d.g, p |-> d.p]
      /\ d.limit \in Nat /\ d.base \in 0 .. Half - 1 /\ d.g \in BOOLEAN /\ d.p = TRUE
  BY SegmentsAssumption DEF PresentDescs, Descriptors
<1>1. /\ var.selector = s /\ var.base = d.base + b * Half /\ var.g = d.g /\ var.present = d.p /\ var.unusable = FALSE
      /\ var.limit = IF d.g THEN d.limit * PageBytes + (PageBytes - 1) ELSE d.limit
  BY <1>0 DEF emulator_set_segment
<1>2. var.base \div Half = b /\ var.base % Half = d.base
  <2>1. b * Half \in Nat /\ d.base \in Nat /\ b \in Nat /\ Half \in Nat \ {0}
    BY <1>0, SegmentsAssumption
  <2>2. var.base = b * Half + d.base
    BY <1>1, <2>1
  <2>3. QED
    BY <1>0, <2>1, <2>2, Quotient
<1>3. d.g => var.limit \div PageBytes = d.limit
  <2>1. PageBytes \in Nat \ {0} /\ PageBytes - 1 \in 0 .. PageBytes - 1
    BY SegmentsAssumption
  <2>2. d.g => var.limit = d.limit * PageBytes + (PageBytes - 1)
    BY <1>1
  <2>3. QED
    BY <1>0, <2>1, <2>2, Quotient
<1> HIDE DEF var
<1>4. [limit |-> IF var.g THEN var.limit \div PageBytes ELSE var.limit,
       base |-> var.base % Half, g |-> var.g, p |-> var.present] = d
  BY <1>0, <1>1, <1>2, <1>3
<1>5. LET t == emulator_get_segment(var) IN t.sel = s /\ t.d = d /\ t.base3 = b
  BY <1>1, <1>2, <1>4 DEF emulator_get_segment
<1>6. QED
  BY <1>5 DEF var

SegInv ==
    /\ \E s \in Selectors, d \in PresentDescs : cs = emulator_set_segment(s, d, 0)
    /\ \E s \in Selectors, d \in Descriptors, b \in 0 .. Half - 1 : seg = emulator_set_segment(s, d, b)
    /\ cr \in [Registers -> Cr] /\ segPc \in {"idle", "jump"}
    /\ segPc = "jump" =>
         /\ outcome = "none"
         /\ \E s \in Selectors, d \in PresentDescs :
              LET c == emulator_set_segment(s, d, 0)
              IN  segBefore = <<c, seg, cr>> /\ old = emulator_get_segment(c)
    /\ FaultRestores

LEMMA ZeroBase == 0 \in 0 .. Half - 1
  BY SegmentsAssumption

LEMMA SegInitInv == SegInit => SegInv
<1> SUFFICES ASSUME SegInit PROVE SegInv
  OBVIOUS
<1>1. \E s \in Selectors, d \in PresentDescs : cs = emulator_set_segment(s, d, 0)
  BY DEF SegInit, CodeSegs, PresentDescs, emulator_set_segment
<1>2. \E s \in Selectors, d \in Descriptors, b \in 0 .. Half - 1 : seg = emulator_set_segment(s, d, b)
  BY DEF SegInit, SystemSegs
<1>3. QED
  BY <1>1, <1>2 DEF SegInit, SegInv, FaultRestores

LEMMA SegNextInv ==
    ASSUME SegInv, SegNext
    PROVE  SegInv'
<1> USE DEF SegInv
<1>1. ASSUME NEW s \in Selectors, NEW d \in Descriptors, CallFar(s, d) PROVE SegInv'
  <2>1. d \in PresentDescs /\ cs' = emulator_set_segment(s, d, 0) /\ segPc' = "jump" /\ outcome' = "none" /\ UNCHANGED <<seg, cr>>
    BY <1>1 DEF CallFar, PresentDescs
  <2>2. PICK s0 \in Selectors, d0 \in PresentDescs : cs = emulator_set_segment(s0, d0, 0)
    OBVIOUS
  <2> DEFINE c == emulator_set_segment(s0, d0, 0)
  <2>3. segBefore' = <<c, seg', cr'>> /\ old' = emulator_get_segment(c)
    BY <1>1, <2>2 DEF CallFar, Regs
  <2>4. \E t \in Selectors, e \in PresentDescs :
          LET c1 == emulator_set_segment(t, e, 0)
          IN  segBefore' = <<c1, seg', cr'>> /\ old' = emulator_get_segment(c1)
    BY <2>3
  <2>5. FaultRestores'
    BY <2>1 DEF FaultRestores
  <2>6. QED
    BY <2>1, <2>4, <2>5
<1>2. ASSUME NEW s \in Selectors, NEW d \in Descriptors, LoadSegment(s, d) PROVE SegInv'
  <2>1. segPc = "idle" /\ seg' = emulator_set_segment(s, d, 0) /\ outcome' = "done" /\ UNCHANGED <<cs, cr, segPc>>
    BY <1>2 DEF LoadSegment
  <2>2. \E t \in Selectors, e \in Descriptors, b \in 0 .. Half - 1 : seg' = emulator_set_segment(t, e, b)
    BY <2>1, ZeroBase
  <2>3. QED
    BY <2>1, <2>2 DEF FaultRestores
<1>3. CASE JumpSucceeds
  BY <1>3 DEF JumpSucceeds, FaultRestores
<1>4. CASE JumpFails
  <2>1. segPc = "jump" /\ cs' = emulator_set_segment(old.sel, old.d, 0) /\ segPc' = "idle" /\ UNCHANGED <<seg, cr, segBefore>>
    BY <1>4 DEF JumpFails
  <2>2. PICK s \in Selectors, d \in PresentDescs :
          segBefore = <<emulator_set_segment(s, d, 0), seg, cr>> /\ old = emulator_get_segment(emulator_set_segment(s, d, 0))
    BY <2>1
  <2>3. old.sel = s /\ old.d = d
    BY <2>2, SegmentRoundTrip, ZeroBase
  <2>4. cs' = emulator_set_segment(s, d, 0)
    BY <2>1, <2>3
  <2>5. Regs' = segBefore'
    BY <2>1, <2>2, <2>4 DEF Regs
  <2>6. QED
    BY <2>1, <2>4, <2>5 DEF FaultRestores
<1>5. CASE TaskSegmentAgain
  <2> DEFINE t == emulator_get_segment(seg)
  <2>1. /\ segPc = "idle" /\ segBefore' = Regs /\ ~seg.unusable /\ seg' = emulator_set_segment(t.sel, t.d, t.base3)
        /\ UNCHANGED <<cs, cr, segPc>>
    BY <1>5 DEF TaskSegmentAgain
  <2>2. PICK s \in Selectors, d \in Descriptors, b \in 0 .. Half - 1 : seg = emulator_set_segment(s, d, b)
    OBVIOUS
  <2>3. d \in PresentDescs
    BY <2>1, <2>2 DEF PresentDescs, emulator_set_segment
  <2>4. t.sel = s /\ t.d = d /\ t.base3 = b
    BY <2>2, <2>3, SegmentRoundTrip
  <2> HIDE DEF t
  <2>5. seg' = seg
    BY <2>1, <2>2, <2>4
  <2>6. QED
    BY <2>1, <2>5 DEF FaultRestores, Regs
<1>6. ASSUME NEW n \in Names, NEW x \in Cr, segPc = "idle", segBefore' = Regs, emulator_set_cr(n, x), UNCHANGED <<cs, seg, old, segPc>>
      PROVE  SegInv'
  <2>1. CASE outcome' = "fault" /\ UNCHANGED cr
    BY <1>6, <2>1 DEF FaultRestores, Regs
  <2>2. CASE n \in Registers /\ outcome' = "done" /\ cr' = [cr EXCEPT ![n] = IF n = 0 THEN mk_cr_64(cr[0], x) ELSE x]
    <3>1. mk_cr_64(cr[0], x) \in Cr
      BY DEF mk_cr_64, Cr, Registers
    <3>2. cr' \in [Registers -> Cr]
      BY <2>2, <3>1
    <3>3. QED
      BY <1>6, <2>2, <3>2 DEF FaultRestores
  <2>3. QED
    BY <1>6, <2>1, <2>2 DEF emulator_set_cr
<1>7. ASSUME NEW n \in Names, CrAgain(n) PROVE SegInv'
  <2>1. emulator_get_cr(n) \in Cr
    BY DEF emulator_get_cr, Cr
  <2>2. QED
    BY <1>6, <1>7, <2>1 DEF CrAgain
<1>8. ASSUME NEW n \in Names, NEW x \in Cr, MovToCr(n, x) PROVE SegInv'
  BY <1>6, <1>8 DEF MovToCr
<1>9. QED
  BY <1>1, <1>2, <1>3, <1>4, <1>5, <1>7, <1>8 DEF SegNext

-----------------------------------------------------------------------------
(***************************************************************************)
(* Events over KVM_GET and SET_VCPU_EVENTS: they lose none whatever the    *)
(* events are; every step keeps the fields of the virtual CPU.             *)
(***************************************************************************)
VcpuFields == {"req", "cap", "ex", "irq", "nmi_queued", "nmi_pending", "nmi_injected", "nmi_masked", "smi", "smm",
               "smm_in_nmi", "if_flag", "cr2", "dr6", "hw", "window", "imm"}
ExceptionFields == {"pending", "injected", "nr", "has_payload", "payload", "of"}
VcpuOK(s) ==
    /\ DOMAIN s = VcpuFields /\ DOMAIN s.ex = ExceptionFields
    /\ s.nmi_queued \in Nat /\ s.nmi_pending \in Nat

LEMMA RequestOK == ASSUME NEW s, NEW r, VcpuOK(s) PROVE VcpuOK(Request(s, r))
  BY DEF VcpuOK, Request, VcpuFields

LEMMA PayloadOK ==
    ASSUME NEW s, VcpuOK(s)
    PROVE  LET t == kvm_deliver_exception_payload(s) IN
           /\ VcpuOK(t)
           /\ t.ex.pending = s.ex.pending /\ t.ex.injected = s.ex.injected /\ t.ex.nr = s.ex.nr
           /\ \A f \in VcpuFields \ {"dr6", "cr2", "ex"} : t[f] = s[f]
<1>1. CASE ~s.ex.has_payload
  BY <1>1 DEF kvm_deliver_exception_payload
<1>2. CASE s.ex.has_payload
  <2> DEFINE x == [s.ex EXCEPT !.has_payload = FALSE, !.payload = 0]
             d == IF s.ex.nr = "DB" THEN s.ex.payload ELSE s.dr6
             c == IF s.ex.nr = "PF" THEN s.ex.payload ELSE s.cr2
             t == kvm_deliver_exception_payload(s)
  <2>1. x.pending = s.ex.pending /\ x.injected = s.ex.injected /\ x.nr = s.ex.nr /\ DOMAIN x = ExceptionFields
    BY DEF VcpuOK, ExceptionFields
  <2>2. /\ DOMAIN t = DOMAIN s /\ t.ex = x
        /\ \A f \in DOMAIN s \ {"dr6", "cr2", "ex"} : t[f] = s[f]
    BY <1>2 DEF kvm_deliver_exception_payload, VcpuOK, VcpuFields
  <2> HIDE DEF x, d, c, t
  <2>3. VcpuOK(t)
    BY <2>1, <2>2 DEF VcpuOK, VcpuFields
  <2>4. QED
    BY <2>1, <2>2, <2>3 DEF VcpuOK, t
<1>3. QED
  BY <1>1, <1>2

LEMMA QueueOK == ASSUME NEW s, NEW nr, NEW p, NEW r, VcpuOK(s) PROVE VcpuOK(Queue(s, nr, p, r))
<1> DEFINE x == [pending |-> ~r, injected |-> r, nr |-> nr, has_payload |-> p # 0 /\ ~r,
                 payload |-> IF r THEN 0 ELSE p, of |-> IF r THEN s.ex.of ELSE p]
           y == [s EXCEPT !.ex = x]
<1>1. DOMAIN x = ExceptionFields
  BY DEF ExceptionFields
<1> HIDE DEF x
<1>2. VcpuOK(y)
  BY <1>1 DEF VcpuOK, VcpuFields
<1> HIDE DEF y
<1>3. VcpuOK(kvm_deliver_exception_payload(y))
  BY <1>2, PayloadOK
<1>4. QED
  BY <1>3 DEF Queue, x, y

LEMMA MultipleOK == ASSUME NEW s0, NEW nr, NEW p, NEW r, VcpuOK(s0) PROVE VcpuOK(kvm_multiple_exception(s0, nr, p, r))
<1> DEFINE s == Request(s0, "EVENT")
           x == [NoException EXCEPT !.pending = TRUE, !.nr = "DF"]
<1>1. VcpuOK(s)
  BY RequestOK
<1>2. DOMAIN x = ExceptionFields
  BY DEF ExceptionFields, NoException
<1> HIDE DEF s, x
<1>3. VcpuOK([s EXCEPT !.ex = x])
  BY <1>1, <1>2 DEF VcpuOK, VcpuFields
<1>4. VcpuOK(Queue(s, nr, p, r)) /\ VcpuOK(Request(s, "TRIPLE_FAULT"))
  BY <1>1, QueueOK, RequestOK
<1>5. QED
  BY <1>3, <1>4 DEF kvm_multiple_exception, s, x

LEMMA ProcessNmi ==
    ASSUME NEW s, VcpuOK(s)
    PROVE  LET t == process_nmi(s) IN
           /\ VcpuOK(t) /\ (s.nmi_pending + s.nmi_queued > 0 => t.nmi_pending > 0)
           /\ t.req = s.req \cup {"EVENT"}
           /\ \A f \in VcpuFields \ {"req", "nmi_queued", "nmi_pending"} : t[f] = s[f]
<1> DEFINE n == Min2(s.nmi_pending + s.nmi_queued, NmiLimit(s))
           u == [s EXCEPT !.nmi_pending = n, !.nmi_queued = 0]
<1>1. n \in Nat /\ (s.nmi_pending + s.nmi_queued > 0 => n > 0)
  BY DEF VcpuOK, Min2, NmiLimit
<1> HIDE DEF n
<1>2. VcpuOK(u) /\ u.nmi_pending = n /\ u.req = s.req /\ \A f \in VcpuFields \ {"nmi_queued", "nmi_pending"} : u[f] = s[f]
  BY <1>1 DEF VcpuOK, VcpuFields
<1> HIDE DEF u
<1>3. process_nmi(s) = Request(u, "EVENT")
  BY DEF process_nmi, u, n
<1>4. /\ VcpuOK(Request(u, "EVENT")) /\ Request(u, "EVENT").req = u.req \cup {"EVENT"}
      /\ \A f \in VcpuFields \ {"req"} : Request(u, "EVENT")[f] = u[f]
  BY <1>2 DEF VcpuOK, VcpuFields, Request
<1> DEFINE z == Request(u, "EVENT")
<1> HIDE DEF z
<1>5. z.nmi_pending = n /\ z.req = s.req \cup {"EVENT"} /\ VcpuOK(z)
      /\ \A f \in VcpuFields \ {"req", "nmi_queued", "nmi_pending"} : z[f] = s[f]
  BY <1>2, <1>4 DEF VcpuFields, z
<1>6. QED
  BY <1>1, <1>3, <1>5 DEF z

LEMMA ProcessSmi ==
    ASSUME NEW s, VcpuOK(s)
    PROVE  LET t == process_smi_event(s) IN
           /\ VcpuOK(t) /\ t.smi
           /\ \A f \in VcpuFields \ {"req", "smi"} : t[f] = s[f]
  BY DEF VcpuOK, VcpuFields, process_smi_event, Request

LEMMA CollectedOK ==
    ASSUME NEW s, VcpuOK(s)
    PROVE  LET t == Collected(s) IN
           /\ VcpuOK(t) /\ (s.nmi_pending + s.nmi_queued > 0 => t.nmi_pending > 0)
           /\ (s.smi \/ "SMI" \in s.req => t.smi)
           /\ \A f \in VcpuFields \ {"req", "nmi_queued", "nmi_pending", "smi"} : t[f] = s[f]
<1> DEFINE u == process_nmi(s)
           w == [u EXCEPT !.req = @ \ {"SMI"}]
<1>1. /\ VcpuOK(u) /\ (s.nmi_pending + s.nmi_queued > 0 => u.nmi_pending > 0)
      /\ u.req = s.req \cup {"EVENT"}
      /\ \A f \in VcpuFields \ {"req", "nmi_queued", "nmi_pending"} : u[f] = s[f]
  BY ProcessNmi
<1> HIDE DEF u
<1>2. VcpuOK(w) /\ \A f \in VcpuFields \ {"req"} : w[f] = u[f]
  BY <1>1 DEF VcpuOK, VcpuFields
<1> HIDE DEF w
<1>3. LET t == process_smi_event(w) IN VcpuOK(t) /\ t.smi /\ \A f \in VcpuFields \ {"req", "smi"} : t[f] = w[f]
  BY <1>2, ProcessSmi
<1>4. Collected(s) = IF "SMI" \in u.req THEN process_smi_event(w) ELSE u
  BY DEF Collected, Check, u, w
<1> DEFINE z == process_smi_event(w)
<1>5. /\ VcpuOK(z) /\ z.smi /\ z.nmi_pending = u.nmi_pending
      /\ \A f \in VcpuFields \ {"req", "smi"} : z[f] = u[f]
  BY <1>2, <1>3 DEF VcpuFields
<1> HIDE DEF z
<1>6. CASE "SMI" \in u.req
  BY <1>1, <1>4, <1>5, <1>6 DEF z, VcpuFields
<1>7. CASE "SMI" \notin u.req
  BY <1>1, <1>4, <1>7 DEF VcpuFields
<1>8. QED
  BY <1>6, <1>7

LEMMA GetEvents ==
    ASSUME NEW s0, VcpuOK(s0)
    PROVE  LET e == kvm_vcpu_ioctl_x86_get_vcpu_events(s0)
           IN  /\ VcpuOK(e.s) /\ DOMAIN e.ex = ExceptionFields
               /\ e.irq = s0.irq /\ e.nmi_injected = s0.nmi_injected
               /\ e.nmi_pending \in Nat /\ (s0.nmi_pending + s0.nmi_queued > 0 => e.nmi_pending > 0)
               /\ (s0.smi \/ "SMI" \in s0.req => e.smi)
               /\ (s0.ex.pending \/ s0.ex.injected) /\ ~exception_is_soft(s0.ex.nr) =>
                    e.ex.injected \/ (e.s.cap /\ e.ex.pending)
<1> DEFINE s == Collected(s0)
           s1 == IF ~s.cap /\ s.ex.pending THEN kvm_deliver_exception_payload(s) ELSE s
           soft == exception_is_soft(s.ex.nr)
           x == [s1.ex EXCEPT !.injected = ~soft /\ (@ \/ (~s.cap /\ s1.ex.pending)), !.pending = ~soft /\ @]
           e == kvm_vcpu_ioctl_x86_get_vcpu_events(s0)
<1>1. /\ VcpuOK(s) /\ (s0.nmi_pending + s0.nmi_queued > 0 => s.nmi_pending > 0)
      /\ (s0.smi \/ "SMI" \in s0.req => s.smi)
      /\ s.irq = s0.irq /\ s.nmi_injected = s0.nmi_injected /\ s.ex = s0.ex
  BY CollectedOK DEF VcpuFields
<1> HIDE DEF s
<1>2. /\ VcpuOK(s1) /\ s1.nmi_pending = s.nmi_pending /\ s1.smi = s.smi /\ s1.irq = s.irq /\ s1.cap = s.cap
      /\ s1.nmi_injected = s.nmi_injected
      /\ s1.ex.pending = s.ex.pending /\ s1.ex.injected = s.ex.injected /\ s1.ex.nr = s.ex.nr
  <2>1. CASE ~s.cap /\ s.ex.pending
    <3> DEFINE t == kvm_deliver_exception_payload(s)
    <3>1. /\ VcpuOK(t)
          /\ t.ex.pending = s.ex.pending /\ t.ex.injected = s.ex.injected /\ t.ex.nr = s.ex.nr
          /\ \A f \in VcpuFields \ {"dr6", "cr2", "ex"} : t[f] = s[f]
      BY <1>1, PayloadOK
    <3>2. s1 = t
      BY <2>1
    <3> HIDE DEF t, s1
    <3>3. QED
      BY <3>1, <3>2 DEF VcpuFields
  <2>2. CASE ~(~s.cap /\ s.ex.pending)
    BY <1>1, <2>2
  <2>3. QED
    BY <2>1, <2>2
<1> HIDE DEF s1
<1>3. /\ x.injected = (~soft /\ (s1.ex.injected \/ (~s.cap /\ s1.ex.pending)))
      /\ x.pending = (~soft /\ s1.ex.pending)
      /\ DOMAIN x = ExceptionFields
  BY <1>2 DEF VcpuOK, ExceptionFields
<1> HIDE DEF x, soft
<1>4. /\ e.s = s1 /\ e.ex = x /\ e.irq = s1.irq /\ e.nmi_injected = s1.nmi_injected
      /\ e.nmi_pending = (IF s1.nmi_pending > 0 THEN 1 ELSE 0) /\ e.smi = s1.smi
  BY DEF kvm_vcpu_ioctl_x86_get_vcpu_events, s, s1, x, soft
<1> HIDE DEF e
<1>5. VcpuOK(e.s) /\ DOMAIN e.ex = ExceptionFields
  BY <1>2, <1>3, <1>4
<1>6. e.nmi_pending \in Nat /\ (s0.nmi_pending + s0.nmi_queued > 0 => e.nmi_pending > 0)
  BY <1>1, <1>2, <1>4
<1>7. /\ e.irq = s0.irq /\ e.nmi_injected = s0.nmi_injected
      /\ (s0.smi \/ "SMI" \in s0.req => e.smi)
  BY <1>1, <1>2, <1>4
<1>8. (s0.ex.pending \/ s0.ex.injected) /\ ~exception_is_soft(s0.ex.nr) => e.ex.injected \/ (e.s.cap /\ e.ex.pending)
  BY <1>1, <1>2, <1>3, <1>4 DEF soft
<1>9. QED
  BY <1>5, <1>6, <1>7, <1>8 DEF e

LEMMA SetEvents ==
    ASSUME NEW s0, VcpuOK(s0), NEW e, DOMAIN e.ex = ExceptionFields, e.nmi_pending \in Nat
    PROVE  LET r == kvm_vcpu_ioctl_x86_set_vcpu_events(s0, e)
           IN  /\ VcpuOK(r) /\ r.irq = e.irq /\ r.nmi_injected = e.nmi_injected
               /\ r.nmi_pending = e.nmi_pending /\ r.smi = e.smi
               /\ e.ex.injected \/ (e.s.cap /\ e.ex.pending) => r.ex.pending \/ r.ex.injected
<1> DEFINE s == process_nmi(s0)
           x == SanitizedException(e)
           y == IF e.smm THEN e.smm_in_nmi ELSE s.smm_in_nmi
           z == [s EXCEPT !.ex = x, !.irq = e.irq,
                      !.nmi_injected = e.nmi_injected, !.nmi_pending = e.nmi_pending,
                      !.nmi_masked = e.nmi_masked, !.smm = e.smm, !.smi = e.smi,
                      !.smm_in_nmi = y]
<1>1. VcpuOK(s)
  BY ProcessNmi
<1>2. DOMAIN x = ExceptionFields /\ (e.ex.injected \/ (e.s.cap /\ e.ex.pending) => x.pending \/ x.injected)
  BY DEF SanitizedException, TakeOne, ExceptionFields
<1>3. kvm_vcpu_ioctl_x86_set_vcpu_events(s0, e) = Request(z, "EVENT")
  BY DEF kvm_vcpu_ioctl_x86_set_vcpu_events
<1> HIDE DEF s, x, y
<1>4. VcpuOK(z) /\ z.ex = x /\ z.irq = e.irq /\ z.nmi_injected = e.nmi_injected /\ z.nmi_pending = e.nmi_pending /\ z.smi = e.smi
  BY <1>1, <1>2 DEF VcpuOK, VcpuFields
<1> HIDE DEF z
<1>5. LET r == Request(z, "EVENT") IN
      VcpuOK(r) /\ r.ex = z.ex /\ r.irq = z.irq /\ r.nmi_injected = z.nmi_injected /\ r.nmi_pending = z.nmi_pending /\ r.smi = z.smi
  BY <1>4 DEF VcpuOK, VcpuFields, Request
<1>6. QED
  BY <1>2, <1>3, <1>4, <1>5

\* Whatever the virtual CPU is, the events it has are there after a restore.
LEMMA RestoreKeeps == VcpuOK(v) => RestoreKeepsEvents
<1> SUFFICES ASSUME VcpuOK(v) PROVE RestoreKeepsEvents
  OBVIOUS
<1> DEFINE e == kvm_vcpu_ioctl_x86_get_vcpu_events(v)
           r == kvm_vcpu_ioctl_x86_set_vcpu_events(e.s, e)
<1>1. /\ VcpuOK(e.s) /\ DOMAIN e.ex = ExceptionFields
      /\ e.irq = v.irq /\ e.nmi_injected = v.nmi_injected
      /\ e.nmi_pending \in Nat /\ (v.nmi_pending + v.nmi_queued > 0 => e.nmi_pending > 0)
      /\ (v.smi \/ "SMI" \in v.req => e.smi)
      /\ (v.ex.pending \/ v.ex.injected) /\ ~exception_is_soft(v.ex.nr) => e.ex.injected \/ (e.s.cap /\ e.ex.pending)
  BY GetEvents
<1> HIDE DEF e
<1>2. /\ r.irq = e.irq /\ r.nmi_injected = e.nmi_injected
      /\ r.nmi_pending = e.nmi_pending /\ r.smi = e.smi
      /\ e.ex.injected \/ (e.s.cap /\ e.ex.pending) => r.ex.pending \/ r.ex.injected
  BY <1>1, SetEvents
<1> HIDE DEF r
<1>3. QED
  BY <1>1, <1>2 DEF RestoreKeepsEvents, e, r

\* Steps of inject_pending_event carry a virtual CPU.
LEMMA InjectionOK ==
    ASSUME NEW s0, VcpuOK(s0)
    PROVE  VcpuOK(inject_pending_event(s0).s)
<1> DEFINE OK(t) == VcpuOK(t.s)
<1>a. ASSUME NEW s, NEW x, VcpuOK(s) PROVE VcpuOK(Put(s, x)) /\ VcpuOK([s EXCEPT !.imm = TRUE]) /\ VcpuOK(enter_smm(s)) /\ VcpuOK(NmiWindow(s))
  BY <1>a DEF Put, VcpuOK, VcpuFields, enter_smm, NmiWindow
<1>b. ASSUME NEW t, NEW s, NEW c, NEW d, VcpuOK(s) PROVE OK(Step(s, c, d)) /\ (OK(t) => OK(Busy(t)))
  BY <1>a, <1>b DEF Step, Busy
<1> DEFINE r == Reinject(s0)
           x == InjectException(r)
           m == InjectSmi(x)
           n == InjectNmi(m)
<1>1. OK(r)
  BY <1>a, <1>b DEF Reinject
<1> HIDE DEF r
<1>2. OK(x)
  <2>1. CASE ~r.s.ex.pending
    BY <1>1, <2>1 DEF InjectException
  <2>2. CASE r.s.ex.pending
    <3> DEFINE s == [r.s EXCEPT !.ex.pending = FALSE, !.ex.injected = TRUE]
               d == IF s.ex.nr = "DB" THEN kvm_deliver_exception_payload(s) ELSE s
    <3>1. VcpuOK(s)
      <4> DEFINE y == [r.s.ex EXCEPT !.pending = FALSE, !.injected = TRUE]
      <4>1. DOMAIN y = ExceptionFields
        BY <1>1 DEF VcpuOK
      <4>2. s = [r.s EXCEPT !.ex = y]
        BY <1>1 DEF VcpuOK, VcpuFields
      <4> HIDE DEF y, s
      <4>3. QED
        BY <1>1, <4>1, <4>2 DEF VcpuOK, VcpuFields
    <3> HIDE DEF s
    <3>2. VcpuOK(d)
      BY <3>1, PayloadOK
    <3> HIDE DEF d
    <3>3. OK(Step(Put(d, "ex"), FALSE, FALSE))
      BY <1>a, <1>b, <3>2
    <3>4. x = Step(Put(d, "ex"), FALSE, FALSE)
      BY <2>2 DEF InjectException, s, d
    <3>5. QED
      BY <3>3, <3>4
  <2>3. QED
    BY <2>1, <2>2
<1> HIDE DEF x
<1>3. OK(m)
  BY <1>a, <1>b, <1>2 DEF InjectSmi
<1> HIDE DEF m
<1>4. OK(n)
  <2> DEFINE y == [m.s EXCEPT !.nmi_pending = @ - 1, !.nmi_injected = TRUE]
  <2>1. m.s.nmi_pending # 0 => VcpuOK(y)
    BY <1>3 DEF VcpuOK, VcpuFields
  <2> HIDE DEF y
  <2>2. m.s.nmi_pending # 0 => OK(Step(NmiWindow(Put(y, "nmi")), FALSE, FALSE))
    BY <1>a, <1>b, <2>1
  <2>3. OK(Step(NmiWindow(m.s), m.can, FALSE)) /\ OK(Busy(m))
    BY <1>a, <1>b, <1>3
  <2>4. QED
    BY <1>3, <2>2, <2>3 DEF InjectNmi, y
<1> HIDE DEF n
<1>5. OK(InjectIrq(n))
  <2>1. VcpuOK([n.s EXCEPT !.irq = TRUE]) /\ VcpuOK([n.s EXCEPT !.window = @ \cup {"irq"}])
    BY <1>4 DEF VcpuOK, VcpuFields
  <2>2. /\ OK(Step(Put([n.s EXCEPT !.irq = TRUE], "irq"), n.can, FALSE))
        /\ OK(Step([n.s EXCEPT !.window = @ \cup {"irq"}], n.can, FALSE)) /\ OK(Busy(n))
    BY <1>a, <1>b, <1>4, <2>1
  <2>3. QED
    BY <1>4, <2>2 DEF InjectIrq
<1>6. QED
  BY <1>2, <1>5 DEF inject_pending_event, InjectInOrder, r, x, m, n

LEMMA EventInitInv == EventInit => VcpuOK(v)
  BY DEF EventInit, VcpuOK, VcpuFields, ExceptionFields, NoException

LEMMA EventNextInv ==
    ASSUME VcpuOK(v), EventNext
    PROVE  VcpuOK(v)'
<1>a. ASSUME NEW s, NEW r, VcpuOK(s) PROVE VcpuOK([s EXCEPT !.req = @ \ r])
  BY <1>a DEF VcpuOK, VcpuFields
<1>b. ASSUME NEW s, VcpuOK(s) PROVE VcpuOK(EventExit(s)) /\ VcpuOK(kvm_smm_changed_event(s)) /\ VcpuOK(kvm_inject_nmi(s))
  BY <1>b DEF VcpuOK, VcpuFields, EventExit, kvm_smm_changed_event, kvm_inject_nmi, Request
<1>c. ASSUME NEW s, VcpuOK(s) PROVE VcpuOK(Completed(s))
  <2> DEFINE y == [s.ex EXCEPT !.injected = FALSE]
  <2>1. DOMAIN y = ExceptionFields
    BY <1>c DEF VcpuOK
  <2>2. Completed(s) = [s EXCEPT !.ex = y, !.nmi_injected = FALSE, !.irq = FALSE]
    BY <1>c DEF Completed, VcpuOK, VcpuFields
  <2> HIDE DEF y
  <2>3. QED
    BY <1>c, <2>1, <2>2 DEF VcpuOK, VcpuFields
<1>d. ASSUME NEW s, VcpuOK(s) PROVE VcpuOK(process_nmi(s)) /\ VcpuOK(process_smi_event(s))
  BY <1>d, ProcessNmi, ProcessSmi
<1>1. CASE EventEnterGuest
  <2> DEFINE s1 == Requests(v)
             s2 == [s1 EXCEPT !.req = @ \ {"EVENT"}]
             t == inject_pending_event(s2)
  <2>1. VcpuOK(s1)
    <3> DEFINE u == Check(v, "SMI", process_smi_event)
    <3>1. VcpuOK(u)
      BY <1>a, <1>d DEF Check
    <3> HIDE DEF u
    <3>2. VcpuOK(Check(u, "NMI", process_nmi))
      BY <1>a, <1>d, <3>1 DEF Check
    <3>3. QED
      BY <3>2 DEF Requests, u
  <2> HIDE DEF s1
  <2>2. VcpuOK(s2)
    BY <1>a, <2>1
  <2> HIDE DEF s2
  <2>3. VcpuOK(t.s)
    BY <2>2, InjectionOK
  <2>4. VcpuOK(AfterInjection(t))
    BY <2>3, RequestOK DEF AfterInjection, AskAgain
  <2> HIDE DEF t
  <2>5. v' \in {[v EXCEPT !.req = @ \ {"TRIPLE_FAULT"}], s1, AfterInjection(t)}
    BY <1>1 DEF EventEnterGuest, s1, s2, t
  <2>6. VcpuOK([v EXCEPT !.req = @ \ {"TRIPLE_FAULT"}])
    BY <1>a
  <2>7. VcpuOK(v')
    BY <2>1, <2>4, <2>5, <2>6
  <2>8. QED
    BY <2>7 DEF VcpuOK
<1>2. CASE EventDeliver
  <2> DEFINE c == Completed(v)
  <2>1. VcpuOK(c)
    BY <1>c
  <2> HIDE DEF c
  <2>2. VcpuOK([c EXCEPT !.nmi_masked = @ \/ "nmi" \in v.hw, !.if_flag = @ /\ "irq" \notin v.hw, !.hw = {}])
    BY <2>1 DEF VcpuOK, VcpuFields
  <2>3. VcpuOK(v')
    BY <1>2, <2>2 DEF EventDeliver, Taken, c
  <2>4. QED
    BY <2>3 DEF VcpuOK
<1>3. CASE DeliveryExits
  <2> DEFINE c == EventExit(Completed(v))
  <2>1. VcpuOK(c)
    BY <1>b, <1>c
  <2> HIDE DEF c
  <2>2. VcpuOK(kvm_multiple_exception(c, v.ex.nr, 0, TRUE))
    BY <2>1, MultipleOK
  <2>3. VcpuOK([c EXCEPT !.nmi_injected = TRUE]) /\ VcpuOK([c EXCEPT !.irq = TRUE])
    BY <2>1 DEF VcpuOK, VcpuFields
  <2>4. VcpuOK(v')
    BY <1>3, <2>2, <2>3, RequestOK DEF DeliveryExits, Requeued, c
  <2>5. QED
    BY <2>4 DEF VcpuOK
<1>4. CASE EventExitGuest
  <2> DEFINE c == EventExit(v)
  <2>1. VcpuOK(c)
    BY <1>b
  <2> HIDE DEF c
  <2>2. VcpuOK([c EXCEPT !.window = @ \ Open(v)])
    BY <2>1 DEF VcpuOK, VcpuFields
  <2>3. VcpuOK(v')
    BY <1>4, <2>1, <2>2, RequestOK DEF EventExitGuest, c
  <2>4. QED
    BY <2>3 DEF VcpuOK
<1>5. CASE Iret \/ EventSti
  BY <1>5 DEF Iret, EventSti, VcpuOK, VcpuFields
<1>6. CASE EventRsm
  <2> DEFINE c == EventExit(v)
             d == [c EXCEPT !.nmi_masked = v.smm_in_nmi, !.smm_in_nmi = FALSE]
  <2>1. VcpuOK(c)
    BY <1>b
  <2> HIDE DEF c
  <2>2. VcpuOK(d)
    BY <2>1 DEF VcpuOK, VcpuFields
  <2> HIDE DEF d
  <2>3. VcpuOK(v')
    BY <1>6, <1>b, <2>2 DEF EventRsm, c, d
  <2>4. QED
    BY <2>3 DEF VcpuOK
<1>7. CASE RaiseNmi \/ RaiseSmi \/ RaiseIrq
  <2>1. VcpuOK(v')
    BY <1>7, <1>b, RequestOK DEF RaiseNmi, RaiseSmi, RaiseIrq
  <2>2. QED
    BY <2>1 DEF VcpuOK
<1>8. ASSUME NEW nr, NEW p, RaiseException(nr, p) PROVE VcpuOK(v)'
  <2>1. VcpuOK(v')
    BY <1>8, MultipleOK DEF RaiseException
  <2>2. QED
    BY <2>1 DEF VcpuOK
<1>9. CASE SaveAndRestore
  <2> DEFINE e == kvm_vcpu_ioctl_x86_get_vcpu_events(v)
  <2>1. VcpuOK(e.s) /\ DOMAIN e.ex = ExceptionFields /\ e.nmi_pending \in Nat
    BY GetEvents
  <2>2. v' = kvm_vcpu_ioctl_x86_set_vcpu_events(e.s, e)
    BY <1>9 DEF SaveAndRestore
  <2> HIDE DEF e
  <2>3. VcpuOK(v')
    BY <2>1, <2>2, SetEvents
  <2>4. QED
    BY <2>3 DEF VcpuOK
<1>10. QED
  BY <1>1, <1>2, <1>3, <1>4, <1>5, <1>6, <1>7, <1>8, <1>9 DEF EventNext

-----------------------------------------------------------------------------
(***************************************************************************)
(* The save area of SMM: every store lies in it and no two stores meet.    *)
(* A layout is put together of pieces whose bytes lie in disjoint sets.    *)
(***************************************************************************)
Span(a, b) == {x \in Nat : a <= x /\ x <= b}
Laid(s, A) ==
    /\ Len(s) \in Nat
    /\ \A k \in 1 .. Len(s) : Bytes(s[k]) \subseteq A
    /\ \A k \in 1 .. Len(s) : \A j \in k + 1 .. Len(s) : Bytes(s[j]) \cap Bytes(s[k]) = {}

LEMMA LaidConcat ==
    ASSUME NEW s, NEW t, NEW A, NEW B, Laid(s, A), Laid(t, B), A \cap B = {}
    PROVE  Laid(s \o t, A \cup B)
<1> DEFINE r == s \o t
           F(i) == IF i <= Len(s) THEN s[i] ELSE t[i - Len(s)]
<1>1. Len(r) = Len(s) + Len(t) /\ \A i \in 1 .. Len(r) : r[i] = F(i)
  BY DEF Laid
<1> HIDE DEF r
<1>2. Len(r) \in Nat /\ Len(s) \in Nat /\ Len(t) \in Nat
  BY <1>1 DEF Laid
<1>3. \A i \in 1 .. Len(r) : \/ i \in 1 .. Len(s) /\ r[i] = s[i]
                             \/ i - Len(s) \in 1 .. Len(t) /\ r[i] = t[i - Len(s)]
  BY <1>1, <1>2
<1>4. \A k \in 1 .. Len(r) : Bytes(r[k]) \subseteq A \cup B
  BY <1>3 DEF Laid
<1>5. ASSUME NEW k \in 1 .. Len(r), NEW j \in k + 1 .. Len(r)
      PROVE  Bytes(r[j]) \cap Bytes(r[k]) = {}
  <2>0. j \in 1 .. Len(r)
    BY <1>2
  <2>1. CASE k \in 1 .. Len(s) /\ r[k] = s[k] /\ j \in 1 .. Len(s) /\ r[j] = s[j]
    <3>1. j \in k + 1 .. Len(s)
      BY <1>2, <1>5, <2>1
    <3>2. QED
      BY <2>1, <3>1 DEF Laid
  <2>2. CASE k \in 1 .. Len(s) /\ r[k] = s[k] /\ j - Len(s) \in 1 .. Len(t) /\ r[j] = t[j - Len(s)]
    <3>1. Bytes(s[k]) \subseteq A /\ Bytes(t[j - Len(s)]) \subseteq B
      BY <2>2 DEF Laid
    <3>2. QED
      BY <2>2, <3>1
  <2>3. CASE k - Len(s) \in 1 .. Len(t) /\ r[k] = t[k - Len(s)] /\ j - Len(s) \in 1 .. Len(t) /\ r[j] = t[j - Len(s)]
    <3>1. j - Len(s) \in (k - Len(s)) + 1 .. Len(t)
      BY <1>2, <1>5, <2>3
    <3>2. QED
      BY <2>3, <3>1 DEF Laid
  <2>4. CASE k - Len(s) \in 1 .. Len(t) /\ j \in 1 .. Len(s)
    BY <1>2, <1>5, <2>4
  <2>5. QED
    BY <1>3, <2>0, <2>1, <2>2, <2>3, <2>4
<1>6. QED
  BY <1>2, <1>4, <1>5 DEF Laid, r

\* The stores of one segment register in 64-bit mode, and of the general registers.
LEMMA Seg64Laid == \A n \in 0 .. 5 : Laid(enter_smm_save_seg_64(n), Span(32256 + n * 16, 32271 + n * 16))
  BY DEF enter_smm_save_seg_64, Laid, Bytes, Span
LEMMA Gpr64Laid == Laid([i \in 1 .. 16 |-> <<"gpr", i - 1, 32760 - (i - 1) * 8, 8>>], Span(32640, 32767))
  BY DEF Laid, Bytes, Span
LEMMA Gpr32Laid == Laid([i \in 1 .. 8 |-> <<"gpr", i - 1, 32720 + (i - 1) * 4, 4>>], Span(32720, 32751))
  BY DEF Laid, Bytes, Span
Seg32Bytes(n) == Span(32680 + n * 4, 32683 + n * 4) \cup Span(Seg32At(n), Seg32At(n) + 11)
LEMMA Seg32Laid == \A n \in 0 .. 5 : Laid(enter_smm_save_seg_32(n), Seg32Bytes(n))
  BY DEF Seg32Bytes, enter_smm_save_seg_32, Laid, Bytes, Span, Seg32At
LEMMA Head32Laid ==
    Laid(<< <<"cr0", 0, 32764, 4>>, <<"cr3", 0, 32760, 4>>, <<"rflags", 0, 32756, 4>>, <<"rip", 0, 32752, 4>> >>,
         Span(32752, 32767))
  BY DEF Laid, Bytes, Span
Tail32 == << <<"cr4", 0, 32532, 4>>, <<"revision", 0, 32508, 4>>, <<"smbase", 0, 32504, 4>> >>
Middle32 ==
    << <<"dr6", 0, 32716, 4>>, <<"dr7", 0, 32712, 4>>,
       <<"tr", 0, 32708, 4>>, <<"tr", 1, 32612, 4>>, <<"tr", 2, 32608, 4>>, <<"tr", 3, 32604, 4>>,
       <<"ldtr", 0, 32704, 4>>, <<"ldtr", 1, 32640, 4>>, <<"ldtr", 2, 32636, 4>>, <<"ldtr", 3, 32632, 4>>,
       <<"gdt", 0, 32628, 4>>, <<"gdt", 1, 32624, 4>>, <<"idt", 0, 32600, 4>>, <<"idt", 1, 32596, 4>> >>
Middle64 ==
    << <<"rip", 0, 32632, 8>>, <<"rflags", 0, 32624, 4>>, <<"dr6", 0, 32616, 8>>, <<"dr7", 0, 32608, 8>>,
       <<"cr0", 0, 32600, 8>>, <<"cr3", 0, 32592, 8>>, <<"cr4", 0, 32584, 8>>, <<"smbase", 0, 32512, 4>>,
       <<"revision", 0, 32508, 4>>, <<"efer", 0, 32464, 8>>,
       <<"tr", 0, 32400, 2>>, <<"tr", 3, 32402, 2>>, <<"tr", 2, 32404, 4>>, <<"tr", 1, 32408, 8>>,
       <<"idt", 1, 32388, 4>>, <<"idt", 0, 32392, 8>>,
       <<"ldtr", 0, 32368, 2>>, <<"ldtr", 3, 32370, 2>>, <<"ldtr", 2, 32372, 4>>, <<"ldtr", 1, 32376, 8>>,
       <<"gdt", 1, 32356, 4>>, <<"gdt", 0, 32360, 8>> >>
LEMMA Tail32Laid == Laid(Tail32, Span(32504, 32535))
  BY DEF Laid, Bytes, Span, Tail32
LEMMA Middle32Laid == Laid(Middle32, Span(32704, 32719) \cup Span(32596, 32643))
  BY DEF Laid, Bytes, Span, Middle32
LEMMA Middle64Laid == Laid(Middle64, Span(32356, 32639))
<1> DEFINE lo(k) == Middle64[k][3]
           hi(k) == Middle64[k][3] + Middle64[k][4] - 1
<1>1. Len(Middle64) = 22
  BY DEF Middle64
<1>2. /\ lo(1) = 32632 /\ hi(1) = 32639 /\ lo(2) = 32624 /\ hi(2) = 32627
      /\ lo(3) = 32616 /\ hi(3) = 32623 /\ lo(4) = 32608 /\ hi(4) = 32615
      /\ lo(5) = 32600 /\ hi(5) = 32607 /\ lo(6) = 32592 /\ hi(6) = 32599
      /\ lo(7) = 32584 /\ hi(7) = 32591 /\ lo(8) = 32512 /\ hi(8) = 32515
  BY DEF Middle64
<1>3. /\ lo(9) = 32508 /\ hi(9) = 32511 /\ lo(10) = 32464 /\ hi(10) = 32471
      /\ lo(11) = 32400 /\ hi(11) = 32401 /\ lo(12) = 32402 /\ hi(12) = 32403
      /\ lo(13) = 32404 /\ hi(13) = 32407 /\ lo(14) = 32408 /\ hi(14) = 32415
      /\ lo(15) = 32388 /\ hi(15) = 32391 /\ lo(16) = 32392 /\ hi(16) = 32399
  BY DEF Middle64
<1>4. /\ lo(17) = 32368 /\ hi(17) = 32369 /\ lo(18) = 32370 /\ hi(18) = 32371
      /\ lo(19) = 32372 /\ hi(19) = 32375 /\ lo(20) = 32376 /\ hi(20) = 32383
      /\ lo(21) = 32356 /\ hi(21) = 32359 /\ lo(22) = 32360 /\ hi(22) = 32367
  BY DEF Middle64
<1> HIDE DEF lo, hi
<1>5. ASSUME NEW k \in 1 .. 22 PROVE lo(k) \in Nat /\ hi(k) \in Nat /\ lo(k) >= 32356 /\ hi(k) <= 32639
  BY <1>2, <1>3, <1>4
<1>6. ASSUME NEW k \in 1 .. 22, NEW j \in 1 .. 22, k < j PROVE hi(k) < lo(j) \/ hi(j) < lo(k)
  BY <1>2, <1>3, <1>4, <1>6
<1>7. \A k \in 1 .. 22 : Bytes(Middle64[k]) = lo(k) .. hi(k)
  BY DEF Bytes, lo, hi
<1>8. ASSUME NEW k \in 1 .. 22 PROVE Bytes(Middle64[k]) \subseteq Span(32356, 32639)
  <2>1. lo(k) \in Nat /\ hi(k) \in Nat /\ lo(k) >= 32356 /\ hi(k) <= 32639
    BY <1>5
  <2>2. Bytes(Middle64[k]) = lo(k) .. hi(k)
    BY <1>7
  <2>3. QED
    BY <2>1, <2>2 DEF Span
<1>9. ASSUME NEW k \in 1 .. 22, NEW j \in k + 1 .. 22 PROVE Bytes(Middle64[j]) \cap Bytes(Middle64[k]) = {}
  <2>1. j \in 1 .. 22 /\ k < j
    OBVIOUS
  <2>2. lo(k) \in Nat /\ hi(k) \in Nat /\ lo(j) \in Nat /\ hi(j) \in Nat
    BY <1>5, <2>1
  <2>3. hi(k) < lo(j) \/ hi(j) < lo(k)
    BY <1>6, <2>1
  <2>4. Bytes(Middle64[k]) = lo(k) .. hi(k) /\ Bytes(Middle64[j]) = lo(j) .. hi(j)
    BY <1>7, <2>1
  <2>5. QED
    BY <2>2, <2>3, <2>4
<1>10. QED
  BY <1>1, <1>8, <1>9 DEF Laid

LEMMA LaidWithin == ASSUME NEW s, NEW A, NEW B, Laid(s, A), A \subseteq B PROVE Laid(s, B)
<1>1. \A k \in 1 .. Len(s) : Bytes(s[k]) \subseteq B
  BY DEF Laid
<1>2. QED
  BY <1>1 DEF Laid

\* Disjoint pieces one after the other.
LEMMA State64Laid == Laid(enter_smm_save_state_64, Span(32256, 32767))
<1> DEFINE G == [i \in 1 .. 16 |-> <<"gpr", i - 1, 32760 - (i - 1) * 8, 8>>]
           S(n) == enter_smm_save_seg_64(n)
           A(n) == Span(32356, 32767) \cup Span(32256, 32255 + n * 16)
<1>0. Laid(G \o Middle64, A(0))
  <2>1. Span(32640, 32767) \cap Span(32356, 32639) = {}
    BY DEF Span
  <2>2. Span(32640, 32767) \cup Span(32356, 32639) = A(0)
    BY DEF Span
  <2>3. Laid(G, Span(32640, 32767))
    BY Gpr64Laid
  <2> HIDE DEF G, A
  <2>4. Laid(G \o Middle64, Span(32640, 32767) \cup Span(32356, 32639))
    BY <2>1, <2>3, Middle64Laid, LaidConcat
  <2>5. QED
    BY <2>2, <2>4
<1> HIDE DEF G
<1>1. ASSUME NEW t, NEW n \in 0 .. 5, Laid(t, A(n)) PROVE Laid(t \o S(n), A(n + 1))
  <2>1. A(n) \cap Span(32256 + n * 16, 32271 + n * 16) = {}
    BY DEF Span
  <2>2. A(n) \cup Span(32256 + n * 16, 32271 + n * 16) = A(n + 1)
    BY DEF Span
  <2>3. Laid(S(n), Span(32256 + n * 16, 32271 + n * 16))
    BY Seg64Laid
  <2> HIDE DEF A, S
  <2>4. Laid(t \o S(n), A(n) \cup Span(32256 + n * 16, 32271 + n * 16))
    BY <1>1, <2>1, <2>3, LaidConcat
  <2>5. QED
    BY <2>2, <2>4
<1> HIDE DEF A, S
<1>2. Laid(G \o Middle64 \o S(0) \o S(1), A(2))
  BY <1>0, <1>1
<1>3. Laid(G \o Middle64 \o S(0) \o S(1) \o S(2) \o S(3), A(4))
  BY <1>1, <1>2
<1>4. Laid(G \o Middle64 \o S(0) \o S(1) \o S(2) \o S(3) \o S(4) \o S(5), A(6))
  BY <1>1, <1>3
<1>5. A(6) \subseteq Span(32256, 32767)
  BY DEF A, Span
<1>6. enter_smm_save_state_64 = G \o Middle64 \o S(0) \o S(1) \o S(2) \o S(3) \o S(4) \o S(5)
  BY DEF enter_smm_save_state_64, G, Middle64, S
<1>7. QED
  BY <1>4, <1>5, <1>6, LaidWithin

LEMMA State32Laid == Laid(enter_smm_save_state_32, Span(32256, 32767))
<1> DEFINE H == << <<"cr0", 0, 32764, 4>>, <<"cr3", 0, 32760, 4>>, <<"rflags", 0, 32756, 4>>, <<"rip", 0, 32752, 4>> >>
           G == [i \in 1 .. 8 |-> <<"gpr", i - 1, 32720 + (i - 1) * 4, 4>>]
           S(n) == enter_smm_save_seg_32(n)
           M == Span(32704, 32719) \cup Span(32596, 32643)
           B(n) == Seg32Bytes(n)
           Sels(n) == Span(32680, 32679 + n * 4)
           Lows(n) == IF n <= 3 THEN Span(32644, 32643 + n * 12) ELSE Span(32644, 32679) \cup Span(32556, 32555 + (n - 3) * 12)
           A(n) == Span(32720, 32767) \cup M \cup Sels(n) \cup Lows(n)
<1>0. Laid(H \o G \o Middle32, A(0))
  <2>1. Laid(H, Span(32752, 32767)) /\ Laid(G, Span(32720, 32751))
    BY Head32Laid, Gpr32Laid
  <2> HIDE DEF H, G, A, M
  <2>2. Span(32752, 32767) \cap Span(32720, 32751) = {} /\ Span(32752, 32767) \cup Span(32720, 32751) = Span(32720, 32767)
    BY DEF Span
  <2>3. Laid(H \o G, Span(32720, 32767))
    BY <2>1, <2>2, LaidConcat
  <2>4. Laid(Middle32, M)
    BY Middle32Laid DEF M
  <2>5. Span(32720, 32767) \cap M = {} /\ Span(32720, 32767) \cup M = A(0)
    BY DEF Span, M, A
  <2>6. QED
    BY <2>3, <2>4, <2>5, LaidConcat
<1> HIDE DEF H, G
<1>1. ASSUME NEW t, NEW n \in 0 .. 5, Laid(t, A(n)) PROVE Laid(t \o S(n), A(n + 1))
  <2>1. A(n) \cap B(n) = {}
    BY DEF Span, Seg32At, Seg32Bytes
  <2>2. A(n) \cup B(n) = A(n + 1)
    BY DEF Span, Seg32At, Seg32Bytes
  <2>3. Laid(S(n), B(n))
    BY Seg32Laid, Zenon
  <2> HIDE DEF A, S, B
  <2>4. Laid(t \o S(n), A(n) \cup B(n))
    BY <1>1, <2>1, <2>3, LaidConcat
  <2>5. QED
    BY <2>2, <2>4
<1>a. A(6) \cap Span(32504, 32535) = {} /\ A(6) \cup Span(32504, 32535) \subseteq Span(32256, 32767)
  BY DEF Span
<1> HIDE DEF A, S
<1>2. Laid(H \o G \o Middle32 \o S(0) \o S(1), A(2))
  BY <1>0, <1>1
<1>3. Laid(H \o G \o Middle32 \o S(0) \o S(1) \o S(2) \o S(3), A(4))
  BY <1>1, <1>2
<1> DEFINE X == H \o G \o Middle32 \o S(0) \o S(1) \o S(2) \o S(3) \o S(4) \o S(5)
<1>4. Laid(X, A(6))
  BY <1>1, <1>3
<1>5. enter_smm_save_state_32 = X \o Tail32
  BY DEF enter_smm_save_state_32, H, G, Middle32, S, Tail32
<1> HIDE DEF X
<1>6. Laid(X \o Tail32, A(6) \cup Span(32504, 32535))
  BY <1>4, <1>a, Tail32Laid, LaidConcat
<1>7. QED
  BY <1>5, <1>6, <1>a, LaidWithin

\* Every field that was saved is read back.
LEMMA AllReadBack == \A l \in BOOLEAN : FieldsOf[l] \subseteq ReadBackOf[l]
<1> SUFFICES ASSUME NEW l \in BOOLEAN PROVE FieldsOf[l] \subseteq ReadBackOf[l]
  OBVIOUS
<1> DEFINE s == Stores[l]
<1>1. Laid(s, Span(32256, 32767))
  BY State64Laid, State32Laid DEF Stores
<1> HIDE DEF s
<1>2. Span(32256, 32767) \subseteq Area
  BY DEF Span, Area
<1>3. FieldsOf[l] = {<<s[k][1], s[k][2]>> : k \in 1 .. Len(s)}
  BY DEF FieldsOf, s
<1>4. ReadBackOf[l] = {<<s[k][1], s[k][2]>> : k \in {k \in 1 .. Len(s) :
         Bytes(s[k]) \subseteq Area /\ \A j \in k + 1 .. Len(s) : Bytes(s[j]) \cap Bytes(s[k]) = {}}}
  BY DEF ReadBackOf, s
<1>5. \A k \in 1 .. Len(s) : Bytes(s[k]) \subseteq Area /\ \A j \in k + 1 .. Len(s) : Bytes(s[j]) \cap Bytes(s[k]) = {}
  <2>1. Laid(s, Area)
    BY <1>1, <1>2, LaidWithin
  <2>2. QED
    BY <2>1 DEF Laid
<1>6. QED
  BY <1>3, <1>4, <1>5

\* Outside SMM the registers are the operating system's, inside it the save
\* area holds them; RSM reads all of them back.
SmmInv ==
    /\ lm \in BOOLEAN /\ DOMAIN smram = Backed /\ DOMAIN smmRegs = Fields
    /\ RsmRestores /\ SavedContext

LEMMA SmmInitInv == SmmInit => SmmInv
  BY DEF SmmInit, SmmInv, RsmRestores, SavedContext, smm

LEMMA SmmNextInv ==
    ASSUME SmmInv, SmmNext
    PROVE  SmmInv'
<1> USE DEF SmmInv
<1>a. ASSUME UNCHANGED lm PROVE Fields' = Fields
  BY <1>a DEF Fields
<1>b. ASSUME UNCHANGED <<lm, smmRegs, context, smram, smbase, hflags, dead>> PROVE SmmInv'
  BY <1>a, <1>b DEF RsmRestores, SavedContext, smm
<1>1. CASE Smi \/ process_smi_smm
  BY <1>1, <1>b DEF Smi, process_smi_smm
<1>2. CASE SmmGuestRuns
  <2>1. UNCHANGED <<lm, smram, smbase, hflags, dead>>
    BY <1>2 DEF SmmGuestRuns
  <2>2. CASE ~smm /\ \E c \in Contexts : context' = c /\ smmRegs' = [f \in Fields |-> c]
    BY <1>a, <2>1, <2>2 DEF RsmRestores, SavedContext, smm
  <2>3. CASE smm /\ smmRegs' = [f \in Fields |-> 9] /\ UNCHANGED context
    BY <1>a, <2>1, <2>3 DEF RsmRestores, SavedContext, smm
  <2>4. QED
    BY <1>2, <2>2, <2>3 DEF SmmGuestRuns
<1>3. CASE Inject
  <2>1. UNCHANGED <<lm, context, smbase, dead>> /\ ~dead
    BY <1>3 DEF Inject
  <2>2. CASE smi_pending /\ ~smm
    <3>1. /\ smram' = IF smbase \in Backed THEN [smram EXCEPT ![smbase] = smmRegs] ELSE smram
          /\ kvm_smm_changed_smm(TRUE)
          /\ smmRegs' = [f \in Fields |-> IF SetOnEntry(f) THEN 0 ELSE smmRegs[f]]
      BY <1>3, <2>2 DEF Inject
    <3>2. smm'
      BY <3>1 DEF kvm_smm_changed_smm, smm
    <3>3. \A f \in Fields : smmRegs[f] = context
      BY <2>1, <2>2 DEF RsmRestores
    <3>4. DOMAIN smram' = Backed /\ (smbase \in Backed => smram'[smbase] = smmRegs) /\ DOMAIN smmRegs' = Fields
      BY <3>1
    <3>5. QED
      BY <1>a, <2>1, <3>2, <3>3, <3>4 DEF RsmRestores, SavedContext
  <2>3. CASE ~(smi_pending /\ ~smm)
    BY <1>3, <1>b, <2>1, <2>3 DEF Inject
  <2>4. QED
    BY <2>2, <2>3
<1>4. CASE SmmRsm
  <2>1. UNCHANGED <<lm, context, smram>> /\ ~dead /\ smm
    BY <1>4 DEF SmmRsm
  <2>2. CASE smbase \in Backed
    <3>1. /\ smmRegs' = [f \in Fields |-> IF f \in ReadBack THEN smram[smbase][f] ELSE 0]
          /\ kvm_smm_changed_smm(FALSE)
      BY <1>4, <2>2 DEF SmmRsm
    <3>2. ~smm'
      BY <3>1 DEF kvm_smm_changed_smm, smm
    <3>3. Fields \subseteq ReadBack
      BY AllReadBack DEF Fields, ReadBack
    <3>4. \A f \in Fields : smmRegs'[f] = context
      BY <2>1, <2>2, <3>1, <3>3 DEF SavedContext
    <3>5. DOMAIN smmRegs' = Fields
      BY <3>1
    <3>6. QED
      BY <1>a, <2>1, <3>2, <3>4, <3>5 DEF RsmRestores, SavedContext
  <2>3. CASE smbase \notin Backed
    <3>1. dead' = TRUE /\ UNCHANGED <<smmRegs, smbase, hflags>>
      BY <1>4, <2>3 DEF SmmRsm
    <3>2. dead'
      BY <3>1, Zenon
    <3>3. QED
      BY <1>a, <2>1, <2>3, <3>1, <3>2 DEF RsmRestores, SavedContext, smm
  <2>4. QED
    BY <2>2, <2>3
<1>5. QED
  BY <1>1, <1>2, <1>3, <1>4 DEF SmmNext

-----------------------------------------------------------------------------
(***************************************************************************)
(* A behaviour runs one part; the invariants of the others are about       *)
(* variables it leaves alone.                                              *)
(***************************************************************************)
DeliveryInv ==
    /\ VcpuOK(v) /\ MceInv /\ SmmInv
    /\ part = "debug" => DebugInv
    /\ part = "memory" => MemInv
    /\ part = "locked" => LockInv
    /\ part = "segments" => SegInv
    /\ part = "emulate" => EmulInv

LEMMA DeliveryInitInv == DeliveryInit => DeliveryInv
<1> SUFFICES ASSUME DeliveryInit PROVE DeliveryInv
  OBVIOUS
<1>1. VcpuOK(v) /\ MceInv /\ SmmInv
  BY EventInitInv, MceInitInv, SmmInitInv DEF DeliveryInit
<1>2. part = "debug" => DebugInv
  BY DebugInitInv DEF DeliveryInit
<1>3. part = "memory" => MemInv
  BY MemInitInv DEF DeliveryInit
<1>4. part = "locked" => LockInv
  BY LockInitInv DEF DeliveryInit
<1>5. part = "segments" => SegInv
  BY SegInitInv DEF DeliveryInit
<1>6. part = "emulate" => EmulInv
  BY EmulInitInv DEF DeliveryInit
<1>7. QED
  BY <1>1, <1>2, <1>3, <1>4, <1>5, <1>6 DEF DeliveryInv

LEMMA EventStays == ASSUME VcpuOK(v), UNCHANGED eventVars PROVE VcpuOK(v)'
  BY DEF VcpuOK, eventVars
LEMMA MceStays == ASSUME MceInv, UNCHANGED mceVars PROVE MceInv'
  BY DEF MceInv, mceVars, RecordIsOneError, HandlerReadsOneError
LEMMA SmmStays == ASSUME SmmInv, UNCHANGED smmVars PROVE SmmInv'
  BY DEF SmmInv, smmVars, Fields, RsmRestores, SavedContext, smm
LEMMA DebugStays == ASSUME DebugInv, UNCHANGED debugVars PROVE DebugInv'
  BY DEF DebugInv, debugVars, LoadedRegisters, TraceFlagIsTheGuests
LEMMA MemStays == ASSUME MemInv, UNCHANGED memVars PROVE MemInv'
  BY DEF MemInv, memVars, TranslationIsTlbLike, RightPlace
LEMMA LockStays == ASSUME LockInv, UNCHANGED memVars PROVE LockInv'
  BY DEF LockInv, memVars, Locked!NoIncrementLost
LEMMA SegStays == ASSUME SegInv, UNCHANGED segVars PROVE SegInv'
  BY DEF SegInv, segVars, FaultRestores, Regs
LEMMA EmulStays == ASSUME EmulInv, UNCHANGED emulVars PROVE EmulInv'
  BY DEF EmulInv, emulVars, UserCannotStop, StiOnce, NothingStale

LEMMA DeliveryNextInv ==
    ASSUME DeliveryInv, [DeliveryNext]_deliveryVars
    PROVE  DeliveryInv'
<1>1. UNCHANGED part
  BY DEF DeliveryNext, deliveryVars
<1>2. VcpuOK(v)'
  <2>1. (part = "events" /\ EventNext) \/ UNCHANGED eventVars
    BY DEF DeliveryNext, deliveryVars
  <2>2. QED
    BY <2>1, EventNextInv, EventStays DEF DeliveryInv
<1>3. MceInv'
  <2>1. MceNext \/ UNCHANGED mceVars
    BY DEF DeliveryNext, deliveryVars
  <2>2. QED
    BY <2>1, MceNextInv, MceStays DEF DeliveryInv
<1>4. SmmInv'
  <2>1. SmmNext \/ UNCHANGED smmVars
    BY DEF DeliveryNext, deliveryVars
  <2>2. QED
    BY <2>1, SmmNextInv, SmmStays DEF DeliveryInv
<1>5. part = "debug" => DebugInv'
  <2>1. part = "debug" => DebugNext \/ UNCHANGED debugVars
    BY DEF DeliveryNext, deliveryVars
  <2>2. QED
    BY <2>1, DebugNextInv, DebugStays DEF DeliveryInv
<1>6. part = "memory" => MemInv'
  <2>1. part = "memory" => MemNext \/ UNCHANGED memVars
    BY DEF DeliveryNext, deliveryVars
  <2>2. QED
    BY <2>1, MemNextInv, MemStays DEF DeliveryInv
<1>7. part = "locked" => LockInv'
  <2>1. part = "locked" => Locked!MemNext \/ UNCHANGED memVars
    BY DEF DeliveryNext, deliveryVars
  <2>2. QED
    BY <2>1, LockNextInv, LockStays DEF DeliveryInv
<1>8. part = "segments" => SegInv'
  <2>1. part = "segments" => SegNext \/ UNCHANGED segVars
    BY DEF DeliveryNext, deliveryVars
  <2>2. QED
    BY <2>1, SegNextInv, SegStays DEF DeliveryInv
<1>9. part = "emulate" => EmulInv'
  <2>1. part = "emulate" => EmulNext \/ UNCHANGED emulVars
    BY DEF DeliveryNext, deliveryVars
  <2>2. QED
    BY <2>1, EmulNextInv, EmulStays DEF DeliveryInv
<1>10. QED
  BY <1>1, <1>2, <1>3, <1>4, <1>5, <1>6, <1>7, <1>8, <1>9 DEF DeliveryInv

LEMMA DeliveryInvKeeps == DeliveryInv => ContextKept
<1> SUFFICES ASSUME DeliveryInv PROVE ContextKept
  OBVIOUS
<1>1. RestoreKeepsEvents
  BY RestoreKeeps DEF DeliveryInv
<1>2. RsmRestores /\ SavedContext /\ RecordIsOneError /\ HandlerReadsOneError
  BY DEF DeliveryInv, SmmInv, MceInv
<1>3. /\ part = "debug" => LoadedRegisters /\ TraceFlagIsTheGuests
      /\ part = "memory" => TranslationIsTlbLike /\ RightPlace
      /\ part = "locked" => Locked!NoIncrementLost
      /\ part = "segments" => FaultRestores
  BY DEF DeliveryInv, DebugInv, MemInv, LockInv, SegInv
<1>4. part = "emulate" => RegisterIsKept /\ UserCannotStop /\ StiOnce /\ NothingStale
  BY DEF DeliveryInv, EmulInv, RegisterIsKept
<1>5. QED
  BY <1>1, <1>2, <1>3, <1>4 DEF ContextKept

\* What the guest had is kept, on every instance: a restore loses no event,
\* RSM restores every register (no two stores of the save area meet), the
\* handler of a machine check reads one error, the processor is loaded with
\* the debugger's or the guest's breakpoints and no stray trace flag, emulated
\* accesses use translations a TLB could hold, locked increments count, a
\* faulting instruction restores its segments, and no register is read stale.
THEOREM ContextAlwaysKept == DeliverySpec => []ContextKept
<1>1. DeliverySpec => []DeliveryInv
  BY DeliveryInitInv, DeliveryNextInv, PTL DEF DeliverySpec
<1>2. QED
  BY <1>1, DeliveryInvKeeps, PTL

-----------------------------------------------------------------------------
(***************************************************************************)
(* What a step may not do.  RSM finds in hflags whether NMIs were masked;  *)
(* an uncorrected error is in a bank the handler has not passed, so that   *)
(* MCG_STATUS_MCIP is set until it is cleared.                             *)
(***************************************************************************)
MaskInv ==
    /\ nmi_mask \in BOOLEAN /\ mask_before \in BOOLEAN
    /\ ~smm => hflags = {}
    /\ smm => mask_before = ("INSIDE_NMI" \in hflags)

LEMMA MaskInitInv == SmmInit => MaskInv
<1> SUFFICES ASSUME SmmInit PROVE MaskInv
  OBVIOUS
<1>1. nmi_mask \in BOOLEAN /\ mask_before \in BOOLEAN
  BY Zenon DEF SmmInit
<1>2. hflags = {} /\ ~smm
  BY DEF SmmInit, smm
<1>3. QED
  BY <1>1, <1>2 DEF MaskInv

LEMMA MaskNextInv ==
    ASSUME MaskInv, SmmNext
    PROVE  MaskInv' /\ (smm /\ ~smm' => nmi_mask' = mask_before)
<1> USE DEF MaskInv
<1>1. CASE Smi \/ process_smi_smm
  BY <1>1 DEF Smi, process_smi_smm, smm
<1>2. CASE SmmGuestRuns
  BY <1>2 DEF SmmGuestRuns, smm
<1>3. CASE Inject
  <2>1. CASE smi_pending /\ ~smm
    <3>1. hflags' = {} \cup {"SMM"} \cup (IF nmi_mask THEN {"INSIDE_NMI"} ELSE {})
      BY <1>3, <2>1 DEF Inject, kvm_smm_changed_smm
    <3>2. mask_before' = nmi_mask
      BY <1>3, <2>1 DEF Inject
    <3>3. nmi_mask' \in BOOLEAN
      BY <1>3, <2>1, Zenon DEF Inject
    <3>4. smm' /\ ("INSIDE_NMI" \in hflags') = nmi_mask
      BY <3>1 DEF smm
    <3>5. QED
      BY <2>1, <3>2, <3>3, <3>4
  <2>2. CASE ~(smi_pending /\ ~smm)
    BY <1>3, <2>2 DEF Inject, smm
  <2>3. QED
    BY <2>1, <2>2
<1>4. CASE SmmRsm
  <2>1. CASE smbase \in Backed
    <3>1. hflags' = {} /\ nmi_mask' = ("INSIDE_NMI" \in hflags) /\ mask_before' = mask_before /\ smm
      BY <1>4, <2>1 DEF SmmRsm, kvm_smm_changed_smm, NmiAfter
    <3>2. ~smm' /\ nmi_mask' \in BOOLEAN
      BY <3>1 DEF smm
    <3>3. QED
      BY <3>1, <3>2
  <2>2. CASE smbase \notin Backed
    BY <1>4, <2>2 DEF SmmRsm, smm
  <2>3. QED
    BY <2>1, <2>2
<1>5. QED
  BY <1>1, <1>2, <1>3, <1>4 DEF SmmNext

LEMMA MaskStays == ASSUME MaskInv, UNCHANGED smmVars PROVE MaskInv'
  BY DEF MaskInv, smmVars, smm

\* The banks the handler still has before it, while it runs.
Ahead(b) == handler.step \in {"status", "addr", "misc", "clear"} /\ handler.bank <= b
ScanInv ==
    /\ MceInv
    /\ injected = 0 => \A b \in Bank : ~status[b].uc
    /\ \A b \in Bank : status[b].uc => mcip /\ b < bank_num /\ (mc \/ Ahead(b))

LEMMA ScanInitInv == MceInit => ScanInv
<1>1. MceInit => \A b \in Bank : ~status[b].uc
  BY MceShapes DEF MceInit
<1>2. QED
  BY <1>1, MceInitInv DEF ScanInv

LEMMA ScanNextInv ==
    ASSUME ScanInv, MceNext
    PROVE  /\ ScanInv'
           /\ \A b \in Bank : status[b].uc => status'[b].err \in {status[b].err, 0}
<1> DEFINE Stay == \A b \in Bank : status[b].uc => status'[b].err \in {status[b].err, 0}
<1>i. MceInv /\ MceInv'
  BY MceNextInv DEF ScanInv
<1>t. /\ status \in [Bank -> Statuses] /\ handler \in Handlers /\ bank_num \in Nat /\ injected \in Nat
      /\ handler.bank \in Bank /\ (handler.step # "idle" \/ mc => mcip) /\ mcip \in BOOLEAN /\ mc \in BOOLEAN
  BY <1>i, MceAssumption DEF MceInv, Handlers
<1>n. NoStatus.err = 0 /\ ~NoStatus.uc /\ Bank \subseteq Nat
  BY MceAssumption DEF NoStatus, Bank
<1>a. ASSUME UNCHANGED <<status, handler, bank_num, injected, mcip, mc>> PROVE ScanInv' /\ Stay
  BY <1>a, <1>i DEF ScanInv, Ahead
<1> USE DEF ScanInv
\* a bank that is cleared holds no error; the others hold theirs
<1>c. ASSUME NEW b \in Bank, status' = [status EXCEPT ![b] = NoStatus]
      PROVE  Stay /\ \A c \in Bank : status'[c].uc => status[c].uc /\ c # b
  BY <1>c, <1>t, <1>n
<1>1. ASSUME NEW n \in 1..KVM_MAX_MCE_BANKS, NEW p \in BOOLEAN, kvm_vcpu_ioctl_x86_setup_mce(n, p) PROVE ScanInv' /\ Stay
  <2>1. injected = 0 /\ UNCHANGED <<status, injected>>
    BY <1>1 DEF kvm_vcpu_ioctl_x86_setup_mce
  <2>2. \A b \in Bank : ~status[b].uc
    BY <2>1
  <2>3. QED
    BY <1>i, <2>1, <2>2
<1>2. ASSUME NEW b \in Bank, NEW uc \in BOOLEAN, kvm_vcpu_ioctl_x86_set_mce(b, uc) PROVE ScanInv' /\ Stay
  <2> DEFINE e == injected'
  <2>1. e \in Nat \ {0} /\ UNCHANGED <<bank_num, handler>> /\ b < bank_num /\ (IF uc THEN Uncorrected(b, e) ELSE Corrected(b, e))
    BY <1>2, <1>t DEF kvm_vcpu_ioctl_x86_set_mce
  <2> HIDE DEF e
  <2>0. injected' # 0
    BY <2>1 DEF e
  <2>2. CASE UNCHANGED <<mcip, status, mc>>
    BY <1>i, <2>0, <2>1, <2>2 DEF Ahead
  <2>3. CASE Record(b, e, TRUE) /\ mcip' = TRUE /\ mc' = TRUE /\ ~mcip
    <3>1. \A c \in Bank : ~status[c].uc
      BY <2>3
    <3>2. mcip' /\ mc'
      BY <2>3, Zenon
    <3>3. \A c \in Bank : status'[c].uc => c = b
      BY <1>t, <2>3, <3>1 DEF Record
    <3>4. QED
      BY <1>i, <2>0, <2>1, <3>1, <3>2, <3>3
  <2>4. CASE Record(b, e, FALSE) /\ ~status[b].uc /\ UNCHANGED <<mcip, mc>>
    <3> DEFINE x == [val |-> TRUE, uc |-> FALSE, over |-> status[b].val, err |-> e]
    <3>1. status' = [status EXCEPT ![b] = x] /\ ~x.uc
      BY <2>4 DEF Record
    <3> HIDE DEF x
    <3>2. \A c \in Bank : status'[c].uc => status[c].uc
      BY <1>t, <3>1
    <3>3. Stay
      BY <1>t, <2>4, <3>1
    <3>4. QED
      BY <1>i, <2>0, <2>1, <2>4, <3>2, <3>3 DEF Ahead
  <2>5. CASE status' = [status EXCEPT ![b].over = TRUE] /\ UNCHANGED <<mcip, mc>>
    <3> DEFINE x == [status[b] EXCEPT !.over = TRUE]
    <3>1. x.uc = status[b].uc /\ x.err = status[b].err
      BY <1>t DEF Statuses
    <3>2. status' = [status EXCEPT ![b] = x]
      BY <2>5
    <3> HIDE DEF x
    <3>3. \A c \in Bank : status'[c].uc = status[c].uc /\ status'[c].err = status[c].err
      BY <1>t, <3>1, <3>2
    <3>4. QED
      BY <1>i, <2>0, <2>1, <2>5, <3>3 DEF Ahead
  <2>6. \A c \in Bank : status[c].uc => status[c].val
    BY <1>i DEF MceInv
  <2>7. QED
    BY <2>1, <2>2, <2>3, <2>4, <2>5, <2>6 DEF Uncorrected, Corrected, Ignore
<1>3. CASE Shutdown
  <2>1. \A b \in Bank : status'[b] = NoStatus
    BY <1>3 DEF Shutdown
  <2>2. QED
    BY <1>i, <1>n, <2>1
<1>4. CASE \/ SetCr4 \/ (\E w \in BOOLEAN : SetMcgCtl(w)) \/ (\E b \in Bank, w \in BOOLEAN : SetMciCtl(b, w))
  BY <1>4, <1>a DEF SetCr4, SetMcgCtl, SetMciCtl, banks
<1>5. CASE MceDeliver
  <2>1. handler'.step = "status" /\ handler'.bank = 0
    BY <1>5 DEF MceDeliver, Idle
  <2>2. UNCHANGED <<status, bank_num, injected, mcip>>
    BY <1>5 DEF MceDeliver, banks
  <2>3. \A b \in Bank : Ahead(b)'
    BY <1>n, <2>1 DEF Ahead
  <2>4. QED
    BY <1>i, <2>2, <2>3
<1>d. ASSUME NEW h \in Handlers, handler' = AfterBank(h), bank_num' = bank_num
      PROVE  \A b \in Bank : h.bank < b /\ b < bank_num => Ahead(b)'
  <2>0. h.bank \in Nat
    BY <1>n, <1>d DEF Handlers
  <2>1. CASE h.bank + 1 < bank_num
    <3>1. handler'.step = "status" /\ handler'.bank = h.bank + 1
      BY <1>d, <2>1 DEF AfterBank, Idle
    <3>2. QED
      BY <1>n, <2>0, <3>1 DEF Ahead
  <2>2. CASE ~(h.bank + 1 < bank_num)
    BY <1>n, <1>t, <2>0, <2>2
  <2>3. QED
    BY <2>1, <2>2
<1>6. CASE ReadStatus
  <2>1. UNCHANGED <<status, bank_num, injected, mcip, mc>> /\ handler.step = "status" /\ ~mc
    BY <1>6 DEF ReadStatus, HandlerSame, Handler
  <2>2. CASE status[handler.bank].val
    <3>1. handler' = [handler EXCEPT !.step = "addr", !.err = status[handler.bank].err]
      BY <1>6, <2>2 DEF ReadStatus
    <3>2. handler'.step = "addr" /\ handler'.bank = handler.bank
      BY <1>t, <3>1 DEF Handlers
    <3>3. QED
      BY <1>i, <2>1, <3>2 DEF Ahead
  <2>3. CASE ~status[handler.bank].val
    <3>1. handler' = AfterBank(handler)
      BY <1>6, <2>3 DEF ReadStatus
    <3>2. \A b \in Bank : status[b].uc => b # handler.bank /\ b < bank_num /\ handler.bank <= b
      BY <1>i, <2>1, <2>3 DEF Ahead, MceInv
    <3>3. ASSUME NEW b \in Bank, status[b].uc PROVE Ahead(b)'
      <4>1. b \in Nat /\ handler.bank \in Nat
        BY <1>n, <1>t
      <4>2. b # handler.bank /\ b < bank_num /\ handler.bank <= b
        BY <3>2, <3>3
      <4>3. handler.bank < b
        BY <4>1, <4>2
      <4>4. QED
        BY <1>d, <1>t, <2>1, <3>1, <4>2, <4>3
    <3>4. QED
      BY <1>i, <2>1, <3>3
  <2>4. QED
    BY <2>2, <2>3
<1>7. CASE ReadAddr \/ ReadMisc
  <2>1. UNCHANGED <<status, bank_num, injected, mcip, mc>> /\ handler.step \in {"addr", "misc"}
    BY <1>7 DEF ReadAddr, ReadMisc, HandlerSame, Handler
  <2>2. handler'.step \in {"misc", "clear"} /\ handler'.bank = handler.bank
    BY <1>7, <1>t DEF ReadAddr, ReadMisc, Handlers
  <2>3. QED
    BY <1>i, <2>1, <2>2 DEF Ahead
<1>8. CASE ClearStatus
  <2>1. /\ UNCHANGED <<bank_num, injected, mcip, mc>> /\ handler.step = "clear" /\ ~mc
        /\ handler' = AfterBank(handler) /\ status' = [status EXCEPT ![handler.bank] = NoStatus]
    BY <1>8 DEF ClearStatus, HandlerSame, Handler
  <2>2. Stay /\ \A b \in Bank : status'[b].uc => status[b].uc /\ b # handler.bank
    BY <1>c, <1>t, <2>1
  <2>3. \A b \in Bank : status'[b].uc => handler.bank < b /\ b < bank_num
    <3> SUFFICES ASSUME NEW b \in Bank, status'[b].uc PROVE handler.bank < b /\ b < bank_num
      OBVIOUS
    <3>1. b \in Nat /\ handler.bank \in Nat
      BY <1>n, <1>t
    <3>2. b # handler.bank /\ b < bank_num /\ handler.bank <= b
      BY <2>1, <2>2 DEF Ahead
    <3>3. QED
      BY <3>1, <3>2
  <2>4. \A b \in Bank : status'[b].uc => Ahead(b)'
    BY <1>d, <1>t, <2>1, <2>3
  <2>5. QED
    BY <1>i, <2>1, <2>2, <2>4
<1>9. CASE ClearMcip
  <2>1. UNCHANGED <<status, bank_num, injected>> /\ handler.step = "done" /\ ~mc
    BY <1>9 DEF ClearMcip, HandlerSame, Handler
  <2>2. \A b \in Bank : ~status[b].uc
    BY <2>1 DEF Ahead
  <2>3. QED
    BY <1>i, <2>1, <2>2
<1>10. ASSUME NEW b \in Bank, Poll(b) PROVE ScanInv' /\ Stay
  <2>1. UNCHANGED <<bank_num, injected, mc, mcip, handler>> /\ status' = [status EXCEPT ![b] = NoStatus]
    BY <1>10 DEF Poll, HandlerSame
  <2>2. QED
    BY <1>i, <1>c, <2>1 DEF Ahead
<1>11. QED
  BY <1>1, <1>2, <1>3, <1>4, <1>5, <1>6, <1>7, <1>8, <1>9, <1>10 DEF MceNext, MceUser, MceGuest

LEMMA ScanStays == ASSUME ScanInv, UNCHANGED mceVars PROVE ScanInv'
  BY MceStays DEF ScanInv, mceVars, Ahead

\* A token is written only into an empty slot.
LEMMA TokenStep == ASSUME ApfNext, token # None PROVE token' \in {token, None}
<1>1. CASE AnswerReady
  <2>1. CanHandOver /\ Tokens(Head(done)) => token = None
    BY DEF CanHandOver, Tokens, kvm_arch_can_dequeue_async_page_present, apf_pageready_slot_free
  <2>2. token' = token
    BY <1>1, <2>1 DEF AnswerReady, kvm_arch_async_page_present
  <2>3. QED
    BY <2>2
<1>2. CASE TakeToken
  BY <1>2 DEF TakeToken
<1>3. CASE \/ \E g \in Gfns : FaultAgain(g) \/ kvm_arch_async_page_not_present(g) \/ WorkDone(g)
           \/ kvm_arch_async_page_present_queued \/ ApfExitGuest \/ ApfEnterGuest \/ Ack \/ Disable \/ Enable
  BY <1>3 DEF FaultAgain, kvm_arch_async_page_not_present, WorkDone, kvm_arch_async_page_present_queued, ApfExitGuest,
              ApfEnterGuest, Ack, Disable, Enable
<1>4. QED
  BY <1>1, <1>2, <1>3 DEF ApfNext

\* On every instance: RSM leaves NMIs masked exactly when they were before the
\* interrupt, an uncorrected machine check leaves its bank only when the guest
\* clears it or the machine is reset, and no token of an asynchronous page
\* fault is written over another.
THEOREM DeliveryStepsKeep == DeliverySpec => MaskRestored /\ UncorrectedStays /\ TokensNotOverwritten
<1>1. DeliveryInit => MaskInv /\ ScanInv
  BY MaskInitInv, ScanInitInv DEF DeliveryInit
<1>2. ASSUME MaskInv, ScanInv, [DeliveryNext]_deliveryVars
      PROVE  /\ MaskInv' /\ ScanInv'
             /\ [smm /\ ~smm' => nmi_mask' = mask_before]_smmVars
             /\ [\A b \in Bank : status[b].uc => status'[b].err \in {status[b].err, 0}]_mceVars
             /\ [token # None => token' \in {token, None}]_apfVars
  <2>1. /\ SmmNext \/ UNCHANGED smmVars
        /\ MceNext \/ UNCHANGED mceVars
        /\ ApfNext \/ UNCHANGED apfVars
    BY <1>2 DEF DeliveryNext, deliveryVars
  <2>2. MaskInv' /\ [smm /\ ~smm' => nmi_mask' = mask_before]_smmVars
    BY <1>2, <2>1, MaskNextInv, MaskStays
  <2>3. ScanInv' /\ [\A b \in Bank : status[b].uc => status'[b].err \in {status[b].err, 0}]_mceVars
    BY <1>2, <2>1, ScanNextInv, ScanStays
  <2>4. [token # None => token' \in {token, None}]_apfVars
    BY <2>1, TokenStep
  <2>5. QED
    BY <2>2, <2>3, <2>4
<1>3. QED
  BY <1>1, <1>2, PTL DEF DeliverySpec, MaskRestored, UncorrectedStays, TokensNotOverwritten
=============================================================================
