------------------------- MODULE KvmExecutionProofs -------------------------
(***************************************************************************)
(* Proofs about a virtual CPU that runs: the loop of vcpu_run with its     *)
(* requests, the MSRs restored on the way to user mode, FPU state with     *)
(* protection keys, and WBINVD; and about what leaves the guest and comes  *)
(* back: hypercalls, control registers, kept roots, memory slots, port I/O *)
(* and MMIO.  Each half ends, part by part, with the specification that is *)
(* model-checked.                                                          *)
(***************************************************************************)
EXTENDS MCKvmExecution, FiniteSetTheorems, SequenceTheorems, WellFoundedInduction, TLAPS

-----------------------------------------------------------------------------
(* The run loop.                                                           *)

RunPcs == {"user", "uninit", "top", "tail", "block", "blocked", "unblocked", "requests",
           "apicv", "prepare", "check", "guest", "exit"}

RunTypes ==
    /\ runPc \in RunPcs
    /\ pos \in 1..18 /\ (runPc = "apicv" => pos < 18)
    /\ runMode \in {"OUTSIDE", "IN_GUEST", "EXITING"}
    /\ requests \subseteq Used
    /\ ipi \in BOOLEAN
    /\ mp_state_run \in {"RUNNABLE", "UNINITIALIZED", "HALTED", "INIT_RECEIVED"}
    /\ runCur \in [Resources -> Nat]
    /\ runSeen \in [Resources -> Nat]
    /\ "routes" \in Resources => scanned \in Nat
    /\ hyperv \in BOOLEAN
    /\ runLock \in {"none", "host"}

\* The changing thread, and the lock it holds while it changes APICv.
ChangerTypes ==
    /\ hpc = <<hpc[1], hpc[2]>>
    /\ hpc[1] \in {"idle", "request", "kick", "wait"}
    /\ hpc[1] # "idle" => hpc[2] \in Resources
    /\ hpc[1] # "idle" /\ hpc[2] = "apicv" => runLock = "host"
    /\ hpc[1] \in {"kick", "wait"} /\ hpc[2] = "apicv" =>
          "APICV_UPDATE" \in requests \/ runPc = "apicv"

\* srcu is held everywhere but in the guest, asleep and in user space.
SrcuHeld ==
    srcu = IF runPc \in {"user", "uninit", "blocked", "check", "guest", "exit"} THEN 0 ELSE 1

\* vcpu->mode announces the guest before the requests are looked at for the
\* last time, and is EXITING in the guest only with an interrupt on its way.
ModeSet ==
    /\ runPc \in {"check", "guest", "exit"} => runMode # "OUTSIDE"
    /\ runPc = "guest" /\ runMode = "EXITING" => ipi = TRUE
    /\ runPc = "guest" /\ requests # {} => ipi = TRUE \/ hpc[1] = "kick"

\* A version the virtual CPU has not seen has a request that says so.
Pending(x) == hpc[1] = "request" /\ hpc[2] = x
Fresh ==
    /\ "tlb" \in Resources =>
          runSeen["tlb"] = runCur["tlb"] \/ "TLB_FLUSH" \in requests \/ Pending("tlb")
    /\ "apicpage" \in Resources =>
          runSeen["apicpage"] = runCur["apicpage"] \/ "APIC_PAGE_RELOAD" \in requests \/ Pending("apicpage")
    /\ "apicv" \in Resources =>
          runSeen["apicv"] = runCur["apicv"] \/ "APICV_UPDATE" \in requests \/ runPc = "apicv"
    /\ "routes" \in Resources =>
          /\ scanned = runCur["routes"] \/ "SCAN_IOAPIC" \in requests \/ Pending("routes")
          /\ hyperv = TRUE => runSeen["routes"] = scanned \/ "LOAD_EOI_EXITMAP" \in requests

(* The virtual CPU has seen all there is to see. *)
Current ==
    /\ \A x \in Resources \ {"routes"} : runSeen[x] = runCur[x]
    /\ "routes" \in Resources =>
         scanned = runCur["routes"] /\ (hyperv => runSeen["routes"] = runCur["routes"])

RunInv ==
    /\ RunTypes /\ ChangerTypes /\ SrcuHeld /\ ModeSet /\ Fresh /\ GuestRunsOnCurrent

MpStates == {"RUNNABLE", "UNINITIALIZED", "HALTED", "INIT_RECEIVED"}
SrcuAt(l) == IF l \in {"user", "uninit", "blocked", "check", "guest", "exit"} THEN 0 ELSE 1

\* The places from which the guest can be entered without looking at the
\* requests again, and the one where APICv's request has been taken.
Inner == {"check", "guest", "exit", "apicv"}

LEMMA OrderFacts ==
    /\ Len(Order) = 18
    /\ \A k \in 1..18 : Order[k] = "APICV_UPDATE" => k < 18
    /\ \A k \in 1..18 : Order[k] \notin {"APICV_UPDATE", "EVENT"} => k < 18
<1>1. Len(Order) = 18
  BY DEF Order
<1>2. Order[18] = "EVENT"
  BY DEF Order
<1>3. \A k \in 1..18 : k < 18 \/ k = 18
  OBVIOUS
<1>4. QED
  BY <1>1, <1>2, <1>3

\* A step of the virtual CPU's thread outside Inner that leaves the requests
\* and the versions alone.
LEMMA Quiet ==
    ASSUME RunInv, runPc \notin Inner, runPc' \in RunPcs \ Inner,
           UNCHANGED <<runMode, requests, ipi, runCur, runSeen, scanned, hyperv, runLock, hpc>>,
           pos' \in 1..18, mp_state_run' \in MpStates, srcu' = SrcuAt(runPc')
    PROVE  RunInv'
<1>1. RunTypes' /\ ChangerTypes'
  BY DEF RunInv, RunTypes, ChangerTypes, Inner, MpStates
<1>2. SrcuHeld' /\ ModeSet' /\ GuestRunsOnCurrent'
  BY DEF RunInv, SrcuHeld, SrcuAt, ModeSet, GuestRunsOnCurrent, Inner
<1>3. Fresh'
  BY DEF RunInv, Fresh, Pending, Inner
<1>4. QED
  BY <1>1, <1>2, <1>3 DEF RunInv

\* The events a processor accepts leave it in one of its states.
LEMMA AcceptedState == RunTypes => Accepted \in MpStates /\ Woken(Accepted) \in MpStates
  BY DEF RunTypes, Accepted, AfterInit, Woken, MpStates

LEMMA QuietSteps ==
    ASSUME RunInv, WaitUninitialized \/ LoopTop \/ LoopTail \/ vcpu_block_run \/ Unblock \/ Unblocked
                   \/ MmuReloadFails
    PROVE  RunInv'
<1>1. RunTypes /\ SrcuHeld
  BY DEF RunInv
<1>2. UNCHANGED <<runMode, requests, ipi, runCur, runSeen, scanned, hyperv, runLock, hpc>>
  BY DEF WaitUninitialized, LoopTop, LoopTail, vcpu_block_run, Unblock, Unblocked, MmuReloadFails
<1>3. runPc \notin Inner /\ runPc' \in RunPcs \ Inner
  BY DEF WaitUninitialized, LoopTop, LoopTail, vcpu_block_run, Unblock, Unblocked, MmuReloadFails,
         HandleWork, RunLeave, Inner, RunPcs
<1>4. pos' \in 1..18
  BY <1>1 DEF RunTypes, WaitUninitialized, LoopTop, LoopTail, vcpu_block_run, Unblock, Unblocked, MmuReloadFails
<1>5. mp_state_run' \in MpStates
  BY <1>1, AcceptedState DEF RunTypes, MpStates, WaitUninitialized, LoopTop, LoopTail, vcpu_block_run, Unblock,
     Unblocked, MmuReloadFails, guestvars
<1>6. srcu' = SrcuAt(runPc')
  BY <1>1 DEF SrcuHeld, SrcuAt, WaitUninitialized, LoopTop, LoopTail, vcpu_block_run, BlockedSrcu, Unblock,
     Unblocked, MmuReloadFails, HandleWork, RunLeave
<1>7. QED
  BY <1>2, <1>3, <1>4, <1>5, <1>6, Quiet

\* The versions and their requests as the requests are answered one by one.
LEMMA AnswerFresh ==
    ASSUME RunInv, NEW q, Answer(q), UNCHANGED <<runCur, hpc, hyperv>>,
           runPc = "requests", q \notin {"APICV_UPDATE", "EVENT"}
    PROVE  /\ Fresh' /\ runSeen' \in [Resources -> Nat] /\ ("routes" \in Resources => scanned' \in Nat)
           /\ requests' \subseteq Used /\ ("APICV_UPDATE" \in requests => "APICV_UPDATE" \in requests')
<1> USE DEF RunInv, RunTypes, Fresh, Pending, Handled, Refresh
<1>1. CASE AnswerPlain(q) \/ AnswerApfHalt(q) \/ AnswerBugged(q) \/ AnswerExit(q)
  <2>1. requests' = requests \ {q} /\ UNCHANGED <<runSeen, scanned, hyperv>>
    BY <1>1 DEF AnswerPlain, AnswerApfHalt, AnswerBugged, AnswerExit, ExitRequests
  <2>2. q \notin {"TLB_FLUSH", "APIC_PAGE_RELOAD", "APICV_UPDATE", "SCAN_IOAPIC", "LOAD_EOI_EXITMAP"}
    BY <1>1 DEF AnswerPlain, AnswerApfHalt, AnswerBugged, AnswerExit, Reason
  <2>3. QED
    BY <2>1, <2>2
<1>2. CASE AnswerFlush(q)
  BY <1>2 DEF AnswerFlush
<1>3. CASE AnswerPage(q)
  BY <1>3 DEF AnswerPage
<1>4. CASE AnswerScan(q)
  BY <1>4 DEF AnswerScan, Used
<1>5. CASE AnswerMap(q)
  <2>1. q = "LOAD_EOI_EXITMAP" /\ requests' = requests \ {q} /\ scanned' = scanned
    BY <1>5 DEF AnswerMap
  <2>2. PICK v : /\ v \in IF hyperv THEN {scanned} ELSE 0 .. scanned
                 /\ runSeen' = IF "routes" \in Resources THEN [runSeen EXCEPT !["routes"] = v] ELSE runSeen
    BY <1>5 DEF AnswerMap
  <2>3. "routes" \in Resources => v \in Nat /\ (hyperv = TRUE => v = scanned)
    BY <2>2
  <2>a. runSeen \in [Resources -> Nat]
    OBVIOUS
  <2>4. runSeen' \in [Resources -> Nat]
    BY <2>2, <2>3, <2>a, Zenon
  <2>5. \A x \in Resources \ {"routes"} : runSeen'[x] = runSeen[x]
    BY <2>2, <2>a
  <2>6. "routes" \in Resources => (hyperv = TRUE => runSeen'["routes"] = scanned)
    BY <2>2, <2>3, <2>a
  <2>7. Fresh'
    BY <2>1, <2>5, <2>6
  <2>8. QED
    BY <2>1, <2>4, <2>7
<1>6. QED
  BY <1>1, <1>2, <1>3, <1>4, <1>5 DEF Answer

\* Where an answer leads, and what it does to srcu.
LEMMA AnswerMoves ==
    ASSUME NEW q, Answer(q), runPc = "requests"
    PROVE  \/ runPc' = "requests" /\ pos' = pos + 1 /\ srcu' = srcu
           \/ runPc' = "tail" /\ pos' = pos /\ srcu' = srcu
           \/ runPc' = "user" /\ pos' = pos /\ srcu' = srcu - 1
  BY DEF Answer, AnswerPlain, AnswerFlush, AnswerPage, AnswerScan, AnswerMap, AnswerApfHalt, AnswerBugged,
         AnswerExit, Next1, RunLeave

LEMMA RequestStep ==
    ASSUME RunInv, CheckRequest
    PROVE  RunInv'
<1>1. runPc = "requests" /\ Order[pos] \notin {"APICV_UPDATE", "EVENT"}
  BY DEF CheckRequest, AtRequest
<1>2. pos \in 1..18 /\ pos < 18 /\ srcu = 1
  BY <1>1, OrderFacts DEF RunInv, RunTypes, SrcuHeld
<1>3. UNCHANGED <<runMode, ipi, mp_state_run, runCur, hyperv, runLock, hpc>>
  BY DEF CheckRequest, Answer, AnswerPlain, AnswerFlush, AnswerPage, AnswerScan, AnswerMap, AnswerApfHalt,
         AnswerBugged, AnswerExit
<1>4. CASE Order[pos] \in requests
  <2>1. Answer(Order[pos])
    BY <1>4 DEF CheckRequest
  <2> DEFINE q == Order[pos]
  <2>2. q \notin {"APICV_UPDATE", "EVENT"} /\ Answer(q)
    BY <1>1, <2>1
  <2> HIDE DEF q
  <2>3. /\ Fresh' /\ runSeen' \in [Resources -> Nat] /\ ("routes" \in Resources => scanned' \in Nat)
        /\ requests' \subseteq Used /\ ("APICV_UPDATE" \in requests => "APICV_UPDATE" \in requests')
    BY <1>1, <1>3, <2>2, AnswerFresh
  <2>4. /\ runPc' \in {"requests", "tail", "user"} /\ pos' \in 1..18
        /\ srcu' = SrcuAt(runPc')
    BY <1>1, <1>2, <2>2, AnswerMoves DEF SrcuAt
  <2>5. RunTypes' /\ ChangerTypes'
    BY <1>1, <1>3, <2>3, <2>4 DEF RunInv, RunTypes, ChangerTypes, RunPcs
  <2>6. SrcuHeld' /\ ModeSet' /\ GuestRunsOnCurrent'
    BY <2>4 DEF SrcuHeld, SrcuAt, ModeSet, GuestRunsOnCurrent
  <2>7. QED
    BY <2>3, <2>5, <2>6 DEF RunInv
<1>5. CASE Order[pos] \notin requests
  <2>1. pos' = pos + 1 /\ runPc' = runPc /\ UNCHANGED <<requests, srcu, runSeen, scanned, hyperv>>
    BY <1>5 DEF CheckRequest, Next1
  <2>2. runPc \notin Inner /\ runPc' \in RunPcs \ Inner /\ mp_state_run' \in MpStates
    BY <1>1, <1>3, <2>1 DEF RunInv, RunTypes, RunPcs, Inner, MpStates
  <2>3. pos' \in 1..18 /\ srcu' = SrcuAt(runPc')
    BY <1>1, <1>2, <2>1 DEF SrcuAt
  <2>4. QED
    BY <1>3, <2>1, <2>2, <2>3, Quiet
<1>6. QED
  BY <1>4, <1>5

\* KVM_RUN, and the requests that vcpu_enter_guest treats on its own.
LEMMA EntrySteps ==
    ASSUME RunInv, kvm_arch_vcpu_ioctl_run \/ TakeApicvRequest \/ kvm_vcpu_update_apicv \/ InjectEvents
    PROVE  RunInv'
<1>1. CASE kvm_arch_vcpu_ioctl_run
  <2>1. /\ runPc = "user" /\ runPc' \in {"uninit", "top"} /\ srcu' = SrcuAt(runPc')
    BY <1>1 DEF kvm_arch_vcpu_ioctl_run, RunInv, SrcuHeld, SrcuAt
  <2>2. requests \subseteq requests' /\ requests' \subseteq Used
    BY <1>1 DEF kvm_arch_vcpu_ioctl_run, RunInv, RunTypes
  <2>3. UNCHANGED <<pos, runMode, ipi, mp_state_run, runCur, runSeen, scanned, hyperv, runLock, hpc>>
    BY <1>1 DEF kvm_arch_vcpu_ioctl_run
  <2>4. RunTypes' /\ ChangerTypes'
    BY <2>1, <2>2, <2>3 DEF RunInv, RunTypes, ChangerTypes, RunPcs
  <2>5. SrcuHeld' /\ ModeSet' /\ GuestRunsOnCurrent'
    BY <2>1 DEF SrcuHeld, SrcuAt, ModeSet, GuestRunsOnCurrent
  <2>6. Fresh'
    BY <2>1, <2>2, <2>3 DEF RunInv, Fresh, Pending
  <2>7. QED
    BY <2>4, <2>5, <2>6 DEF RunInv
<1>2. CASE TakeApicvRequest
  <2>1. /\ runPc = "requests" /\ pos \in 1..18 /\ pos < 18 /\ srcu = 1
        /\ UNCHANGED <<runMode, ipi, srcu, mp_state_run, runCur, runSeen, scanned, hyperv, runLock, hpc>>
    BY <1>2, OrderFacts DEF TakeApicvRequest, RunInv, RunTypes, SrcuHeld, guestvars
  <2>2. \/ runPc' = "apicv" /\ pos' = pos /\ requests' = requests \ {"APICV_UPDATE"}
        \/ runPc' = "requests" /\ pos' = pos + 1 /\ requests' = requests
    BY <1>2, <2>1 DEF TakeApicvRequest, Handled, Next1
  <2>3. RunTypes' /\ ChangerTypes'
    BY <2>1, <2>2 DEF RunInv, RunTypes, ChangerTypes, RunPcs
  <2>4. SrcuHeld' /\ ModeSet' /\ GuestRunsOnCurrent'
    BY <2>1, <2>2 DEF SrcuHeld, ModeSet, GuestRunsOnCurrent
  <2>5. Fresh'
    BY <2>1, <2>2 DEF RunInv, Fresh, Pending
  <2>6. QED
    BY <2>3, <2>4, <2>5 DEF RunInv
<1>3. CASE kvm_vcpu_update_apicv
  <2>1. /\ runPc = "apicv" /\ runPc' = "requests" /\ runLock = "none" /\ pos' = pos + 1
        /\ pos \in 1..18 /\ pos < 18 /\ srcu = 1
        /\ UNCHANGED <<runMode, ipi, srcu, mp_state_run, runCur, scanned, hyperv, runLock, hpc>>
    BY <1>3 DEF kvm_vcpu_update_apicv, ApicvFree, RunInv, RunTypes, SrcuHeld, guestvars
  <2>2. requests \subseteq requests' /\ requests' \subseteq Used
    BY <1>3 DEF kvm_vcpu_update_apicv, RunInv, RunTypes, Used
  <2>3. runSeen' = [runSeen EXCEPT !["apicv"] = runCur["apicv"]]
    BY <1>3 DEF kvm_vcpu_update_apicv
  <2>s. runSeen' \in [Resources -> Nat]
    BY <2>3 DEF RunInv, RunTypes
  <2>r. RunTypes'
    BY <2>1, <2>2, <2>s DEF RunInv, RunTypes, RunPcs
  <2>4. ChangerTypes'
    BY <2>1, <2>2 DEF RunInv, ChangerTypes
  <2>5. SrcuHeld' /\ ModeSet' /\ GuestRunsOnCurrent'
    BY <2>1 DEF SrcuHeld, ModeSet, GuestRunsOnCurrent
  <2>6. Fresh'
    BY <2>1, <2>2, <2>3 DEF RunInv, RunTypes, Fresh, Pending
  <2>7. QED
    BY <2>r, <2>4, <2>5, <2>6 DEF RunInv
<1>4. CASE InjectEvents
  <2>1. /\ runPc = "requests" /\ runPc' \in {"tail", "prepare"} /\ srcu = 1
        /\ UNCHANGED <<pos, runMode, ipi, srcu, runCur, runSeen, scanned, hyperv, runLock, hpc>>
    BY <1>4 DEF InjectEvents, RunInv, SrcuHeld
  <2>2. requests' \subseteq requests /\ requests \ {"EVENT"} \subseteq requests'
    BY <1>4 DEF InjectEvents, Handled
  <2>3. mp_state_run' \in MpStates
    BY <1>4, AcceptedState DEF InjectEvents, RunInv, RunTypes, MpStates
  <2>4. RunTypes' /\ ChangerTypes'
    BY <2>1, <2>2, <2>3 DEF RunInv, RunTypes, ChangerTypes, RunPcs, MpStates
  <2>5. SrcuHeld' /\ ModeSet' /\ GuestRunsOnCurrent'
    BY <2>1 DEF SrcuHeld, ModeSet, GuestRunsOnCurrent
  <2>6. Fresh'
    BY <2>1, <2>2 DEF RunInv, Fresh, Pending
  <2>7. QED
    BY <2>4, <2>5, <2>6 DEF RunInv
<1>5. QED
  BY <1>1, <1>2, <1>3, <1>4

\* Without a request and with no change under way, nothing is stale.
LEMMA NothingStale ==
    ASSUME RunInv, requests = {}, hpc[1] # "request", runPc # "apicv"
    PROVE  Current
<1>1. \A x \in Resources \ {"routes"} : runSeen[x] = runCur[x]
  BY RunAssumption DEF RunInv, Fresh, Pending
<1>2. "routes" \in Resources =>
        scanned = runCur["routes"] /\ (hyperv = TRUE => runSeen["routes"] = runCur["routes"])
  BY DEF RunInv, Fresh, Pending
<1>3. hyperv => hyperv = TRUE
  BY Zenon DEF RunInv, RunTypes
<1>4. QED
  BY <1>1, <1>2, <1>3, Zenon DEF Current

\* Entering the guest and leaving it.
LEMMA GuestSteps ==
    ASSUME RunInv, PrepareEntry \/ EnterGuest \/ FastReentry \/ ExitGuest \/ HandleExit
    PROVE  RunInv'
<1>1. /\ UNCHANGED <<pos, requests, runCur, runSeen, scanned, hyperv, runLock, hpc>>
      /\ runPc # "apicv" /\ runPc' \in RunPcs \ {"apicv"}
      /\ mp_state_run' \in {mp_state_run, "HALTED"}
  BY DEF PrepareEntry, EnterGuest, FastReentry, ExitGuest, HandleExit, guestvars, RunPcs
<1>2. runMode' \in {"OUTSIDE", "IN_GUEST", runMode} /\ ipi' \in {ipi, FALSE}
  BY DEF PrepareEntry, EnterGuest, FastReentry, ExitGuest, HandleExit
<1>t. ipi' \in BOOLEAN
  BY <1>2, Zenon DEF RunInv, RunTypes
<1>3. RunTypes'
  BY <1>1, <1>2, <1>t DEF RunInv, RunTypes
<1>4. ChangerTypes' /\ Fresh'
  BY <1>1 DEF RunInv, ChangerTypes, Fresh, Pending
<1>5. SrcuHeld'
  BY DEF RunInv, SrcuHeld, PrepareEntry, EnterGuest, FastReentry, ExitGuest, HandleExit
<1>6. ModeSet' /\ GuestRunsOnCurrent'
  <2>1. CASE PrepareEntry \/ ExitGuest \/ HandleExit
    BY <2>1 DEF RunInv, ModeSet, GuestRunsOnCurrent, PrepareEntry, ExitGuest, HandleExit
  <2>2. CASE FastReentry
    BY <1>1, <2>2 DEF RunInv, ModeSet, GuestRunsOnCurrent, FastReentry
  <2>3. CASE EnterGuest /\ kvm_vcpu_exit_request
    BY <2>3 DEF ModeSet, GuestRunsOnCurrent, EnterGuest
  <2>4. CASE EnterGuest /\ ~kvm_vcpu_exit_request
    <3>1. runPc = "check" /\ runPc' = "guest" /\ requests = {} /\ runMode # "EXITING" /\ runMode' = runMode
      BY <2>4 DEF EnterGuest, kvm_vcpu_exit_request
    <3>2. hpc[1] = "idle" => Current
      BY <3>1, NothingStale
    <3>3. GuestRunsOnCurrent'
      BY <1>1, <3>2 DEF Current, GuestRunsOnCurrent
    <3>4. QED
      BY <1>1, <3>1, <3>3 DEF RunInv, ModeSet
  <2>5. QED
    BY <2>1, <2>2, <2>3, <2>4
<1>7. QED
  BY <1>3, <1>4, <1>5, <1>6 DEF RunInv

\* The thread that changes a resource.
LEMMA ChangeBegins ==
    ASSUME RunInv, NEW x \in Resources, BeginChange(x)
    PROVE  RunInv'
<1>1. /\ hpc[1] = "idle" /\ hpc' = <<"request", x>>
      /\ UNCHANGED <<runPc, pos, runMode, requests, ipi, srcu, mp_state_run, runSeen, scanned, hyperv>>
  BY DEF BeginChange, guestvars
<1>2. /\ x = "apicv" => runLock' = "host" /\ runCur' = runCur
      /\ x # "apicv" => runLock' = runLock /\ runCur' = [runCur EXCEPT ![x] = @ + 1]
  BY DEF BeginChange
<1>3. hpc'[1] = "request" /\ hpc'[2] = x /\ hpc' = <<hpc'[1], hpc'[2]>>
  BY <1>1
<1>4. RunTypes'
  BY <1>1, <1>2 DEF RunInv, RunTypes
<1>5. ChangerTypes' /\ SrcuHeld' /\ ModeSet' /\ GuestRunsOnCurrent'
  BY <1>1, <1>2, <1>3 DEF RunInv, ChangerTypes, SrcuHeld, ModeSet, GuestRunsOnCurrent
<1>6. Fresh'
  BY <1>1, <1>2, <1>3 DEF RunInv, RunTypes, Fresh, Pending
<1>7. QED
  BY <1>4, <1>5, <1>6 DEF RunInv

LEMMA ChangeRequested ==
    ASSUME RunInv, kvm_make_request
    PROVE  RunInv'
<1>1. /\ hpc[1] = "request" /\ hpc[2] \in Resources /\ hpc' = <<"kick", hpc[2]>>
      /\ requests' = requests \cup {RequestFor(hpc[2])}
      /\ UNCHANGED <<runPc, pos, runMode, ipi, srcu, mp_state_run, runCur, runSeen, scanned, hyperv, runLock>>
  BY DEF kvm_make_request, guestvars, RunInv, ChangerTypes
<1>2. hpc'[1] = "kick" /\ hpc'[2] = hpc[2] /\ hpc' = <<hpc'[1], hpc'[2]>>
  BY <1>1
<1>3. RunTypes'
  BY <1>1 DEF RunInv, RunTypes, Used
<1>4. ChangerTypes' /\ SrcuHeld' /\ ModeSet' /\ GuestRunsOnCurrent'
  BY <1>1, <1>2 DEF RunInv, ChangerTypes, SrcuHeld, ModeSet, GuestRunsOnCurrent, RequestFor
<1>5. Fresh'
  BY <1>1, <1>2 DEF RunInv, Fresh, Pending, RequestFor
<1>6. QED
  BY <1>3, <1>4, <1>5 DEF RunInv

LEMMA ChangeKicks ==
    ASSUME RunInv, SendIpi
    PROVE  RunInv'
<1>1. /\ hpc[1] = "kick" /\ hpc' = <<"wait", hpc[2]>>
      /\ UNCHANGED <<runPc, pos, requests, srcu, mp_state_run, runCur, runSeen, scanned, hyperv, runLock>>
      /\ runMode' = IF runMode = "IN_GUEST" THEN "EXITING" ELSE runMode
  BY DEF SendIpi, guestvars
<1>2. hpc'[1] = "wait" /\ hpc'[2] = hpc[2] /\ hpc' = <<hpc'[1], hpc'[2]>>
  BY <1>1
<1>3. ipi' \in BOOLEAN /\ (runMode # "OUTSIDE" => ipi' = TRUE)
  BY DEF SendIpi, NeedsIpi
<1>4. RunTypes'
  BY <1>1, <1>3 DEF RunInv, RunTypes
<1>5. ChangerTypes' /\ SrcuHeld' /\ ModeSet' /\ GuestRunsOnCurrent'
  BY <1>1, <1>2, <1>3 DEF RunInv, ChangerTypes, SrcuHeld, ModeSet, GuestRunsOnCurrent
<1>6. Fresh'
  BY <1>1, <1>2 DEF RunInv, Fresh, Pending
<1>7. QED
  BY <1>4, <1>5, <1>6 DEF RunInv

LEMMA ChangeEnds ==
    ASSUME RunInv, EndChange
    PROVE  RunInv'
<1>1. /\ hpc[1] = "wait" /\ hpc' = <<"idle", "tlb">> /\ ipi # TRUE
      /\ UNCHANGED <<runPc, pos, runMode, requests, ipi, srcu, mp_state_run, runSeen, scanned, hyperv>>
      /\ hpc[2] # "apicv" => UNCHANGED <<runCur, runLock>>
      /\ hpc[2] = "apicv" => runCur' = [runCur EXCEPT !["apicv"] = @ + 1] /\ runLock' = "none"
  BY DEF EndChange, guestvars
<1>2. hpc'[1] = "idle" /\ hpc' = <<hpc'[1], hpc'[2]>>
  BY <1>1
<1>3. RunTypes'
  BY <1>1 DEF RunInv, RunTypes, ChangerTypes
<1>4. ChangerTypes' /\ SrcuHeld' /\ ModeSet'
  BY <1>1, <1>2 DEF RunInv, ChangerTypes, SrcuHeld, ModeSet
<1>5. GuestRunsOnCurrent'
  <2>1. runPc = "guest" => requests = {} /\ hpc[2] # "apicv"
    BY <1>1 DEF RunInv, ModeSet, ChangerTypes
  <2>2. runPc = "guest" => Current
    BY <1>1, <2>1, NothingStale
  <2>3. runPc = "guest" => UNCHANGED <<runCur, runSeen, scanned, hyperv>>
    BY <1>1, <2>1
  <2>4. QED
    BY <1>1, <2>2, <2>3 DEF Current, GuestRunsOnCurrent
<1>6. Fresh'
  BY <1>1, <1>2 DEF RunInv, RunTypes, ChangerTypes, Fresh, Pending
<1>7. QED
  BY <1>3, <1>4, <1>5, <1>6 DEF RunInv

\* Every other way to a request, and a signal.
LEMMA OtherRequests ==
    ASSUME RunInv, \/ \E q \in Made : MakeOther(q)
                   \/ \E e \in {"INIT", "SIPI"} : SendInit(e)
                   \/ Signal \/ kvm_arch_vcpu_ioctl_set_mpstate
    PROVE  RunInv'
<1>1. /\ requests \subseteq requests' /\ requests' \subseteq Used
      /\ UNCHANGED <<runPc, pos, srcu, runCur, runSeen, scanned, hyperv, runLock, hpc>>
      /\ mp_state_run' \in MpStates
      /\ runMode' \in {"OUTSIDE", "IN_GUEST", "EXITING"}
  BY DEF RunInv, RunTypes, MpStates, Used, MakeOther, SendInit, Signal, kvm_arch_vcpu_ioctl_set_mpstate, Kick,
         guestvars
<1>2. ipi' \in BOOLEAN
  BY DEF RunInv, RunTypes, MakeOther, SendInit, Signal, kvm_arch_vcpu_ioctl_set_mpstate, Kick
<1>3. RunTypes' /\ ChangerTypes' /\ SrcuHeld' /\ GuestRunsOnCurrent'
  BY <1>1, <1>2 DEF RunInv, RunTypes, ChangerTypes, SrcuHeld, GuestRunsOnCurrent, MpStates
<1>4. Fresh'
  BY <1>1 DEF RunInv, Fresh, Pending
<1>5. ModeSet'
  <2>1. CASE \/ \E q \in Made : MakeOther(q)
             \/ \E e \in {"INIT", "SIPI"} : SendInit(e)
    <3>1. runMode' = (IF runMode = "IN_GUEST" THEN "EXITING" ELSE runMode) /\ ipi' = (ipi \/ runMode = "IN_GUEST")
      BY <2>1 DEF MakeOther, SendInit, Kick
    <3>2. QED
      BY <1>1, <3>1 DEF RunInv, RunTypes, ModeSet
  <2>2. CASE Signal
    BY <1>1, <2>2 DEF RunInv, RunTypes, ModeSet, Signal
  <2>3. CASE kvm_arch_vcpu_ioctl_set_mpstate
    BY <1>1, <2>3 DEF ModeSet, kvm_arch_vcpu_ioctl_set_mpstate
  <2>4. QED
    BY <2>1, <2>2, <2>3
<1>6. QED
  BY <1>3, <1>4, <1>5 DEF RunInv

LEMMA RunInitInv == RunInit => RunInv
<1> SUFFICES ASSUME RunInit PROVE RunInv
  OBVIOUS
<1>a. ipi \in BOOLEAN /\ requests = {} /\ scanned = 0 /\ hyperv \in BOOLEAN
  BY RunAssumption DEF RunInit
<1>b. runCur \in [Resources -> Nat] /\ runSeen \in [Resources -> Nat]
  BY DEF RunInit
<1>c. runPc = "user" /\ pos = 1 /\ runMode = "OUTSIDE" /\ runLock = "none" /\ mp_state_run \in MpStates
  BY DEF RunInit, MpStates
<1>0. RunTypes
  BY <1>a, <1>b, <1>c DEF RunTypes, RunPcs, MpStates
<1>1. SrcuHeld /\ ModeSet /\ Fresh /\ GuestRunsOnCurrent
  BY DEF RunInit, SrcuHeld, ModeSet, Fresh, GuestRunsOnCurrent
<1>2. ChangerTypes
  BY DEF RunInit, ChangerTypes
<1>3. QED
  BY <1>0, <1>1, <1>2 DEF RunInv

LEMMA RunStepInv ==
    ASSUME RunInv, [RunNext]_runVars
    PROVE  RunInv'
<1>1. CASE UNCHANGED runVars
  <2>1. UNCHANGED <<runPc, pos, runMode, requests, ipi, srcu, mp_state_run, runCur, runSeen, scanned, hyperv, runLock, hpc>>
    BY <1>1 DEF runVars
  <2>2. RunTypes' /\ ChangerTypes' /\ SrcuHeld'
    BY <2>1 DEF RunInv, RunTypes, ChangerTypes, SrcuHeld
  <2>3. ModeSet' /\ Fresh' /\ GuestRunsOnCurrent'
    BY <2>1 DEF RunInv, ModeSet, Fresh, Pending, GuestRunsOnCurrent
  <2>4. QED
    BY <2>2, <2>3 DEF RunInv
<1>2. CASE Vcpu \/ MmuReloadFails \/ FastReentry \/ ExitGuest
  BY <1>2, QuietSteps, RequestStep, EntrySteps, GuestSteps DEF Vcpu
<1>3. CASE (\E x \in Resources : BeginChange(x)) \/ Host
  BY <1>3, ChangeBegins, ChangeRequested, ChangeKicks, ChangeEnds DEF Host
<1>4. QED
  BY <1>1, <1>2, <1>3, OtherRequests DEF RunNext

LEMMA RunInvExact == RunInv => RunTypeOK /\ GuestRunsOnCurrent /\ SrcuWhereNeeded /\ RequestInterrupts
<1> SUFFICES ASSUME RunInv PROVE RunTypeOK /\ GuestRunsOnCurrent /\ SrcuWhereNeeded /\ RequestInterrupts
  OBVIOUS
<1>1. RunTypeOK
  BY OrderFacts DEF RunInv, RunTypes, RunPcs, SrcuHeld, RunTypeOK
<1>2. SrcuWhereNeeded /\ RequestInterrupts /\ GuestRunsOnCurrent
  BY DEF RunInv, SrcuHeld, ModeSet, SrcuWhereNeeded, RequestInterrupts
<1>3. QED
  BY <1>1, <1>2

-----------------------------------------------------------------------------
(* The MSRs that are restored on the return to user mode.                  *)

UretTypes ==
    /\ hw \in [Msrs -> Value] /\ host \in [Msrs -> Value] /\ curr \in [Msrs -> Value]
    /\ list \in Seq(Exists) /\ Len(list) <= MaxNr
    /\ registered \in BOOLEAN /\ enabled \in BOOLEAN
    /\ uretMode \in {"setup", "kernel", "user", "returning"}
    /\ uretSlot \in Nat
    /\ uretMode = "returning" => uretSlot \in 1..(Len(list) + 1)
    /\ uretMode # "returning" => uretSlot = 0

Known == \A m \in Range(list) : host[m] = HostValue /\ curr[m] = hw[m]
AllHost == \A m \in Msrs : hw[m] = HostValue

\* A guest's value is in a register only while the notifier is registered, or
\* while the registers not yet reached are being restored.
UretInv ==
    /\ UretTypes
    /\ uretMode = "setup" => enabled = FALSE
    /\ registered = TRUE => uretMode = "kernel" /\ enabled = TRUE
    /\ registered = FALSE /\ uretMode # "returning" => AllHost
    /\ enabled = TRUE \/ uretMode = "returning" => Known
    /\ \A m \in Msrs \ Range(list) : hw[m] = HostValue
    /\ uretMode = "returning" => \A k \in 1..(uretSlot - 1) : hw[list[k]] = HostValue

LEMMA HostValueType == HostValue \in Value
<1>1. PICK b \in Bits, c \in Bits : b # c
  BY UretAssumption
<1>2. {b} \in Value /\ {b} # {} /\ {b} # Bits
  BY <1>1 DEF Value
<1>3. QED
  BY <1>2 DEF HostValue

LEMMA UretInitInv == UretInit => UretInv
<1> SUFFICES ASSUME UretInit PROVE UretInv
  OBVIOUS
<1>1. /\ hw \in [Msrs -> Value] /\ host \in [Msrs -> Value] /\ curr \in [Msrs -> Value]
      /\ list \in Seq(Exists) /\ Len(list) <= MaxNr
  BY HostValueType, UretAssumption DEF UretInit, Value
<1>2. /\ registered = FALSE /\ enabled = FALSE /\ uretMode = "setup" /\ uretSlot = 0 /\ AllHost
  BY DEF UretInit, AllHost
<1>3. QED
  BY <1>1, <1>2 DEF UretInv, UretTypes, AllHost

LEMMA UretStepInv ==
    ASSUME UretInv, [UretNext]_uretVars
    PROVE  UretInv'
<1> USE UretAssumption
<1>l. Range(list) \subseteq Msrs /\ Len(list) \in Nat /\ \A k \in 1..Len(list) : list[k] \in Range(list)
  BY DEF UretInv, UretTypes, Range
<1>1. ASSUME NEW m \in Msrs, kvm_add_user_return_msr(m) PROVE UretInv'
  <2>1. /\ uretMode = "setup" /\ m \in Exists /\ Len(list) < MaxNr /\ list' = Append(list, m)
        /\ UNCHANGED <<hw, host, curr, registered, uretMode, uretSlot, enabled>>
    BY <1>1 DEF kvm_add_user_return_msr
  <2>2. list' \in Seq(Exists) /\ Len(list') = Len(list) + 1
    BY <2>1 DEF UretInv, UretTypes
  <2>3. UretTypes'
    BY <1>l, <2>1, <2>2 DEF UretInv, UretTypes
  <2>4. enabled = FALSE /\ registered = FALSE /\ AllHost
    BY <2>1 DEF UretInv, UretTypes
  <2>5. QED
    BY <2>1, <2>3, <2>4 DEF UretInv, AllHost
<1>2. ASSUME NEW m \in Msrs, NEW v \in Value, NEW mask \in {Bits, {CHOOSE b \in Bits : TRUE}},
             kvm_set_user_return_msr(m, v, mask)
      PROVE  UretInv'
  <2>1. /\ uretMode = "kernel" /\ enabled = TRUE /\ m \in Range(list)
        /\ UNCHANGED <<list, host, uretMode, uretSlot, enabled>>
    BY <1>2 DEF kvm_set_user_return_msr, UretInv, UretTypes
  <2>2. Masked(m, v, mask) \in Value
    BY DEF Masked, Value, UretInv, UretTypes
  <2>3. CASE UNCHANGED <<hw, curr, registered>>
    BY <2>1, <2>3 DEF UretInv, UretTypes, Known, AllHost
  <2>4. CASE \E new \in Value : /\ hw' = [hw EXCEPT ![m] = new] /\ curr' = [curr EXCEPT ![m] = new]
                                /\ registered' = TRUE
    <3>1. UretTypes'
      BY <2>1, <2>4 DEF UretInv, UretTypes
    <3>2. Known'
      BY <1>l, <2>1, <2>4 DEF UretInv, UretTypes, Known
    <3>3. \A n \in Msrs \ Range(list) : hw'[n] = HostValue
      BY <2>1, <2>4 DEF UretInv, UretTypes
    <3>4. QED
      BY <2>1, <2>4, <3>1, <3>2, <3>3 DEF UretInv
  <2>5. QED
    BY <1>2, <2>2, <2>3, <2>4 DEF kvm_set_user_return_msr, SetWith, Registers
<1>3. CASE SetupDone
  BY <1>3 DEF SetupDone, UretInv, UretTypes, Known, AllHost
<1>4. CASE kvm_arch_hardware_enable
  <2>1. /\ uretMode \in {"kernel", "user"} /\ enabled = FALSE /\ enabled' = TRUE
        /\ host' = [m \in Msrs |-> IF m \in Range(list) THEN hw[m] ELSE host[m]]
        /\ curr' = [m \in Msrs |-> IF m \in Range(list) THEN hw[m] ELSE curr[m]]
        /\ UNCHANGED <<hw, list, registered, uretMode, uretSlot>>
    BY <1>4 DEF kvm_arch_hardware_enable, Online, UretInv, UretTypes
  <2>2. registered = FALSE /\ AllHost
    BY <2>1 DEF UretInv, UretTypes
  <2>3. UretTypes'
    BY <2>1 DEF UretInv, UretTypes
  <2>4. Known'
    BY <1>l, <2>1, <2>2 DEF Known, AllHost
  <2>5. QED
    BY <2>1, <2>2, <2>3, <2>4 DEF UretInv, AllHost
<1>5. CASE kvm_arch_hardware_disable
  <2>1. enabled = TRUE /\ enabled' = FALSE /\ UNCHANGED <<list, host, uretMode, uretSlot>> /\ Known
    BY <1>5 DEF kvm_arch_hardware_disable, UretInv, UretTypes
  <2>2. CASE registered = FALSE
    <3>1. UNCHANGED <<hw, curr, registered>>
      BY <1>5, <2>2 DEF kvm_arch_hardware_disable, Drop
    <3>2. QED
      BY <2>1, <2>2, <3>1 DEF UretInv, UretTypes, Known, AllHost
  <2>3. CASE registered = TRUE
    <3>1. /\ registered' = FALSE
          /\ hw' = [m \in Msrs |-> IF m \in Range(list) /\ curr[m] # host[m] THEN host[m] ELSE hw[m]]
          /\ curr' = [m \in Msrs |-> IF m \in Range(list) THEN host[m] ELSE curr[m]]
      BY <1>5, <2>3 DEF kvm_arch_hardware_disable, Drop
    <3>2. uretMode = "kernel"
      BY <2>3 DEF UretInv
    <3>3. AllHost'
      BY <2>1, <3>1 DEF UretInv, Known, AllHost
    <3>4. UretTypes'
      BY <2>1, <3>1 DEF UretInv, UretTypes
    <3>5. QED
      BY <2>1, <3>1, <3>2, <3>3, <3>4 DEF UretInv, AllHost
  <2>4. QED
    BY <2>2, <2>3 DEF UretInv, UretTypes
<1>6. CASE ReturnToUser
  <2>1. uretMode = "kernel" /\ UNCHANGED <<hw, list, host, curr, enabled>>
    BY <1>6 DEF ReturnToUser
  <2>2. CASE registered = TRUE
    <3>1. registered' = FALSE /\ uretMode' = "returning" /\ uretSlot' = 1 /\ enabled = TRUE
      BY <1>6, <2>2 DEF ReturnToUser, UretInv
    <3>a. uretSlot' \in Nat /\ uretSlot' \in 1..(Len(list') + 1)
      BY <1>l, <2>1, <3>1
    <3>b. registered' \in BOOLEAN /\ enabled' \in BOOLEAN /\ uretMode' = "returning"
      BY <2>1, <3>1
    <3>2. UretTypes'
      BY <2>1, <3>a, <3>b DEF UretInv, UretTypes
    <3>3. QED
      BY <2>1, <3>1, <3>2 DEF UretInv, Known
  <2>3. CASE registered = FALSE
    <3>1. uretMode' = "user" /\ UNCHANGED <<registered, uretSlot>>
      BY <1>6, <2>3 DEF ReturnToUser
    <3>2. QED
      BY <2>1, <2>3, <3>1 DEF UretInv, UretTypes, Known, AllHost
  <2>4. QED
    BY <2>2, <2>3 DEF UretInv, UretTypes
<1>7. CASE Restore
  <2>1. uretMode = "returning" /\ registered = FALSE /\ Known /\ UNCHANGED <<list, host, registered, enabled>>
    BY <1>7 DEF Restore, UretInv, UretTypes
  <2>2. CASE uretSlot > Len(list)
    <3>1. uretMode' = "user" /\ uretSlot' = 0 /\ UNCHANGED <<hw, curr>>
      BY <1>7, <2>2 DEF Restore
    <3>2. uretSlot = Len(list) + 1
      BY <1>l, <2>1, <2>2 DEF UretInv, UretTypes
    <3>3. \A k \in 1..Len(list) : hw[list[k]] = HostValue
      BY <1>l, <2>1, <3>2 DEF UretInv
    <3>4. \A m \in Range(list) : \E k \in 1..Len(list) : m = list[k]
      BY DEF Range, UretInv, UretTypes
    <3>5. AllHost
      BY <3>3, <3>4 DEF UretInv, AllHost
    <3>6. UretTypes'
      BY <2>1, <3>1 DEF UretInv, UretTypes
    <3>7. QED
      BY <2>1, <3>1, <3>5, <3>6 DEF UretInv, AllHost, Known
  <2>3. CASE ~(uretSlot > Len(list))
    <3> DEFINE n == list[uretSlot]
    <3>1. uretSlot \in 1..Len(list) /\ n \in Range(list) /\ n \in Msrs
      BY <1>l, <2>1, <2>3 DEF UretInv, UretTypes
    <3>2. /\ hw' = Restored(hw, n) /\ curr' = [curr EXCEPT ![n] = host[n]]
          /\ uretSlot' = uretSlot + 1 /\ uretMode' = uretMode
      BY <1>7, <2>3 DEF Restore
    <3> HIDE DEF n
    <3>3. hw' = [hw EXCEPT ![n] = HostValue] /\ host[n] = HostValue
      BY <2>1, <3>1, <3>2 DEF Restored, Known, UretInv, UretTypes
    <3>4. UretTypes'
      BY <1>l, <2>1, <3>1, <3>2, <3>3, HostValueType DEF UretInv, UretTypes
    <3>5. Known'
      BY <1>l, <2>1, <3>1, <3>2, <3>3 DEF UretInv, UretTypes, Known
    <3>6. \A m \in Msrs \ Range(list) : hw'[m] = HostValue
      BY <3>3 DEF UretInv, UretTypes
    <3>7. \A k \in 1..(uretSlot' - 1) : hw'[list[k]] = HostValue
      <4> SUFFICES ASSUME NEW k \in 1..uretSlot PROVE hw'[list[k]] = HostValue
        BY <3>1, <3>2
      <4>1. list[k] \in Msrs
        BY <1>l, <3>1
      <4>2. k # uretSlot => hw[list[k]] = HostValue
        BY <2>1, <3>1 DEF UretInv
      <4>3. k = uretSlot => list[k] = n
        BY DEF n
      <4>4. QED
        BY <3>3, <4>1, <4>2, <4>3 DEF UretInv, UretTypes
    <3>8. QED
      BY <2>1, <3>2, <3>4, <3>5, <3>6, <3>7 DEF UretInv
  <2>4. QED
    BY <2>2, <2>3
<1>8. CASE EnterKernel
  BY <1>8 DEF EnterKernel, UretInv, UretTypes, Known, AllHost
<1>9. CASE UNCHANGED uretVars
  BY <1>9 DEF uretVars, UretInv, UretTypes, Known, AllHost
<1>10. QED
  BY <1>1, <1>2, <1>3, <1>4, <1>5, <1>6, <1>7, <1>8, <1>9 DEF UretNext

LEMMA UretInvExact ==
    UretInv => UretTypeOK /\ UserSeesHost /\ HostIsHost /\ CurrIsHardware /\ OffMeansHost
<1> SUFFICES ASSUME UretInv PROVE UretTypeOK /\ UserSeesHost /\ HostIsHost /\ CurrIsHardware /\ OffMeansHost
  OBVIOUS
<1>1. UretTypeOK
  BY UretAssumption DEF UretInv, UretTypes, UretTypeOK, Range
<1>2. HostIsHost /\ CurrIsHardware
  BY DEF UretInv, UretTypes, Known, HostIsHost, CurrIsHardware
<1>3. UserSeesHost /\ OffMeansHost
  BY DEF UretInv, UretTypes, AllHost, UserSeesHost, OffMeansHost
<1>4. QED
  BY <1>1, <1>2, <1>3

-----------------------------------------------------------------------------
(* The FPU, PKRU and XCR0.                                                 *)

FpuVal == [fp : UserVals \cup GuestVals \cup {0}, bnd : {0, 1}]
FpuTypes ==
    /\ fpuPc \in {"user", "load", "loop", "guest", "reset", "put"}
    /\ regs \in FpuVal /\ thread \in FpuVal /\ user_fpu \in FpuVal /\ uval \in FpuVal /\ gval \in FpuVal
    /\ guest_fpu \in [val : FpuVal, pkru : BOOLEAN]
    /\ need_load \in BOOLEAN
    /\ upkru \in UserPkru
    /\ fpuCr4 \in Cr4s \cup {{}}

\* Where the registers of user space and of the guest are.
Saved ==
    /\ fpuPc = "user" => need_load = FALSE
    /\ fpuPc = "guest" => need_load = FALSE
    /\ fpuPc \in {"user", "load", "reset"} => kvm_save_current_fpu = uval /\ guest_fpu.val = gval
    /\ fpuPc \in {"loop", "guest", "put"} => kvm_save_current_fpu = gval /\ user_fpu = uval

Keys ==
    /\ fpuPc # "user" => host_pkru = upkru
    /\ fpuPc # "guest" => pkru = upkru
    /\ fpuPc = "guest" => pkru = IF UsesPkru THEN gpkru ELSE upkru
    /\ fpuPc # "guest" \/ ~UsesPkru => vcpu_pkru = gpkru
    /\ fpuPc \in {"user", "load"} /\ guest_fpu.pkru = FALSE => gpkru = 0
    /\ "pkru" \notin supported_xcr0 => gpkru = 0

Xcr ==
    /\ fpuPc # "guest" \/ "OSXSAVE" \notin fpuCr4 => xcr0 = HostXcr0
    /\ LoadableXcr0 /\ CpuidFollowsXcr0

FpuInv == FpuTypes /\ Saved /\ Keys /\ Xcr

LEMMA FpuInitInv == FpuInit => FpuInv
<1> SUFFICES ASSUME FpuInit PROVE FpuInv
  OBVIOUS
<1>0. FpuZero \in FpuVal /\ uval \in FpuVal
  BY DEF FpuInit, FpuZero, FpuVal
<1>1. need_load \in BOOLEAN /\ guest_fpu = [val |-> FpuZero, pkru |-> FALSE] /\ guest_fpu.val = gval
  BY DEF FpuInit
<1>2. FpuTypes
  BY <1>0, <1>1 DEF FpuInit, FpuTypes
<1>3. Saved
  BY <1>1 DEF FpuInit, Saved, kvm_save_current_fpu
<1>4. Keys
  BY DEF FpuInit, Keys
<1>5. Xcr
  BY FpuAssumption DEF FpuInit, Xcr, LoadableXcr0, CpuidFollowsXcr0, AVX512, FPSSE
<1>6. QED
  BY <1>2, <1>3, <1>4, <1>5 DEF FpuInv

\* What each kind of step leaves alone.
LEMMA XcrKept ==
    ASSUME Xcr, UNCHANGED <<xcr0, vcpu_xcr0, cpuid_ext, fpuCr4>>, fpuPc' = "guest" \/ fpuPc # "guest"
    PROVE  Xcr'
  BY DEF Xcr, LoadableXcr0, CpuidFollowsXcr0

LEMMA KeysKept ==
    ASSUME Keys, UNCHANGED <<pkru, vcpu_pkru, vcpu_xcr0, fpuCr4, upkru, gpkru>>,
           fpuPc # "guest" /\ fpuPc' # "guest",
           host_pkru' = pkru \/ (fpuPc # "user" /\ host_pkru' = host_pkru),
           fpuPc' \in {"user", "load"} => guest_fpu'.pkru = TRUE \/
                                          (fpuPc \in {"user", "load"} /\ guest_fpu'.pkru = guest_fpu.pkru)
    PROVE  Keys'
  BY DEF Keys, UsesPkru

\* The registers, whichever of the two places they are in, keep their type.
LEMMA CurrentFpu == FpuTypes => kvm_save_current_fpu \in FpuVal
  BY DEF FpuTypes, kvm_save_current_fpu

\* What the thread of user space and the kernel do.
LEMMA UserSteps ==
    ASSUME FpuInv, UserRuns \/ Ioctl \/ FpuPreempt \/ FpuLeave \/ LoadGuest
    PROVE  FpuInv'
<1> USE DEF FpuInv
<1>0. kvm_save_current_fpu \in FpuVal /\ FpuZero \in FpuVal
  BY CurrentFpu DEF FpuZero, FpuVal
<1>x. Xcr'
  BY XcrKept DEF UserRuns, Ioctl, FpuPreempt, FpuLeave, LoadGuest, xcrs
<1>1. CASE UserRuns
  <2>1. PICK f \in UserVals, k \in UserPkru :
          uval' = [fp |-> f, bnd |-> 0] /\ regs' = uval' /\ upkru' = k /\ pkru' = k
    BY <1>1 DEF UserRuns
  <2>2. /\ fpuPc = "user"
        /\ UNCHANGED <<fpuPc, need_load, thread, user_fpu, guest_fpu, host_pkru, vcpu_pkru, vcpu_xcr0, fpuCr4,
                       gval, gpkru>>
    BY <1>1 DEF UserRuns, xcrs
  <2>3. FpuTypes'
    BY <2>1, <2>2 DEF FpuTypes, FpuVal
  <2>4. Saved'
    BY <2>1, <2>2 DEF Saved, kvm_save_current_fpu
  <2>5. Keys'
    BY <2>1, <2>2 DEF Keys
  <2>6. QED
    BY <1>x, <2>3, <2>4, <2>5
<1>2. CASE Ioctl \/ FpuLeave
  <2>1. /\ UNCHANGED <<regs, need_load, thread, user_fpu, guest_fpu, pkru, vcpu_pkru, vcpu_xcr0, fpuCr4,
                       uval, gval, upkru, gpkru>>
        /\ \/ fpuPc = "user" /\ fpuPc' = "load" /\ host_pkru' = pkru
           \/ fpuPc = "loop" /\ fpuPc' = "put" /\ host_pkru' = host_pkru
    BY <1>2 DEF Ioctl, FpuLeave, VcpuLoad, fpu, keys, xcrs, expected
  <2>2. FpuTypes' /\ Saved'
    BY <2>1 DEF FpuTypes, Saved, kvm_save_current_fpu
  <2>3. Keys'
    BY <2>1, KeysKept
  <2>4. QED
    BY <1>x, <2>2, <2>3
<1>3. CASE FpuPreempt
  <2>1. /\ fpuPc \in {"load", "loop", "reset", "put"} /\ thread' = kvm_save_current_fpu /\ need_load' = TRUE
        /\ regs' = FpuZero /\ host_pkru' = pkru
        /\ UNCHANGED <<fpuPc, user_fpu, guest_fpu, pkru, vcpu_pkru, vcpu_xcr0, fpuCr4, uval, gval, upkru, gpkru>>
    BY <1>3 DEF FpuPreempt, VcpuLoad, xcrs, expected
  <2>2. FpuTypes'
    BY <1>0, <2>1 DEF FpuTypes
  <2>3. kvm_save_current_fpu' = kvm_save_current_fpu
    BY <2>1 DEF kvm_save_current_fpu
  <2>4. Saved'
    BY <2>1, <2>3 DEF Saved
  <2>5. Keys'
    BY <2>1, KeysKept
  <2>6. QED
    BY <1>x, <2>2, <2>4, <2>5
<1>4. CASE LoadGuest
  <2>1. /\ fpuPc = "load" /\ fpuPc' = "loop" /\ user_fpu' = kvm_save_current_fpu /\ regs' = guest_fpu.val
        /\ need_load' = FALSE
        /\ UNCHANGED <<thread, guest_fpu, pkru, host_pkru, vcpu_pkru, vcpu_xcr0, fpuCr4, uval, gval, upkru, gpkru>>
    BY <1>4 DEF LoadGuest, kvm_load_guest_fpu, keys, xcrs, expected
  <2>2. FpuTypes'
    BY <1>0, <2>1 DEF FpuTypes
  <2>3. Saved'
    BY <2>1 DEF Saved, kvm_save_current_fpu
  <2>4. Keys'
    BY <2>1, KeysKept
  <2>5. QED
    BY <1>x, <2>2, <2>3, <2>4
<1>5. QED
  BY <1>1, <1>2, <1>3, <1>4

\* Entering the guest, in it, and leaving it.
LEMMA GuestFpuSteps ==
    ASSUME FpuInv, FpuEnter \/ GuestRuns \/ Exit
    PROVE  FpuInv'
<1> USE DEF FpuInv
<1>0. kvm_save_current_fpu \in FpuVal
  BY CurrentFpu
<1>1. CASE FpuEnter
  <2>1. /\ fpuPc = "loop" /\ fpuPc' = "guest" /\ regs' = kvm_save_current_fpu /\ need_load' = FALSE
        /\ pkru' = (IF UsesPkru /\ vcpu_pkru # host_pkru THEN vcpu_pkru ELSE pkru)
        /\ xcr0' = (IF "OSXSAVE" \in fpuCr4 THEN vcpu_xcr0 ELSE xcr0)
        /\ UNCHANGED <<thread, user_fpu, guest_fpu, host_pkru, vcpu_pkru, vcpu_xcr0, cpuid_ext, fpuCr4,
                       uval, gval, upkru, gpkru>>
    BY <1>1 DEF FpuEnter, kvm_load_guest_xsave_state, expected
  <2>2. FpuTypes'
    BY <1>0, <2>1 DEF FpuTypes
  <2>3. Saved'
    BY <2>1 DEF Saved, kvm_save_current_fpu
  <2>4. Keys'
    BY <2>1 DEF Keys, UsesPkru
  <2>5. Xcr'
    BY <2>1 DEF Xcr, LoadableXcr0, CpuidFollowsXcr0
  <2>6. QED
    BY <2>2, <2>3, <2>4, <2>5
<1>2. CASE GuestRuns
  <2>1. PICK f \in GuestVals, b \in {0, 1} : gval' = [fp |-> f, bnd |-> b] /\ regs' = gval'
    BY <1>2 DEF GuestRuns
  <2>2. /\ fpuPc = "guest"
        /\ UNCHANGED <<fpuPc, need_load, thread, user_fpu, guest_fpu, host_pkru, vcpu_pkru, xcr0, vcpu_xcr0,
                       cpuid_ext, fpuCr4, uval, upkru>>
        /\ UNCHANGED <<pkru, gpkru>> \/ ("PKE" \in fpuCr4 /\ pkru' = gpkru')
    BY <1>2 DEF GuestRuns, xcrs
  <2>3. FpuTypes'
    BY <2>1, <2>2 DEF FpuTypes, FpuVal
  <2>4. Saved'
    BY <2>1, <2>2 DEF Saved, kvm_save_current_fpu
  <2>5. "PKE" \in fpuCr4 => UsesPkru /\ "pkru" \in supported_xcr0
    BY FpuAssumption DEF FpuTypes, UsesPkru
  <2>6. UsesPkru' <=> UsesPkru
    BY <2>2 DEF UsesPkru
  <2>7. Keys'
    BY <2>2, <2>5, <2>6 DEF Keys
  <2>8. Xcr'
    BY <2>2, XcrKept
  <2>9. QED
    BY <2>3, <2>4, <2>7, <2>8
<1>3. CASE Exit
  <2>1. /\ fpuPc = "guest" /\ fpuPc' = "loop"
        /\ vcpu_pkru' = (IF UsesPkru THEN pkru ELSE vcpu_pkru) /\ pkru' = (IF UsesPkru THEN host_pkru ELSE pkru)
        /\ xcr0' = (IF "OSXSAVE" \in fpuCr4 THEN HostXcr0 ELSE xcr0)
        /\ UNCHANGED <<regs, need_load, thread, user_fpu, guest_fpu, host_pkru, vcpu_xcr0, cpuid_ext, fpuCr4,
                       uval, gval, upkru, gpkru>>
    BY <1>3 DEF Exit, kvm_load_host_pkru, kvm_load_host_xcr0, fpu, expected
  <2>2. FpuTypes' /\ Saved'
    BY <2>1 DEF FpuTypes, Saved, kvm_save_current_fpu
  <2>3. Keys'
    BY <2>1 DEF Keys, UsesPkru
  <2>4. Xcr'
    BY <2>1 DEF Xcr, LoadableXcr0, CpuidFollowsXcr0
  <2>5. QED
    BY <2>2, <2>3, <2>4
<1>4. QED
  BY <1>1, <1>2, <1>3

\* XSETBV and CR4: with the guest's FPU loaded, never in the guest.
LEMMA RegisterSteps ==
    ASSUME FpuInv, __kvm_set_xcr \/ SetCr4
    PROVE  FpuInv'
<1> USE DEF FpuInv
<1>1. /\ fpuPc \in {"loop", "user"} /\ fpuPc' = fpuPc
      /\ UNCHANGED <<regs, need_load, thread, user_fpu, guest_fpu, pkru, host_pkru, vcpu_pkru, xcr0,
                     uval, gval, upkru, gpkru>>
      /\ fpuCr4' \in Cr4s \cup {fpuCr4}
  BY DEF __kvm_set_xcr, SetCr4, fpu, keys, expected
<1>2. FpuTypes' /\ Saved'
  BY <1>1 DEF FpuTypes, Saved, kvm_save_current_fpu
<1>3. Keys'
  BY <1>1 DEF Keys
<1>4. LoadableXcr0' /\ CpuidFollowsXcr0'
  <2>1. CASE UNCHANGED <<vcpu_xcr0, cpuid_ext>>
    BY <2>1 DEF Xcr, LoadableXcr0, CpuidFollowsXcr0
  <2>2. CASE __kvm_set_xcr
    <3>1. PICK x \in Xcrs : XcrValid(x) /\ vcpu_xcr0' = x /\ cpuid_ext' = CpuidAfter(x)
      BY <2>2 DEF __kvm_set_xcr
    <3>2. CpuidFollowsXcr0'
      BY <3>1 DEF CpuidAfter, CpuidFollowsXcr0, Xcr
    <3>3. "fp" \in x /\ x \subseteq HostXcr0
      BY <3>1, FpuAssumption DEF XcrValid
    <3>4. \A f \in AVX512 \cap x : AVX512 \cup {"sse", "ymm"} \subseteq x
      BY <3>1 DEF XcrValid
    <3>5. {"bndregs", "bndcsr"} \subseteq x \/ {"bndregs", "bndcsr"} \cap x = {}
      BY <3>1 DEF XcrValid
    <3>6. QED
      BY <3>1, <3>2, <3>3, <3>4, <3>5 DEF LoadableXcr0
  <2>3. QED
    BY <2>1, <2>2 DEF SetCr4
<1>5. QED
  BY <1>1, <1>2, <1>3, <1>4 DEF Xcr

\* The guest's FPU is put back in memory, changed there, and loaded.
LEMMA PutSteps ==
    ASSUME FpuInv, ResetPut \/ ResetLoad \/ Put
    PROVE  FpuInv'
<1> USE DEF FpuInv
<1>0. kvm_save_current_fpu \in FpuVal
  BY CurrentFpu
<1>x. Xcr'
  BY XcrKept DEF ResetPut, ResetLoad, Put, xcrs
<1>1. CASE ResetPut \/ Put
  <2>1. /\ \/ fpuPc = "loop" /\ fpuPc' = "reset"
           \/ fpuPc = "put" /\ fpuPc' = "user"
        /\ guest_fpu' = [val |-> kvm_save_current_fpu, pkru |-> pkru # 0]
        /\ regs' = user_fpu /\ need_load' = FALSE
        /\ UNCHANGED <<thread, user_fpu, pkru, host_pkru, vcpu_pkru, vcpu_xcr0, fpuCr4, uval, gval, upkru, gpkru>>
    BY <1>1 DEF ResetPut, Put, kvm_put_guest_fpu, keys, xcrs, expected
  <2>2. pkru # 0
    BY <2>1, FpuAssumption DEF Keys, FpuTypes
  <2>3. guest_fpu'.val = kvm_save_current_fpu /\ guest_fpu'.pkru = TRUE
    BY <2>1, <2>2
  <2>4. guest_fpu' \in [val : FpuVal, pkru : BOOLEAN]
    BY <1>0, <2>1
  <2>5. FpuTypes'
    BY <2>1, <2>4 DEF FpuTypes
  <2>6. Saved'
    BY <2>1, <2>3 DEF Saved, kvm_save_current_fpu
  <2>7. Keys'
    BY <2>1, <2>3, KeysKept
  <2>8. QED
    BY <1>x, <2>5, <2>6, <2>7
<1>2. CASE ResetLoad
  <2>1. /\ fpuPc = "reset" /\ fpuPc' = "loop" /\ gval' = [gval EXCEPT !.bnd = 0]
        /\ guest_fpu' = [guest_fpu EXCEPT !.val.bnd = 0]
        /\ user_fpu' = kvm_save_current_fpu /\ regs' = guest_fpu'.val /\ need_load' = FALSE
        /\ UNCHANGED <<thread, pkru, host_pkru, vcpu_pkru, vcpu_xcr0, fpuCr4, uval, upkru, gpkru>>
    BY <1>2 DEF ResetLoad, kvm_load_guest_fpu, keys, xcrs
  <2>2. guest_fpu.val = gval /\ kvm_save_current_fpu = uval
    BY <2>1 DEF Saved
  <2>3. guest_fpu'.val = gval' /\ gval' \in FpuVal /\ guest_fpu' \in [val : FpuVal, pkru : BOOLEAN]
    BY <2>1, <2>2 DEF FpuTypes, FpuVal
  <2>4. FpuTypes'
    BY <1>0, <2>1, <2>3 DEF FpuTypes
  <2>5. Saved'
    BY <2>1, <2>2, <2>3 DEF Saved, kvm_save_current_fpu
  <2>6. Keys'
    BY <2>1, KeysKept
  <2>7. QED
    BY <1>x, <2>4, <2>5, <2>6
<1>3. QED
  BY <1>1, <1>2

\* What user space does to the guest's FPU in memory.
LEMMA IoctlSteps ==
    ASSUME FpuInv, kvm_arch_vcpu_ioctl_set_fpu \/ Migrate
    PROVE  FpuInv'
<1> USE DEF FpuInv
<1>x. Xcr'
  BY XcrKept DEF kvm_arch_vcpu_ioctl_set_fpu, Migrate, xcrs
<1>1. CASE kvm_arch_vcpu_ioctl_set_fpu
  <2>1. PICK f \in GuestVals : guest_fpu' = [guest_fpu EXCEPT !.val.fp = f] /\ gval' = [gval EXCEPT !.fp = f]
    BY <1>1 DEF kvm_arch_vcpu_ioctl_set_fpu
  <2>2. /\ fpuPc = "user"
        /\ UNCHANGED <<fpuPc, regs, need_load, thread, user_fpu, pkru, host_pkru, vcpu_pkru, vcpu_xcr0, fpuCr4,
                       uval, upkru, gpkru>>
    BY <1>1 DEF kvm_arch_vcpu_ioctl_set_fpu, keys, xcrs
  <2>3. guest_fpu.val = gval
    BY <2>2 DEF Saved
  <2>4. /\ guest_fpu'.val = gval' /\ gval' \in FpuVal /\ guest_fpu' \in [val : FpuVal, pkru : BOOLEAN]
        /\ guest_fpu'.pkru = guest_fpu.pkru
    BY <2>1, <2>3 DEF FpuTypes, FpuVal
  <2>5. FpuTypes'
    BY <2>2, <2>4 DEF FpuTypes
  <2>6. Saved'
    BY <2>2, <2>4 DEF Saved, kvm_save_current_fpu
  <2>7. Keys'
    BY <2>2, <2>4 DEF Keys
  <2>8. QED
    BY <1>x, <2>5, <2>6, <2>7
<1>2. CASE Migrate
  <2> DEFINE has == guest_fpu.pkru /\ "pkru" \in supported_xcr0
  <2>1. /\ fpuPc = "user"
        /\ UNCHANGED <<fpuPc, regs, need_load, thread, user_fpu, pkru, host_pkru, vcpu_xcr0, fpuCr4,
                       uval, gval, upkru, gpkru>>
    BY <1>2 DEF Migrate, xcrs, expected
  <2>2. fill_xsave.val = guest_fpu.val /\ fill_xsave.has = has /\ fill_xsave.pkru = IF has THEN vcpu_pkru ELSE 0
    BY DEF fill_xsave
  <2>3. guest_fpu' = [val |-> guest_fpu.val, pkru |-> has] /\ vcpu_pkru' = IF has THEN vcpu_pkru ELSE 0
    BY <1>2, <2>2 DEF Migrate, load_xsave
  <2>4. /\ guest_fpu'.val = guest_fpu.val /\ guest_fpu' \in [val : FpuVal, pkru : BOOLEAN]
        /\ guest_fpu'.pkru = has
    BY <2>3 DEF FpuTypes
  <2>5. ~has => gpkru = 0
    BY <2>1 DEF FpuTypes, Keys
  <2>6. vcpu_pkru' = gpkru
    BY <2>1, <2>3, <2>5 DEF Keys
  <2>7. FpuTypes'
    BY <2>1, <2>4 DEF FpuTypes
  <2>8. Saved'
    BY <2>1, <2>4 DEF Saved, kvm_save_current_fpu
  <2>9. guest_fpu'.pkru = FALSE => gpkru = 0
    BY <2>4, <2>5
  <2>10. Keys'
    BY <2>1, <2>6, <2>9 DEF Keys
  <2>11. QED
    BY <1>x, <2>7, <2>8, <2>10
<1>3. QED
  BY <1>1, <1>2

LEMMA FpuStepInv ==
    ASSUME FpuInv, [FpuNext]_fpuVars
    PROVE  FpuInv'
<1>1. CASE UNCHANGED fpuVars
  <2>1. FpuTypes' /\ Saved'
    BY <1>1 DEF fpuVars, FpuInv, FpuTypes, Saved, kvm_save_current_fpu
  <2>2. Keys' /\ Xcr'
    BY <1>1 DEF fpuVars, FpuInv, Keys, UsesPkru, Xcr, LoadableXcr0, CpuidFollowsXcr0
  <2>3. QED
    BY <2>1, <2>2 DEF FpuInv
<1>2. QED
  BY <1>1, UserSteps, GuestFpuSteps, RegisterSteps, PutSteps, IoctlSteps DEF FpuNext

LEMMA FpuInvExact ==
    FpuInv => /\ UserKeepsItsRegisters /\ GuestKeepsItsRegisters /\ HostKeepsItsState
              /\ LoadableXcr0 /\ CpuidFollowsXcr0
<1> SUFFICES ASSUME FpuInv
             PROVE  /\ UserKeepsItsRegisters /\ GuestKeepsItsRegisters /\ HostKeepsItsState
                    /\ LoadableXcr0 /\ CpuidFollowsXcr0
  OBVIOUS
<1>1. UserKeepsItsRegisters
  BY DEF FpuInv, Saved, kvm_save_current_fpu, UserKeepsItsRegisters
<1>2. GuestKeepsItsRegisters
  BY DEF FpuInv, Saved, Keys, kvm_save_current_fpu, GuestKeepsItsRegisters
<1>3. HostKeepsItsState /\ LoadableXcr0 /\ CpuidFollowsXcr0
  BY DEF FpuInv, Keys, Xcr, HostKeepsItsState
<1>4. QED
  BY <1>1, <1>2, <1>3

-----------------------------------------------------------------------------
(* WBINVD.                                                                 *)

WbinvdInv ==
    /\ wbinvdPc \in {"guest", "clear", "done"} /\ has_exit \in BOOLEAN
    /\ cpu # WbinvdNone => last = cpu
    /\ has_exit = FALSE => /\ wbinvdPc # "clear"
                           /\ dirty \subseteq {last} \ {WbinvdNone}
                           /\ wbinvdPc = "done" => before = {}
    /\ has_exit = TRUE => /\ wbinvdPc # "clear" => since \subseteq wbinvdMask
                          /\ wbinvdPc = "clear" => since = {}
                          /\ wbinvdPc # "guest" => before \cap due = {}
LEMMA WbinvdInitInv == WbinvdInit => WbinvdInv
<1> SUFFICES ASSUME WbinvdInit PROVE WbinvdInv
  OBVIOUS
<1>1. has_exit \in BOOLEAN
  BY WbinvdAssumption DEF WbinvdInit
<1>2. QED
  BY <1>1 DEF WbinvdInit, WbinvdInv

LEMMA WbinvdStepInv ==
    ASSUME WbinvdInv, [WbinvdNext]_wbinvdVars
    PROVE  WbinvdInv'
<1>1. ASSUME NEW c \in Cpus, kvm_arch_vcpu_load(c) PROVE WbinvdInv'
  <2>1. /\ cpu = WbinvdNone /\ cpu' = c /\ last' = c
        /\ since' = IF wbinvdPc = "clear" THEN since ELSE since \cup {c}
        /\ has_exit' = has_exit /\ wbinvdPc' = wbinvdPc /\ due' = due
    BY <1>1 DEF kvm_arch_vcpu_load
  <2>2. has_exit = TRUE => wbinvdMask' = wbinvdMask \cup {c} /\ before' = before
    BY <1>1 DEF kvm_arch_vcpu_load
  <2>3. has_exit = FALSE => /\ dirty' = IF last \notin {WbinvdNone, c} THEN dirty \ {last} ELSE dirty
                            /\ before' = before \cap dirty'
    BY <1>1 DEF kvm_arch_vcpu_load
  <2>4. QED
    BY <2>1, <2>2, <2>3 DEF WbinvdInv
<1>2. CASE SchedOut
  BY <1>2 DEF SchedOut, WbinvdInv
<1>3. CASE GuestWrites
  BY <1>3 DEF GuestWrites, WbinvdInv
<1>4. CASE Wbinvd
  <2>1. /\ cpu # WbinvdNone /\ wbinvdPc = "guest" /\ UNCHANGED <<has_exit, cpu, last>>
        /\ before' = dirty' /\ due' = since \cup {cpu} /\ since' = {}
    BY <1>4 DEF Wbinvd
  <2>2. has_exit = TRUE => wbinvdPc' = "clear" /\ dirty' = dirty \ (wbinvdMask \cup {cpu})
    BY <1>4 DEF Wbinvd
  <2>3. has_exit = FALSE => wbinvdPc' = "done" /\ dirty' = dirty \ {cpu}
    BY <1>4 DEF Wbinvd
  <2>4. QED
    BY <2>1, <2>2, <2>3 DEF WbinvdInv
<1>5. CASE ClearMask
  BY <1>5 DEF ClearMask, WbinvdInv
<1>6. CASE Resume
  BY <1>6 DEF Resume, WbinvdInv
<1>7. CASE UNCHANGED wbinvdVars
  BY <1>7 DEF wbinvdVars, WbinvdInv
<1>8. QED
  BY <1>1, <1>2, <1>3, <1>4, <1>5, <1>6, <1>7 DEF WbinvdNext

LEMMA WbinvdInvExact == WbinvdInv => WrittenBackSinceLoad
<1> SUFFICES ASSUME WbinvdInv, wbinvdPc # "guest"
             PROVE  IF has_exit THEN before \cap due = {} ELSE before = {}
  BY DEF WrittenBackSinceLoad
<1>1. has_exit = TRUE \/ has_exit = FALSE
  BY DEF WbinvdInv
<1>2. CASE has_exit = TRUE
  BY <1>2 DEF WbinvdInv
<1>3. CASE has_exit = FALSE
  BY <1>3 DEF WbinvdInv
<1>4. QED
  BY <1>1, <1>2, <1>3

-----------------------------------------------------------------------------
(* The parts together.                                                     *)

SwitchInv ==
    /\ part = "run" => RunInv
    /\ part = "user_return" => UretInv
    /\ part = "fpu" => FpuInv
    /\ part = "wbinvd" => WbinvdInv

\* However the requests, signals, preemptions and interrupts fall, a guest
\* runs on the current state of its requests with srcu released, and neither
\* it nor the host sees the other's registers or stale cache lines: for any
\* requests, resources, registers and processors, any number of changes and
\* signals, with and without Hyper-V state, wherever the thread is preempted.
THEOREM WorldSwitch == ExecutionSpec => []WorldSwitchExact
<1>1. ExecutionInit => SwitchInv
  BY RunInitInv, UretInitInv, FpuInitInv, WbinvdInitInv DEF ExecutionInit, SwitchInv
<1>2. SwitchInv /\ [ExecutionNext]_executionVars => SwitchInv'
  <2> SUFFICES ASSUME SwitchInv, [ExecutionNext]_executionVars PROVE SwitchInv'
    OBVIOUS
  <2>1. part' = part
    BY DEF ExecutionNext, executionVars
  <2>2. CASE part = "run"
    <3>1. [RunNext]_runVars
      BY <2>2 DEF ExecutionNext, executionVars
    <3>2. QED
      BY <2>1, <2>2, <3>1, RunStepInv DEF SwitchInv
  <2>3. CASE part = "user_return"
    <3>1. [UretNext]_uretVars
      BY <2>3 DEF ExecutionNext, executionVars
    <3>2. QED
      BY <2>1, <2>3, <3>1, UretStepInv DEF SwitchInv
  <2>4. CASE part = "fpu"
    <3>1. [FpuNext]_fpuVars
      BY <2>4 DEF ExecutionNext, executionVars
    <3>2. QED
      BY <2>1, <2>4, <3>1, FpuStepInv DEF SwitchInv
  <2>5. CASE part = "wbinvd"
    <3>1. [WbinvdNext]_wbinvdVars
      BY <2>5 DEF ExecutionNext, executionVars
    <3>2. QED
      BY <2>1, <2>5, <3>1, WbinvdStepInv DEF SwitchInv
  <2>6. QED
    BY <2>1, <2>2, <2>3, <2>4, <2>5 DEF SwitchInv
<1>3. SwitchInv => WorldSwitchExact
  BY RunInvExact, UretInvExact, FpuInvExact, WbinvdInvExact DEF SwitchInv, WorldSwitchExact
<1>4. QED
  BY <1>1, <1>2, <1>3, PTL DEF ExecutionSpec

-----------------------------------------------------------------------------
-----------------------------------------------------------------------------
(* Hypercalls.                                                             *)

\* A halt that is about to be executed is still within the bound.
CallInv ==
    /\ CallTypeOK
    /\ callRip \in [CallVcpus -> Nat] /\ rax \in [CallVcpus -> Nat]
    /\ cui \in [CallVcpus -> BOOLEAN]
    /\ FinishedOnce
    /\ \A v \in CallVcpus : callPc[v] = "wait" => called[v] < MaxCalls
    /\ OnlyMappedWritten

LEMMA CallInitInv == CallInit => CallInv
  BY CallAssumption DEF CallInit, CallInv, CallTypeOK, FinishedOnce, OnlyMappedWritten

\* A call that ends in the kernel counts, skips and answers in one step.
LEMMA CallHandled ==
    ASSUME CallInv, NEW v \in CallVcpus, CallEnter(v), Out(v), Inside(v),
           memory' = memory \/ \E g \in Gvas : memory' = kvm_write_guest(g),
           records' \in Nat
    PROVE  CallInv'
<1>1. /\ called' = [called EXCEPT ![v] = @ + 1] /\ called[v] < MaxCalls /\ callPc[v] = "guest"
      /\ callRip' = [callRip EXCEPT ![v] = @ + 1] /\ rax' = [rax EXCEPT ![v] = @ + 1]
      /\ callPc' = callPc /\ cui' = cui /\ mp_state_call' = mp_state_call
  BY DEF CallEnter, Out, Inside, kvm_skip_emulated_instruction
<1>2. memory' \in [Gpas -> {"guest", "trampoline"}] /\ OnlyMappedWritten'
  BY DEF CallInv, CallTypeOK, OnlyMappedWritten, kvm_write_guest, WriteMapped
<1>3. called' \in [CallVcpus -> 0..MaxCalls]
  BY <1>1, CallAssumption DEF CallInv, CallTypeOK
<1>4. FinishedOnce'
  BY <1>1 DEF CallInv, CallTypeOK, FinishedOnce
<1>5. QED
  BY <1>1, <1>2, <1>3, <1>4 DEF CallInv, CallTypeOK

LEMMA CallStepInv == CallInv /\ [CallNext]_callVars => CallInv'
<1> SUFFICES ASSUME CallInv, [CallNext]_callVars PROVE CallInv'
  OBVIOUS
<1>1. CASE UNCHANGED callVars
  BY <1>1 DEF callVars, CallInv, CallTypeOK, FinishedOnce, OnlyMappedWritten
<1> SUFFICES ASSUME NEW v \in CallVcpus,
                    \/ NotPermitted(v) \/ PlainCall(v) \/ \E t \in CallVcpus : KVM_HC_KICK_CPU(v, t)
                    \/ GuestWaits(v) \/ kvm_emulate_halt(v) \/ vcpu_block_call(v)
                    \/ MapGpaRange(v) \/ MapGpaRangeInvalid(v) \/ complete_hypercall_exit(v)
                    \/ \E g \in Gvas : WriteTrampoline(v, g)
                    \/ MeasurePages(v) \/ ReadBuffer(v) \/ TakeLock(v)
             PROVE  CallInv'
  BY <1>1 DEF CallNext
<1>0. records \in Nat
  BY DEF CallInv, CallTypeOK
<1>2. CASE \/ NotPermitted(v) \/ PlainCall(v) \/ \E t \in CallVcpus : KVM_HC_KICK_CPU(v, t)
           \/ MapGpaRangeInvalid(v) \/ \E g \in Gvas : WriteTrampoline(v, g)
           \/ MeasurePages(v) \/ ReadBuffer(v)
  BY <1>0, <1>2, CallHandled DEF NotPermitted, PlainCall, KVM_HC_KICK_CPU, MapGpaRangeInvalid,
     WriteTrampoline, MeasurePages, kvm_count, ReadBuffer
<1>3. CASE GuestWaits(v)
  BY <1>3 DEF GuestWaits, CallInv, CallTypeOK, FinishedOnce, OnlyMappedWritten
<1>4. CASE kvm_emulate_halt(v)
  <2>1. called' \in [CallVcpus -> 0..MaxCalls]
    BY <1>4, CallAssumption DEF kvm_emulate_halt, CallInv, CallTypeOK
  <2>2. FinishedOnce'
    BY <1>4 DEF kvm_emulate_halt, kvm_skip_emulated_instruction, CallInv, CallTypeOK, FinishedOnce
  <2>3. QED
    BY <1>4, <2>1, <2>2 DEF kvm_emulate_halt, kvm_skip_emulated_instruction, kvm_vcpu_halt,
       CallInv, CallTypeOK, OnlyMappedWritten
<1>5. CASE vcpu_block_call(v)
  BY <1>5 DEF vcpu_block_call, CallInv, CallTypeOK, FinishedOnce, OnlyMappedWritten
<1>6. CASE MapGpaRange(v)
  <2>1. called' \in [CallVcpus -> 0..MaxCalls]
    BY <1>6, CallAssumption DEF MapGpaRange, CallEnter, CallInv, CallTypeOK
  <2>2. FinishedOnce'
    BY <1>6 DEF MapGpaRange, CallEnter, CallInv, CallTypeOK, FinishedOnce
  <2>3. QED
    BY <1>6, <2>1, <2>2 DEF MapGpaRange, CallEnter, CallInv, CallTypeOK, OnlyMappedWritten
<1>7. CASE complete_hypercall_exit(v)
  <2>1. callPc[v] = "userspace"
    BY <1>7 DEF complete_hypercall_exit, CallInv, FinishedOnce
  <2>2. FinishedOnce'
    BY <1>7, <2>1 DEF complete_hypercall_exit, TakeCui, CompletedOnce, Out, kvm_skip_emulated_instruction,
       CallInv, CallTypeOK, FinishedOnce
  <2>3. QED
    BY <1>7, <2>2 DEF complete_hypercall_exit, TakeCui, CompletedOnce, Out, kvm_skip_emulated_instruction,
       CallInv, CallTypeOK, OnlyMappedWritten
<1>8. CASE TakeLock(v)
  BY <1>8 DEF TakeLock, CallInv, CallTypeOK, FinishedOnce, OnlyMappedWritten
<1>9. QED
  BY <1>2, <1>3, <1>4, <1>5, <1>6, <1>7, <1>8

LEMMA CallInvExact == CallInv => CallTypeOK /\ FinishedOnce /\ OnlyMappedWritten
  BY DEF CallInv

-----------------------------------------------------------------------------
(* Control registers.                                                      *)

CregsInv == CregsTypeOK /\ MmuFollowsRegisters /\ PdptrsAreCurrent

LEMMA CregsInitInv == CregsInit => CregsInv
  BY CregsAssumption DEF CregsInit, CregsInv, CregsTypeOK, MmuFollowsRegisters, PdptrsAreCurrent, Role,
     is_long_mode, is_paging, is_pae, PaePaging

LEMMA CregsSame == ASSUME CregsInv, UNCHANGED cregsVars PROVE CregsInv'
  BY DEF cregsVars, CregsInv, CregsTypeOK, MmuFollowsRegisters, PdptrsAreCurrent, Role,
     is_long_mode, is_paging, is_pae, PaePaging

LEMMA SetCr0Inv ==
    ASSUME CregsInv, NEW c0 \in SUBSET Cr0Bits, kvm_set_cr0(c0) PROVE CregsInv'
<1>1. CASE Cr0Refused(c0)
  BY <1>1, CregsSame DEF kvm_set_cr0, Refuse
<1>2. CASE ~Cr0Refused(c0)
  <2> USE <1>2 DEF kvm_set_cr0
  <2>1. CregsTypeOK'
    BY CregsAssumption DEF CregsInv, CregsTypeOK, Cr0Refused, Accept, Lma, Changed, Load, Keep,
       is_long_mode, is_paging, is_pae
  <2>2. MmuFollowsRegisters'
    BY DEF CregsInv, CregsTypeOK, MmuFollowsRegisters, Accept, Lma, Changed, Role, is_paging, is_long_mode
  <2>3. PdptrsAreCurrent'
    BY DEF CregsInv, CregsTypeOK, PdptrsAreCurrent, PaePaging, Accept, Lma, Changed, Cr0Loads, Load, Keep,
       is_long_mode, is_paging, is_pae
  <2>4. QED
    BY <2>1, <2>2, <2>3 DEF CregsInv
<1>3. QED
  BY <1>1, <1>2

LEMMA SetCr4Inv ==
    ASSUME CregsInv, NEW c4 \in SUBSET Cr4Bits, kvm_set_cr4(c4) PROVE CregsInv'
<1>1. CASE Cr4Refused(c4)
  BY <1>1, CregsSame DEF kvm_set_cr4, Refuse
<1>2. CASE ~Cr4Refused(c4)
  <2> USE <1>2 DEF kvm_set_cr4
  <2>1. CregsTypeOK'
    BY DEF CregsInv, CregsTypeOK, Cr4Refused, Accept, Changed, Load, Keep, is_long_mode, is_paging, is_pae
  <2>2. MmuFollowsRegisters'
    BY DEF CregsInv, CregsTypeOK, MmuFollowsRegisters, Accept, Changed, Cr4Role, Role, is_paging
  <2>3. PdptrsAreCurrent'
    BY DEF CregsInv, CregsTypeOK, PdptrsAreCurrent, PaePaging, Accept, Changed, Cr4Loads, Load, Keep,
       is_long_mode, is_paging, is_pae
  <2>4. QED
    BY <2>1, <2>2, <2>3 DEF CregsInv
<1>3. QED
  BY <1>1, <1>2

LEMMA SetSregsInv == ASSUME CregsInv, NEW s \in Files, set_sregs(s) PROVE CregsInv'
<1>0. s \in Sregs
  BY CregsAssumption
<1>1. CASE ~ValidSregs(s) \/ (s.given /\ ~SregsPae(s))
  BY <1>1, CregsSame DEF set_sregs, Refuse
<1>2. CASE ~(~ValidSregs(s) \/ (s.given /\ ~SregsPae(s)))
  <2> USE <1>0, <1>2 DEF set_sregs, Sregs
  <2>1. CregsTypeOK'
    BY DEF CregsInv, CregsTypeOK, ValidSregs, Load, Keep, is_long_mode, is_paging, is_pae
  <2>2. MmuFollowsRegisters'
    BY DEF CregsInv, CregsTypeOK, MmuFollowsRegisters, SregsReset, Role, is_paging
  <2>3. PdptrsAreCurrent'
    BY DEF PdptrsAreCurrent, SregsPae, PaePaging, Load, Keep
  <2>4. QED
    BY <2>1, <2>2, <2>3 DEF CregsInv
<1>3. QED
  BY <1>1, <1>2

LEMMA CregsStepInv == CregsInv /\ [CregsNext]_cregsVars => CregsInv'
<1> SUFFICES ASSUME CregsInv, [CregsNext]_cregsVars PROVE CregsInv'
  OBVIOUS
<1>1. CASE UNCHANGED cregsVars
  BY <1>1, CregsSame
<1>2. CASE kvm_vcpu_reset
  BY <1>2, CregsAssumption DEF kvm_vcpu_reset, InitResets, CregsInv, CregsTypeOK, MmuFollowsRegisters,
     PdptrsAreCurrent, PaePaging, Role, is_long_mode, is_paging, is_pae
<1>3. ASSUME NEW c0 \in SUBSET Cr0Bits, kvm_set_cr0(c0) PROVE CregsInv'
  BY <1>3, SetCr0Inv
<1>4. CASE kvm_lmsw({"PE"})
  <2>1. cr0 \cup {"PE"} \in SUBSET Cr0Bits
    BY CregsAssumption DEF CregsInv, CregsTypeOK
  <2>2. QED
    BY <1>4, <2>1, SetCr0Inv DEF kvm_lmsw
<1>5. ASSUME NEW c4 \in SUBSET Cr4Bits, kvm_set_cr4(c4) PROVE CregsInv'
  BY <1>5, SetCr4Inv
<1>6. ASSUME NEW t \in Tables, kvm_set_cr3_cregs(t) PROVE CregsInv'
  <2>1. CASE Cr3Loads /\ t \notin good
    BY <1>6, <2>1, CregsSame DEF kvm_set_cr3_cregs, Refuse
  <2>2. CASE ~(Cr3Loads /\ t \notin good)
    BY <1>6, <2>2 DEF kvm_set_cr3_cregs, Accept, Load, Keep, Cr3Loads, CregsInv, CregsTypeOK,
       MmuFollowsRegisters, PdptrsAreCurrent, PaePaging, Role, is_long_mode, is_paging, is_pae
  <2>3. QED
    BY <2>1, <2>2
<1>7. ASSUME NEW t \in Tables, CregsWriteTable(t) PROVE CregsInv'
  BY <1>7 DEF CregsWriteTable, CregsInv, CregsTypeOK, MmuFollowsRegisters, PdptrsAreCurrent, PaePaging,
     Role, is_long_mode, is_paging, is_pae
<1>8. ASSUME NEW e \in SUBSET EferBits, set_efer(e) PROVE CregsInv'
  <2>1. CASE UNCHANGED cregsVars
    BY <2>1, CregsSame
  <2>2. CASE ~UNCHANGED cregsVars
    <3>1. /\ ~(is_paging /\ "LME" \in Changed(e, efer)) /\ UNCHANGED <<cr0, cregsCr3, cregsCr4, pdptrs, ignored>>
          /\ efer' = (e \ {"LMA"}) \cup (efer \cap {"LMA"})
          /\ role' = IF "NX" \in Changed(e, efer) THEN Role(cr0, cregsCr4, efer') ELSE role
      BY <1>8, <2>2 DEF set_efer, Refuse, Keep
    <3>2. QED
      BY <3>1 DEF Changed, CregsInv, CregsTypeOK, MmuFollowsRegisters, PdptrsAreCurrent, PaePaging,
         Role, is_long_mode, is_paging, is_pae
  <2>3. QED
    BY <2>1, <2>2
<1>9. ASSUME NEW l \in BOOLEAN, LoadCs(l) PROVE CregsInv'
  BY <1>9 DEF LoadCs, CregsInv, CregsTypeOK, MmuFollowsRegisters, PdptrsAreCurrent, PaePaging,
     Role, is_long_mode, is_paging, is_pae
<1>10. ASSUME NEW s \in Files, set_sregs(s) PROVE CregsInv'
  BY <1>10, SetSregsInv
<1>11. QED
  BY <1>1, <1>2, <1>3, <1>4, <1>5, <1>6, <1>7, <1>8, <1>9, <1>10 DEF CregsNext

\* No write of the guest, in any order with those of user space, takes a legal
\* combination of control bits to an illegal one: paging without protection,
\* NW without CD, PCIDs outside of long mode.
THEOREM GuestRegistersStayLegal == CregsSpec => GuestStaysLegal
<1> DEFINE Stays == Legal(cr0, cregsCr4, efer) =>
                      Legal(cr0', cregsCr4', efer') \/ \E s \in Files : set_sregs(s)
<1>1. CregsInv /\ [CregsNext]_cregsVars => [Stays]_cregsVars
  <2> SUFFICES ASSUME CregsInv, CregsNext, Legal(cr0, cregsCr4, efer), ~(\E s \in Files : set_sregs(s))
               PROVE  Legal(cr0', cregsCr4', efer')
    OBVIOUS
  <2>1. CASE kvm_vcpu_reset
    BY <2>1 DEF kvm_vcpu_reset, Legal
  <2>2. ASSUME NEW c0, kvm_set_cr0(c0) PROVE Legal(cr0', cregsCr4', efer')
    <3>1. CASE Cr0Refused(c0)
      BY <2>2, <3>1 DEF kvm_set_cr0, Refuse, cregsVars
    <3>2. CASE ~Cr0Refused(c0)
      <4>1. /\ cr0' = c0 /\ cregsCr4' = cregsCr4
            /\ efer' = IF "PG" \in Changed(c0, cr0) THEN Lma(c0, efer) ELSE efer
        BY <2>2, <3>2 DEF kvm_set_cr0
      <4>2. "PCIDE" \in cregsCr4 => "PG" \in cr0 /\ "PG" \in c0
        BY <3>2 DEF Cr0Refused, Legal, CregsInv, CregsTypeOK, is_long_mode, is_paging
      <4>3. QED
        BY <3>2, <4>1, <4>2 DEF Cr0Refused, Legal, Changed, Lma
    <3>3. QED
      BY <3>1, <3>2
  <2>3. CASE kvm_lmsw({"PE"})
    BY <2>2, <2>3 DEF kvm_lmsw
  <2>4. ASSUME NEW c4, kvm_set_cr4(c4) PROVE Legal(cr0', cregsCr4', efer')
    BY <2>4 DEF kvm_set_cr4, Refuse, cregsVars, Accept, PcidRefused, Legal, is_long_mode
  <2>5. ASSUME NEW t, kvm_set_cr3_cregs(t) \/ CregsWriteTable(t) PROVE Legal(cr0', cregsCr4', efer')
    BY <2>5 DEF kvm_set_cr3_cregs, CregsWriteTable, Refuse, cregsVars, Accept
  <2>6. ASSUME NEW e, set_efer(e) PROVE Legal(cr0', cregsCr4', efer')
    BY <2>6 DEF set_efer, Refuse, cregsVars, Accept, Legal
  <2>7. ASSUME NEW l, LoadCs(l) PROVE Legal(cr0', cregsCr4', efer')
    BY <2>7 DEF LoadCs
  <2>8. QED
    BY <2>1, <2>2, <2>3, <2>4, <2>5, <2>6, <2>7 DEF CregsNext
<1>2. QED
  BY <1>1, CregsInitInv, CregsStepInv, PTL DEF CregsSpec, GuestStaysLegal

-----------------------------------------------------------------------------
(* Memory slots.                                                           *)

Slot == [present : BOOLEAN, base : Nat, n : Nat \ {0}, hva : Nat, log : BOOLEAN, rmap : SUBSET Levels]
Logs == {i \in Ids : slotsSlot[i].log}

SlotTypes ==
    /\ slotsSlot \in [Ids -> Slot]
    /\ \A i \in Ids : ~slotsSlot[i].present => slotsSlot[i] = Absent
    /\ have_rmaps \in BOOLEAN /\ slotsLock \in {"none", Mapper}
    /\ todo \subseteq Ids /\ slotsReqs \subseteq SlotsVcpus
    /\ logging \in Nat /\ pml \in [SlotsVcpus -> BOOLEAN]
    /\ change # NoChange => change.id \in Ids /\ change.old \in Slot

\* While the mapper works, the slots it has not reached are on its list; once
\* it is done nobody makes a slot without reverse maps.
Rmapped ==
    /\ have_rmaps => slotsLock = "none"
    /\ slotsLock = Mapper =>
          /\ \A i \in Ids : slotsSlot[i].present => i \in todo \/ slotsSlot[i].rmap = Levels
          /\ \A i \in todo : slotsSlot[i].present
    /\ RmapsComplete

\* The count is that of the slots before the change that is not committed yet.
LogsBefore ==
    IF change = NoChange THEN Logs
    ELSE {i \in Ids : IF i = change.id THEN change.old.log ELSE slotsSlot[i].log}
LogCount ==
    HasPml =>
        /\ logging = Cardinality(LogsBefore)
        /\ \A v \in SlotsVcpus : pml[v] = (logging > 0) \/ v \in slotsReqs

SlotsInv == SlotTypes /\ Rmapped /\ LogCount

LEMMA AbsentSlot == Absent \in Slot /\ Absent.present = FALSE /\ Absent.log = FALSE
  BY DEF Absent, Slot

LEMMA SlotsInitInv == SlotsInit => SlotsInv
<1> SUFFICES ASSUME SlotsInit PROVE SlotsInv
  OBVIOUS
<1>1. SlotTypes
  BY AbsentSlot DEF SlotsInit, SlotTypes
<1>2. Rmapped
  BY AbsentSlot DEF SlotsInit, Rmapped, RmapsComplete, Mapper
<1>3. LogsBefore = {}
  BY AbsentSlot DEF SlotsInit, LogsBefore, Logs
<1>4. LogCount
  <2>1. logging = Cardinality(LogsBefore)
    BY <1>3, FS_EmptySet DEF SlotsInit
  <2>2. ASSUME NEW v \in SlotsVcpus PROVE pml[v] = (logging > 0)
    <3>1. pml[v] = FALSE
      BY DEF SlotsInit
    <3>2. (logging > 0) = FALSE
      BY DEF SlotsInit
    <3>3. QED
      BY <3>1, <3>2
  <2>3. QED
    BY <2>1, <2>2 DEF LogCount
<1>5. QED
  BY <1>1, <1>2, <1>4 DEF SlotsInv

\* A change that is installed counts as before until it is committed.
LEMMA InstallInv ==
    ASSUME SlotsInv, NEW i \in Ids, NEW new \in Slot, Ready, Install(i, new),
           ~new.present => new = Absent, have_rmaps /\ new.present => new.rmap = Levels
    PROVE  SlotsInv'
<1>1. /\ slotsSlot' = [slotsSlot EXCEPT ![i] = new] /\ change' = [id |-> i, old |-> slotsSlot[i]]
      /\ UNCHANGED <<have_rmaps, todo, logging, slotsReqs, pml, slotsLock>>
      /\ slotsLock = "none" /\ change = NoChange
  BY DEF Install, Ready
<1>2. change' # NoChange /\ change'.id = i /\ change'.old = slotsSlot[i]
  BY <1>1, MemslotAssumption DEF NoChange
<1>3. SlotTypes'
  BY <1>1, <1>2 DEF SlotsInv, SlotTypes
<1>4. Rmapped'
  BY <1>1 DEF SlotsInv, SlotTypes, Rmapped, RmapsComplete, Mapper
<1>5. LogsBefore' = LogsBefore
  BY <1>1, <1>2 DEF LogsBefore, Logs, SlotsInv, SlotTypes
<1>6. LogCount'
  BY <1>1, <1>5 DEF SlotsInv, LogCount
<1>7. QED
  BY <1>3, <1>4, <1>6 DEF SlotsInv

\* Committing moves the count by the difference the change makes.
LEMMA CommitInv == ASSUME SlotsInv, kvm_arch_commit_memory_region PROVE SlotsInv'
<1> DEFINE id == change.id
           n == Counted(change.old, slotsSlot[id])
<1>1. /\ change # NoChange /\ change' = NoChange /\ UNCHANGED <<slotsSlot, have_rmaps, slotsLock, todo, pml>>
      /\ IF HasPml THEN logging' = n /\ slotsReqs' = slotsReqs \cup Requests(n)
         ELSE UNCHANGED <<logging, slotsReqs>>
  BY DEF kvm_arch_commit_memory_region
<1>2. id \in Ids /\ change.old \in Slot /\ slotsSlot[id] \in Slot
  BY <1>1 DEF SlotsInv, SlotTypes
<1>3. LogsBefore' = Logs /\ LogsBefore = {i \in Ids : IF i = id THEN change.old.log ELSE slotsSlot[i].log}
  BY <1>1 DEF LogsBefore, Logs
<1>4. IsFiniteSet(Logs) /\ IsFiniteSet(LogsBefore)
  BY <1>3, MemslotAssumption, FS_Subset DEF Logs
<1>5. ASSUME HasPml PROVE n = Cardinality(Logs) /\ n \in Nat /\ logging \in Nat
  <2>1. logging = Cardinality(LogsBefore) /\ logging \in Nat
    BY <1>5 DEF SlotsInv, LogCount, SlotTypes
  <2>2. change.old.log \in BOOLEAN /\ slotsSlot[id].log \in BOOLEAN
    BY <1>2 DEF Slot
  <2>3. CASE change.old.log = slotsSlot[id].log
    <3>1. Logs = LogsBefore
      BY <1>3, <2>3 DEF Logs
    <3>2. QED
      BY <2>1, <2>3, <3>1 DEF Counted
  <2>4. CASE ~change.old.log /\ slotsSlot[id].log
    <3>1. Logs = LogsBefore \cup {id} /\ id \notin LogsBefore
      BY <1>2, <1>3, <2>4 DEF Logs
    <3>2. Cardinality(Logs) = Cardinality(LogsBefore) + 1
      BY <1>4, <3>1, FS_AddElement
    <3>3. Counted(change.old, slotsSlot[id]) = logging + 1
      BY <2>4 DEF Counted
    <3>4. QED
      BY <2>1, <3>2, <3>3
  <2>5. CASE change.old.log /\ ~slotsSlot[id].log
    <3>1. Logs = LogsBefore \ {id} /\ id \in LogsBefore
      BY <1>2, <1>3, <2>5 DEF Logs
    <3>2. Cardinality(Logs) = Cardinality(LogsBefore) - 1 /\ Cardinality(Logs) \in Nat
      BY <1>4, <3>1, FS_RemoveElement, FS_CardinalityType
    <3>3. QED
      BY <2>1, <2>5, <3>2 DEF Counted
  <2>6. QED
    BY <2>2, <2>3, <2>4, <2>5
<1> HIDE DEF n
<1>6. LogCount'
  <2> SUFFICES ASSUME HasPml PROVE LogCount'
    BY DEF LogCount
  <2>1. logging' = Cardinality(LogsBefore')
    BY <1>1, <1>3, <1>5
  <2>2. n = logging \/ n = logging + 1 \/ n = logging - 1
    BY DEF n, Counted
  <2>3. ASSUME NEW v \in SlotsVcpus, v \notin slotsReqs' PROVE pml'[v] = (logging' > 0)
    <3>1. v \notin slotsReqs /\ v \notin Requests(n) /\ logging' = n /\ pml' = pml
      BY <1>1, <2>3
    <3>2. pml[v] = (logging > 0)
      BY <3>1 DEF SlotsInv, LogCount
    <3>3. (n > 0) = (logging > 0)
      BY <1>5, <2>2, <3>1 DEF Requests
    <3>4. QED
      BY <3>1, <3>2, <3>3
  <2>4. QED
    BY <2>1, <2>3 DEF LogCount
<1>7. SlotTypes'
  <2>1. logging' \in Nat /\ slotsReqs' \subseteq SlotsVcpus
    BY <1>1, <1>5 DEF SlotsInv, SlotTypes, Requests
  <2>2. QED
    BY <1>1, <2>1 DEF SlotsInv, SlotTypes
<1>8. QED
  BY <1>1, <1>6, <1>7 DEF SlotsInv, Rmapped, RmapsComplete

LEMMA SlotsStepInv == SlotsInv /\ [SlotsNext]_slotsVars => SlotsInv'
<1> SUFFICES ASSUME SlotsInv, [SlotsNext]_slotsVars PROVE SlotsInv'
  OBVIOUS
<1>1. CASE UNCHANGED slotsVars
  BY <1>1 DEF slotsVars, SlotsInv, SlotTypes, Rmapped, RmapsComplete, LogCount, LogsBefore, Logs
<1>2. ASSUME NEW i \in Ids, CreateOrMove(i) PROVE SlotsInv'
  <2>1. PICK b \in Bases, k \in Sizes, h \in Hvas, log \in BOOLEAN :
          Install(i, [present |-> TRUE, base |-> b, n |-> k, hva |-> h, log |-> log, rmap |-> Rmaps])
    BY <1>2 DEF CreateOrMove
  <2> DEFINE new == [present |-> TRUE, base |-> b, n |-> k, hva |-> h, log |-> log, rmap |-> Rmaps]
  <2>2. new \in Slot /\ new.present /\ (have_rmaps => new.rmap = Levels)
    BY MemslotAssumption DEF Slot, Rmaps
  <2>3. QED
    BY <1>2, <2>1, <2>2, InstallInv DEF CreateOrMove
<1>3. ASSUME NEW i \in Ids, FlagsOnly(i) PROVE SlotsInv'
  <2> DEFINE new == [slotsSlot[i] EXCEPT !.log = ~@]
  <2>1. new \in Slot /\ new.present /\ (have_rmaps => new.rmap = Levels)
    BY <1>3 DEF FlagsOnly, SlotsInv, SlotTypes, Slot, Rmapped, RmapsComplete
  <2>2. QED
    BY <1>3, <2>1, InstallInv DEF FlagsOnly
<1>4. ASSUME NEW i \in Ids, Delete(i) PROVE SlotsInv'
  BY <1>4, AbsentSlot, InstallInv DEF Delete
<1>5. CASE kvm_arch_commit_memory_region
  BY <1>5, CommitInv
<1>6. CASE AllocLocks
  <2>1. SlotTypes' /\ Rmapped'
    BY <1>6 DEF AllocLocks, SlotsInv, SlotTypes, Rmapped, RmapsComplete, Mapper
  <2>2. LogCount'
    BY <1>6 DEF AllocLocks, SlotsInv, LogCount, LogsBefore, Logs
  <2>3. QED
    BY <2>1, <2>2 DEF SlotsInv
<1>7. ASSUME NEW i \in Ids, memslot_rmap_alloc(i) \/ AllocFails(i) PROVE SlotsInv'
  <2>1. PICK m \in SUBSET Levels : slotsSlot' = [slotsSlot EXCEPT ![i].rmap = m]
    BY <1>7 DEF memslot_rmap_alloc, AllocFails
  <2>2. /\ slotsLock = Mapper /\ i \in todo /\ slotsSlot[i].present
        /\ have_rmaps = FALSE /\ have_rmaps' = have_rmaps
        /\ UNCHANGED <<change, logging, slotsReqs, pml>>
    BY <1>7 DEF memslot_rmap_alloc, AllocFails, SlotsInv, SlotTypes, Rmapped, Mapper
  <2>3. /\ slotsSlot' \in [Ids -> Slot]
        /\ \A j \in Ids : j # i => slotsSlot'[j] = slotsSlot[j]
        /\ slotsSlot'[i].rmap = m
        /\ slotsSlot'[i].present = slotsSlot[i].present /\ slotsSlot'[i].log = slotsSlot[i].log
    BY <2>1 DEF SlotsInv, SlotTypes, Slot
  <2>11. \A j \in Ids : (slotsSlot'[j].present <=> slotsSlot[j].present) /\ (slotsSlot'[j].log <=> slotsSlot[j].log)
    BY <2>3, Zenon
  <2>4. SlotTypes'
    <3>1. \A j \in Ids : ~slotsSlot'[j].present => slotsSlot'[j] = Absent
      BY <2>2, <2>3, <2>11 DEF SlotsInv, SlotTypes
    <3>2. slotsLock' \in {"none", Mapper} /\ todo' \subseteq Ids
      BY <1>7 DEF memslot_rmap_alloc, AllocFails, SlotsInv, SlotTypes
    <3>3. QED
      BY <2>2, <2>3, <3>1, <3>2 DEF SlotsInv, SlotTypes
  <2>5. ASSUME memslot_rmap_alloc(i) PROVE Rmapped'
    <3>1. m = Levels \/ slotsSlot'[i].rmap = Levels
      BY <2>5 DEF memslot_rmap_alloc, SlotsInv, SlotTypes, Slot
    <3>2. QED
      BY <2>2, <2>3, <2>11, <2>5, <3>1 DEF memslot_rmap_alloc, SlotsInv, Rmapped, RmapsComplete
  <2>6. ASSUME AllocFails(i) PROVE Rmapped'
    BY <2>2, <2>6 DEF AllocFails, Rmapped, RmapsComplete, Mapper
  <2>7. LogsBefore' = LogsBefore
    BY <2>2, <2>11, Zenon DEF LogsBefore, Logs
  <2>8. LogCount'
    BY <2>2, <2>7 DEF SlotsInv, LogCount
  <2>9. Rmapped'
    BY <1>7, <2>5, <2>6
  <2>10. QED
    BY <2>4, <2>8, <2>9 DEF SlotsInv
<1>8. CASE AllocDone
  <2>1. SlotTypes' /\ Rmapped'
    BY <1>8 DEF AllocDone, SlotsInv, SlotTypes, Rmapped, RmapsComplete, Mapper
  <2>2. LogCount'
    BY <1>8 DEF AllocDone, SlotsInv, LogCount, LogsBefore, Logs
  <2>3. QED
    BY <2>1, <2>2 DEF SlotsInv
<1>9. ASSUME NEW v \in SlotsVcpus, UpdateCpuDirtyLogging(v) PROVE SlotsInv'
  <2>1. SlotTypes' /\ Rmapped'
    BY <1>9 DEF UpdateCpuDirtyLogging, SlotsInv, SlotTypes, Rmapped, RmapsComplete
  <2>2. LogsBefore' = LogsBefore
    BY <1>9 DEF UpdateCpuDirtyLogging, LogsBefore, Logs
  <2>3. LogCount'
    BY <1>9, <2>2 DEF UpdateCpuDirtyLogging, SlotsInv, SlotTypes, LogCount
  <2>4. QED
    BY <2>1, <2>3 DEF SlotsInv
<1>10. QED
  BY <1>1, <1>2, <1>3, <1>4, <1>5, <1>6, <1>7, <1>8, <1>9 DEF SlotsNext

\* A page of w frames that is not ruled out: with the ends of the slot aligned
\* or ruled out, and host and guest frames aligned alike, it is inside.
LEMMA Pages2 ==
    ASSUME NEW b \in Nat, NEW n \in Nat \ {0}, NEW h \in Nat, NEW p \in Nat,
           p <= ((b + n - 1) \div 2) - (b \div 2), b % 2 = h % 2,
           b % 2 # 0 => p # 0,
           (b + n) % 2 # 0 => p # ((b + n - 1) \div 2) - (b \div 2)
    PROVE  /\ ((b \div 2) + p) * 2 >= b /\ ((b \div 2) + p) * 2 + 2 <= b + n
           /\ (h + (((b \div 2) + p) * 2 - b)) % 2 = 0
  OBVIOUS

LEMMA Pages4 ==
    ASSUME NEW b \in Nat, NEW n \in Nat \ {0}, NEW h \in Nat, NEW p \in Nat,
           p <= ((b + n - 1) \div 4) - (b \div 4), b % 4 = h % 4,
           b % 4 # 0 => p # 0,
           (b + n) % 4 # 0 => p # ((b + n - 1) \div 4) - (b \div 4)
    PROVE  /\ ((b \div 4) + p) * 4 >= b /\ ((b \div 4) + p) * 4 + 4 <= b + n
           /\ (h + (((b \div 4) + p) * 4 - b)) % 4 = 0
  OBVIOUS

LEMMA SlotPages ==
    ASSUME NEW s \in Slot, NEW l \in {2, 3}, NEW p \in (0 .. lpages(s, l) - 1) \ disallow_lpage(s, l)
    PROVE  LET first == ((s.base \div Frames(l)) + p) * Frames(l)
           IN  /\ first >= s.base /\ first + Frames(l) <= s.base + s.n
               /\ (s.hva + (first - s.base)) % Frames(l) = 0
<1>0. s.base \in Nat /\ s.n \in Nat \ {0} /\ s.hva \in Nat
  BY DEF Slot
<1>1. CASE l = 2
  <2>1. Frames(l) = 2
    BY <1>1 DEF Frames
  <2>2. p \in Nat /\ p <= ((s.base + s.n - 1) \div 2) - (s.base \div 2)
    BY <1>0, <2>1 DEF lpages, Index
  <2>3. s.base % 2 = s.hva % 2 /\ p \notin Ends(s, l)
    BY <1>0, <2>1 DEF disallow_lpage
  <2>4. /\ s.base % 2 # 0 => p # 0
        /\ (s.base + s.n) % 2 # 0 => p # ((s.base + s.n - 1) \div 2) - (s.base \div 2)
    BY <1>0, <2>1, <2>2, <2>3 DEF Ends, lpages, Index
  <2>5. QED
    BY <1>0, <2>1, <2>2, <2>3, <2>4, Pages2
<1>2. CASE l = 3
  <2>1. Frames(l) = 4
    BY <1>2 DEF Frames
  <2>2. p \in Nat /\ p <= ((s.base + s.n - 1) \div 4) - (s.base \div 4)
    BY <1>0, <2>1 DEF lpages, Index
  <2>3. s.base % 4 = s.hva % 4 /\ p \notin Ends(s, l)
    BY <1>0, <2>1 DEF disallow_lpage
  <2>4. /\ s.base % 4 # 0 => p # 0
        /\ (s.base + s.n) % 4 # 0 => p # ((s.base + s.n - 1) \div 4) - (s.base \div 4)
    BY <1>0, <2>1, <2>2, <2>3 DEF Ends, lpages, Index
  <2>5. QED
    BY <1>0, <2>1, <2>2, <2>3, <2>4, Pages4
<1>3. QED
  BY <1>1, <1>2

LEMMA SlotsInvExact ==
    SlotsInv => SlotsTypeOK /\ RmapsComplete /\ LargePagesFit /\ LoggingFollows
<1> SUFFICES ASSUME SlotsInv PROVE SlotsTypeOK /\ RmapsComplete /\ LargePagesFit /\ LoggingFollows
  OBVIOUS
<1>1. SlotsTypeOK
  BY DEF SlotsInv, SlotTypes, SlotsTypeOK, Slot
<1>2. RmapsComplete
  BY DEF SlotsInv, Rmapped
<1>3. LargePagesFit
  BY SlotPages DEF SlotsInv, SlotTypes, LargePagesFit
<1>4. LoggingFollows
  BY DEF SlotsInv, LogCount, LoggingFollows, LogsBefore, Logs
<1>5. QED
  BY <1>1, <1>2, <1>3, <1>4

-----------------------------------------------------------------------------
(* Kept roots.                                                             *)

Earlier(kept) ==
    /\ kept \in Seq(Cr3s) /\ Len(kept) <= NPrev
    /\ \A j, k \in 1..Len(kept) : kept[j] = kept[k] => j = k

PcidTypes ==
    /\ mem \in [Pgds -> 0..MaxVersion]
    /\ pcidCr3 \in Cr3s /\ pcide \in BOOLEAN
    /\ Earlier(prev) /\ pcidCr3 \notin Range(prev)
    /\ shadow \in [Cr3s -> Nat] /\ pcidOwed \in [Cr3s -> Nat]
    /\ pcidReqs \subseteq {"sync", "guest"} /\ running \in BOOLEAN

\* What the guest may rely on is in its tables, so that a root that is
\* synchronised has it; a root in use that has not is about to be, and a root
\* kept for later has it unless everything is about to be flushed.
Roots ==
    /\ \A r \in Cr3s : shadow[r] # PcidNone => r = pcidCr3 \/ r \in Range(prev)
    /\ \A r \in Cr3s : pcidOwed[r] <= mem[r[1]]
    /\ KeptRootsAreCurrent
    /\ pcidReqs = {} /\ shadow[pcidCr3] # PcidNone => shadow[pcidCr3] >= pcidOwed[pcidCr3]
    /\ running => pcidReqs = {} /\ shadow[pcidCr3] # PcidNone

PcidInv == PcidTypes /\ Roots

LEMMA Cr3Table == \A r \in Cr3s : r[1] \in Pgds /\ r[2] \in Pcids
  BY DEF Cr3s

LEMMA EarlierRange == \A kept \in Seq(Cr3s) : Range(kept) = {kept[j] : j \in 1..Len(kept)}
  BY DEF Range

LEMMA PcidInitInv == PcidInit => PcidInv
<1> SUFFICES ASSUME PcidInit PROVE PcidInv
  OBVIOUS
<1>1. pcidCr3 \in Cr3s
  BY PcidAssumption DEF PcidInit, Cr3s
<1>2. prev = <<>> /\ Range(prev) = {} /\ Earlier(prev)
  BY PcidAssumption DEF PcidInit, Range, Earlier
<1>3. PcidTypes
  <2>1. /\ mem \in [Pgds -> 0..MaxVersion] /\ shadow \in [Cr3s -> Nat] /\ pcidOwed \in [Cr3s -> Nat]
    BY PcidAssumption DEF PcidInit, PcidNone
  <2>2. pcidReqs = {} /\ running = FALSE /\ pcide = FALSE
    BY DEF PcidInit
  <2>3. QED
    BY <1>1, <1>2, <2>1, <2>2 DEF PcidTypes
<1>4. Roots
  BY <1>1, <1>2, Cr3Table DEF PcidInit, Roots, KeptRootsAreCurrent
<1>5. QED
  BY <1>3, <1>4 DEF PcidInv

\* The roots that are kept when r comes into use: the one in use so far, and
\* the earlier ones without r.
LEMMA NewPrevKept ==
    ASSUME PcidTypes, NEW r \in Cr3s, r # pcidCr3
    PROVE  Earlier(NewPrev(r)) /\ Range(NewPrev(r)) \subseteq (Range(prev) \cup {pcidCr3}) \ {r}
<1>0. prev \in Seq(Cr3s) /\ Len(prev) \in Nat /\ Len(prev) <= NPrev /\ NPrev \in Nat /\ pcidCr3 \in Cr3s
      /\ DOMAIN prev = 1..Len(prev)
  BY PcidAssumption DEF PcidTypes, Earlier
<1>1. \A j, k \in 1..Len(prev) : prev[j] = prev[k] => j = k
  BY DEF PcidTypes, Earlier
<1>2. Range(prev) = {prev[j] : j \in 1..Len(prev)} /\ pcidCr3 \notin Range(prev)
  BY <1>0, EarlierRange DEF PcidTypes
<1>3. CASE r \in Range(prev)
  <2> DEFINE k == CHOOSE j \in DOMAIN prev : prev[j] = r
             kept == NewPrev(r)
  <2>1. k \in 1..Len(prev) /\ prev[k] = r
    BY <1>0, <1>2, <1>3
  <2> HIDE DEF k
  <2>2. kept = [j \in 1..Len(prev) |-> IF j <= k THEN Shifted(k)[j] ELSE prev[j]]
    BY <1>3 DEF NewPrev, k
  <2>3. \A j \in 1..Len(prev) : kept[j] = IF j = 1 THEN pcidCr3 ELSE IF j <= k THEN prev[j - 1] ELSE prev[j]
    BY <2>1, <2>2 DEF Shifted
  <2> HIDE DEF kept
  <2>4. \A j \in 1..Len(prev) : kept[j] \in Cr3s /\ kept[j] \in (Range(prev) \cup {pcidCr3}) \ {r}
    BY <1>0, <1>1, <1>2, <2>1, <2>3
  <2>5. kept \in Seq(Cr3s) /\ Len(kept) = Len(prev)
    BY <1>0, <2>2, <2>4
  <2>6. \A j, i \in 1..Len(prev) : kept[j] = kept[i] => j = i
    BY <1>0, <1>1, <1>2, <2>1, <2>3
  <2>7. Range(kept) \subseteq (Range(prev) \cup {pcidCr3}) \ {r}
    BY <2>4, <2>5, EarlierRange
  <2>8. QED
    BY <1>0, <2>5, <2>6, <2>7 DEF Earlier, kept
<1>4. CASE r \notin Range(prev)
  <2> DEFINE n == IF Len(prev) < NPrev THEN Len(prev) + 1 ELSE NPrev
             kept == NewPrev(r)
  <2>1. n \in Nat /\ n <= NPrev /\ n <= Len(prev) + 1
    BY <1>0
  <2>2. kept = [j \in 1..n |-> IF j = 1 THEN pcidCr3 ELSE prev[j - 1]]
    BY <1>4 DEF NewPrev, Shifted
  <2> HIDE DEF n, kept
  <2>3. \A j \in 1..n : kept[j] \in Cr3s /\ kept[j] \in (Range(prev) \cup {pcidCr3}) \ {r}
    BY <1>0, <1>2, <1>4, <2>1, <2>2
  <2>4. kept \in Seq(Cr3s) /\ Len(kept) = n
    BY <2>1, <2>2, <2>3
  <2>5. \A j, i \in 1..n : kept[j] = kept[i] => j = i
    BY <1>0, <1>1, <1>2, <2>1, <2>2
  <2>6. Range(kept) \subseteq (Range(prev) \cup {pcidCr3}) \ {r}
    BY <2>3, <2>4, EarlierRange
  <2>7. QED
    BY <2>1, <2>4, <2>5, <2>6 DEF Earlier, kept
<1>5. QED
  BY <1>3, <1>4

LEMMA SetCr3Inv ==
    ASSUME PcidInv, NEW r \in Cr3s, NEW noflush \in BOOLEAN, kvm_set_cr3_pcid(r, noflush)
    PROVE  PcidInv'
<1> DEFINE kept == IF r = pcidCr3 THEN prev ELSE NewPrev(r)
           sh == IF r = pcidCr3 THEN shadow ELSE NewShadow(r)
<1>1. /\ running = TRUE /\ running' = FALSE /\ pcidCr3' = r /\ prev' = kept /\ UNCHANGED <<mem, pcide>>
      /\ \/ shadow' = sh /\ pcidReqs' = pcidReqs /\ pcidOwed' = pcidOwed
         \/ shadow' = FreeIn(sh, Invalidated(kept, Pcid(r))) /\ pcidReqs' = pcidReqs \cup {"sync"} /\ Owe({Pcid(r)})
  BY DEF kvm_set_cr3_pcid, SetCr3, Skips, PcidInv, PcidTypes
<1>2. /\ pcidReqs = {} /\ shadow[pcidCr3] # PcidNone /\ shadow[pcidCr3] >= pcidOwed[pcidCr3]
      /\ \A q \in Range(prev) : shadow[q] # PcidNone => shadow[q] >= pcidOwed[q]
  BY <1>1 DEF PcidInv, Roots, KeptRootsAreCurrent
<1>3. Earlier(kept) /\ r \notin Range(kept) /\ Range(kept) \subseteq Range(prev) \cup {pcidCr3}
  BY NewPrevKept DEF PcidInv, PcidTypes
<1>4. /\ sh \in [Cr3s -> Nat]
      /\ \A q \in Cr3s : sh[q] # PcidNone => sh[q] = shadow[q] /\ (q = r \/ q \in Range(kept))
      /\ sh[r] # PcidNone => r = pcidCr3 \/ r \in Range(prev)
  <2>1. CASE r = pcidCr3
    BY <2>1 DEF PcidInv, PcidTypes, Roots
  <2>2. CASE r # pcidCr3
    BY <2>2, PcidAssumption DEF NewShadow, Free, PcidInv, PcidTypes, PcidNone
  <2>3. QED
    BY <2>1, <2>2
<1>5. Range(prev) \subseteq Cr3s /\ Range(kept) \subseteq Cr3s
  <2>1. ASSUME NEW l, Earlier(l) PROVE Range(l) \subseteq Cr3s
    BY <2>1, EarlierRange DEF Earlier
  <2>2. Earlier(prev) /\ Earlier(kept)
    BY <1>3 DEF PcidInv, PcidTypes
  <2>3. QED
    BY <2>1, <2>2
<1>6. \A q \in Cr3s : (q = r \/ q \in Range(kept)) /\ sh[q] # PcidNone => sh[q] >= pcidOwed[q]
  BY <1>2, <1>3, <1>4, <1>5
<1> HIDE DEF kept, sh
<1>7. CASE shadow' = sh /\ pcidReqs' = pcidReqs /\ pcidOwed' = pcidOwed
  <2>1. PcidTypes'
    BY <1>1, <1>3, <1>4, <1>7 DEF PcidInv, PcidTypes
  <2>2. Roots'
    BY <1>1, <1>2, <1>4, <1>5, <1>6, <1>7 DEF PcidInv, Roots, KeptRootsAreCurrent
  <2>3. QED
    BY <2>1, <2>2 DEF PcidInv
<1>8. CASE shadow' = FreeIn(sh, Invalidated(kept, Pcid(r))) /\ pcidReqs' = pcidReqs \cup {"sync"} /\ Owe({Pcid(r)})
  <2>1. pcidOwed' \in [Cr3s -> Nat] /\ shadow' \in [Cr3s -> Nat]
    BY <1>4, <1>8, Cr3Table, PcidAssumption DEF Owe, FreeIn, PcidNone, PcidInv, PcidTypes
  <2>2. PcidTypes'
    BY <1>1, <1>2, <1>3, <1>8, <2>1 DEF PcidInv, PcidTypes
  <2>3. \A q \in Cr3s : pcidOwed'[q] <= mem'[q[1]]
    BY <1>1, <1>8, Cr3Table DEF Owe, PcidInv, PcidTypes, Roots
  <2>4. ASSUME NEW q \in Cr3s, shadow'[q] # PcidNone
        PROVE  sh[q] # PcidNone /\ shadow'[q] = sh[q] /\ (q \in Range(kept) => pcidOwed'[q] = pcidOwed[q])
    BY <1>8, <2>4 DEF FreeIn, Invalidated, Owe
  <2>5. Roots'
    BY <1>1, <1>2, <1>4, <1>5, <1>6, <1>8, <2>3, <2>4 DEF Roots, KeptRootsAreCurrent
  <2>6. QED
    BY <2>2, <2>5 DEF PcidInv
<1>9. QED
  BY <1>1, <1>7, <1>8

LEMMA PcidStepInv == PcidInv /\ [PcidNext]_pcidVars => PcidInv'
<1> SUFFICES ASSUME PcidInv, [PcidNext]_pcidVars PROVE PcidInv'
  OBVIOUS
<1>0. Range(prev) \subseteq Cr3s
  BY EarlierRange DEF Earlier, PcidInv, PcidTypes
<1>1. CASE UNCHANGED pcidVars
  BY <1>1 DEF pcidVars, PcidInv, PcidTypes, Earlier, Roots, KeptRootsAreCurrent
<1>2. ASSUME NEW p \in Pgds, PcidWriteTable(p) PROVE PcidInv'
  <2>1. mem' \in [Pgds -> 0..MaxVersion] /\ \A q \in Pgds : mem'[q] >= mem[q]
    BY <1>2, PcidAssumption DEF PcidWriteTable, PcidInv, PcidTypes
  <2>2. PcidTypes'
    BY <1>2, <2>1 DEF PcidWriteTable, PcidInv, PcidTypes
  <2>3. \A r \in Cr3s : pcidOwed'[r] <= mem'[r[1]]
    BY <1>2, <2>1, Cr3Table DEF PcidWriteTable, PcidInv, PcidTypes, Roots
  <2>4. Roots'
    BY <1>2, <2>3 DEF PcidWriteTable, PcidInv, Roots, KeptRootsAreCurrent
  <2>5. QED
    BY <2>2, <2>4 DEF PcidInv
<1>3. ASSUME NEW r \in Cr3s, NEW n \in BOOLEAN, kvm_set_cr3_pcid(r, n) PROVE PcidInv'
  BY <1>3, SetCr3Inv
<1>4. ASSUME NEW P, Owe(P), UNCHANGED <<mem, pcidCr3>>
      PROVE  pcidOwed' \in [Cr3s -> Nat] /\ \A r \in Cr3s : pcidOwed'[r] <= mem'[r[1]]
  BY <1>4, Cr3Table DEF Owe, PcidInv, PcidTypes, Roots
<1>5. ASSUME NEW on \in BOOLEAN, SetPcide(on) PROVE PcidInv'
  <2>1. CASE on
    BY <1>5, <2>1 DEF SetPcide, PcidInv, PcidTypes, Roots, KeptRootsAreCurrent
  <2>2. CASE ~on
    <3>1. /\ shadow' = Free(Cr3s) /\ prev' = <<>> /\ Owe(Pcids) /\ pcide' = FALSE /\ running' = FALSE
          /\ UNCHANGED <<mem, pcidCr3, pcidReqs>>
      BY <1>5, <2>2 DEF SetPcide, OffFrees
    <3>2. Range(prev') = {} /\ Earlier(prev')
      BY <3>1, PcidAssumption DEF Range, Earlier
    <3>3. shadow' \in [Cr3s -> Nat] /\ \A r \in Cr3s : shadow'[r] = PcidNone
      BY <3>1, PcidAssumption DEF Free, PcidNone
    <3>4. PcidTypes'
      BY <1>4, <3>1, <3>2, <3>3 DEF PcidInv, PcidTypes
    <3>5. Roots'
      BY <1>4, <3>1, <3>2, <3>3 DEF PcidInv, PcidTypes, Roots, KeptRootsAreCurrent
    <3>6. QED
      BY <3>4, <3>5 DEF PcidInv
  <2>3. QED
    BY <2>1, <2>2
<1>6. ASSUME NEW p \in Pcids, InvpcidSingle(p) PROVE PcidInv'
  <2>1. /\ running = TRUE /\ running' = FALSE /\ shadow' = Free(Invalidated(prev, p)) /\ Owe({p})
        /\ pcidReqs' = IF Pcid(pcidCr3) = p THEN pcidReqs \cup {"sync"} ELSE pcidReqs
        /\ UNCHANGED <<mem, pcidCr3, pcide, prev>> /\ pcidReqs = {}
    BY <1>6 DEF InvpcidSingle, PcidInv, PcidTypes, Roots
  <2>2. shadow' \in [Cr3s -> Nat]
    BY <2>1, PcidAssumption DEF Free, PcidNone, PcidInv, PcidTypes
  <2>3. PcidTypes'
    BY <1>4, <2>1, <2>2 DEF PcidInv, PcidTypes
  <2>4. ASSUME NEW q \in Cr3s, shadow'[q] # PcidNone
        PROVE  shadow'[q] = shadow[q] /\ (q \in Range(prev) => pcidOwed'[q] = pcidOwed[q])
    BY <2>1, <2>4 DEF Free, Invalidated, Owe
  <2>5. Pcid(pcidCr3) # p => pcidOwed'[pcidCr3] = pcidOwed[pcidCr3]
    BY <2>1 DEF Owe, PcidInv, PcidTypes
  <2>6. pcidCr3 \in Cr3s
    BY DEF PcidInv, PcidTypes
  <2>7. Roots'
    BY <1>0, <1>4, <2>1, <2>4, <2>5, <2>6 DEF PcidInv, Roots, KeptRootsAreCurrent
  <2>8. QED
    BY <2>3, <2>7 DEF PcidInv
<1>7. CASE InvpcidAll
  <2>1. PcidTypes'
    BY <1>4, <1>7 DEF InvpcidAll, PcidInv, PcidTypes
  <2>2. Roots'
    BY <1>4, <1>7 DEF InvpcidAll, PcidInv, Roots, KeptRootsAreCurrent
  <2>3. QED
    BY <2>1, <2>2 DEF PcidInv
<1>8. CASE PcidEnter
  <2> DEFINE sh == IF "guest" \in pcidReqs THEN Free(GuestFrees) ELSE shadow
             cur == IF "sync" \in pcidReqs \/ sh[pcidCr3] = PcidNone THEN mem[pcidCr3[1]] ELSE sh[pcidCr3]
  <2>1. /\ running' = TRUE /\ pcidReqs' = {} /\ UNCHANGED <<mem, pcidCr3, pcide, prev, pcidOwed>>
        /\ shadow' = [sh EXCEPT ![pcidCr3] = cur]
    BY <1>8 DEF PcidEnter
  <2>2. sh \in [Cr3s -> Nat] /\ \A q \in Cr3s : sh[q] # PcidNone => sh[q] = shadow[q] /\ "guest" \notin pcidReqs
    BY PcidAssumption DEF Free, GuestFrees, PcidNone, PcidInv, PcidTypes
  <2> HIDE DEF sh
  <2>3. pcidCr3 \in Cr3s /\ mem[pcidCr3[1]] \in 0..MaxVersion
    BY Cr3Table DEF PcidInv, PcidTypes
  <2>4. cur \in Nat /\ cur # PcidNone /\ cur >= pcidOwed[pcidCr3]
    BY <2>2, <2>3, PcidAssumption DEF PcidNone, PcidInv, PcidTypes, Roots
  <2> HIDE DEF cur
  <2>5. shadow' \in [Cr3s -> Nat] /\ shadow'[pcidCr3] = cur /\ \A q \in Cr3s : q # pcidCr3 => shadow'[q] = sh[q]
    BY <2>1, <2>2, <2>3, <2>4
  <2>6. PcidTypes'
    BY <2>1, <2>5 DEF PcidInv, PcidTypes
  <2>7. Roots'
    BY <1>0, <2>1, <2>2, <2>3, <2>4, <2>5 DEF PcidInv, PcidTypes, Roots, KeptRootsAreCurrent
  <2>8. QED
    BY <2>6, <2>7 DEF PcidInv
<1>9. QED
  BY <1>1, <1>2, <1>3, <1>5, <1>6, <1>7, <1>8 DEF PcidNext

LEMMA PcidInvExact == PcidInv => PcidTypeOK /\ FlushedIsGone /\ KeptRootsAreCurrent
  BY DEF PcidInv, PcidTypes, Earlier, Roots, PcidTypeOK, FlushedIsGone

-----------------------------------------------------------------------------
(* Port I/O.                                                               *)

\* Items from + 1 to from + n of the instruction under way.
ItemsOf(no, from, n) == [k \in 1..n |-> <<no, from + k>>]

\* What the guest has got, and a device has seen, of the first n items.
GotOf(n) == IF pioInsn.in THEN ItemsOf(pioInsn.no, 0, n) ELSE <<>>
SeenOf(n) == IF pioInsn.in THEN <<>> ELSE ItemsOf(pioInsn.no, 0, n)

PioTypes ==
    /\ pioPc \in {"guest", "begin", "exit", "resume"}
    /\ pioInsn \in [no : Nat, kind : Kinds \cup {"none"}, in : BOOLEAN, items : 0..MaxItems,
                    port : {"0x7e", "other"}]
    /\ pioRip \in Nat /\ linear \in Nat /\ skips \in Nat /\ moved \in BOOLEAN
    /\ pio.count \in 0..MaxItems /\ pio = [count |-> pio.count, in |-> pio.in, data |-> pio.data]
    /\ sev \in [count : 0..MaxItems, at : 0..MaxItems]
    /\ pioPc # "guest" => pioInsn.kind \in Kinds
    /\ pioInsn.kind = "fast" => pioInsn.items = 1
    /\ pioInsn.kind # "fast" => moved = FALSE
    /\ pioInsn.kind = "sev" => sev.at + sev.count = pioInsn.items

PioGuest ==
    pioPc = "guest" =>
      /\ pio.count = 0 /\ callback = "none" /\ SkippedOnce
      /\ pioInsn.kind # "none" /\ moved = FALSE => got = GotOf(pioInsn.items) /\ pioSeen = SeenOf(pioInsn.items)

PioBegun ==
    pioPc = "begin" =>
      /\ pio.count = 0 /\ callback = "none" /\ moved = FALSE /\ skips = 0
      /\ pioInsn.kind = "sev" => got = GotOf(sev.at) /\ pioSeen = SeenOf(sev.at)
      /\ pioInsn.kind # "sev" => got = <<>> /\ pioSeen = <<>>

\* The items of an OUT that userspace has been shown are those it was handed.
UserServed(n) ==
    /\ pioInsn.in = TRUE => pioSeen = <<>> /\ (pioPc = "resume" => pio.data = ItemsOf(pioInsn.no, 0, n))
    /\ pioInsn.in = FALSE => /\ pioPc = "exit" => pioSeen = <<>> /\ pio.data = ItemsOf(pioInsn.no, 0, n)
                             /\ pioPc = "resume" => pioSeen = ItemsOf(pioInsn.no, 0, n)

PioFast ==
    pioPc \in {"exit", "resume"} /\ pioInsn.kind = "fast" =>
      /\ pio.count = 1 /\ got = <<>> /\ UserServed(1)
      /\ callback = IF pioInsn.in THEN "in" ELSE IF Quirk THEN "out7e" ELSE "out"
      /\ Quirk => skips = 1
      /\ ~Quirk => skips = 0 /\ (moved = FALSE => pioRip = linear) /\ (moved = TRUE => pioRip = linear + 10)

PioEmulated ==
    pioPc \in {"exit", "resume"} /\ pioInsn.kind = "emulated" =>
      /\ got = <<>> /\ UserServed(pioInsn.items)
      /\ pioInsn.in = TRUE => callback = "emulated" /\ pio.count = pioInsn.items /\ skips = 0
      /\ pioInsn.in = FALSE => callback = "none" /\ pio.count = 0 /\ skips = 1

PioSev ==
    pioPc \in {"exit", "resume"} /\ pioInsn.kind = "sev" =>
      /\ skips = 0
      /\ pioInsn.in = TRUE =>
           /\ callback = "sevin" /\ pio.count \in 0..sev.count /\ got = ItemsOf(pioInsn.no, 0, sev.at) /\ pioSeen = <<>>
           /\ pioPc = "resume" => pio.data = ItemsOf(pioInsn.no, sev.at, pio.count)
      /\ pioInsn.in = FALSE =>
           /\ callback = "sevout" /\ got = <<>>
           /\ pioPc = "exit" => /\ pio.count \in 0..sev.at
                                /\ pioSeen = ItemsOf(pioInsn.no, 0, sev.at - pio.count)
                                /\ pio.data = ItemsOf(pioInsn.no, sev.at - pio.count, pio.count)
           /\ pioPc = "resume" => pioSeen = ItemsOf(pioInsn.no, 0, sev.at)

PioInv == PioTypes /\ PioGuest /\ PioBegun /\ PioFast /\ PioEmulated /\ PioSev

LEMMA ItemsJoin ==
    ASSUME NEW no, NEW a \in Nat, NEW c \in Nat
    PROVE  ItemsOf(no, 0, a) \o ItemsOf(no, a, c) = ItemsOf(no, 0, a + c)
<1> DEFINE x == ItemsOf(no, 0, a)  y == ItemsOf(no, a, c)
<1>1. x \in Seq({<<no, k>> : k \in Nat}) /\ Len(x) = a /\ \A k \in 1..a : x[k] = <<no, k>>
  BY DEF ItemsOf
<1>2. y \in Seq({<<no, k>> : k \in Nat}) /\ Len(y) = c /\ \A k \in 1..c : y[k] = <<no, a + k>>
  BY DEF ItemsOf
<1> HIDE DEF x, y
<1> DEFINE z == x \o y
<1>3. /\ z \in Seq({<<no, k>> : k \in Nat}) /\ Len(z) = a + c
      /\ \A k \in 1..(a + c) : z[k] = IF k <= a THEN x[k] ELSE y[k - a]
  BY <1>1, <1>2, ConcatProperties
<1> HIDE DEF z
<1>4. ASSUME NEW k \in 1..(a + c) PROVE z[k] = <<no, 0 + k>>
  <2>1. CASE k <= a
    BY <1>1, <1>3, <2>1
  <2>2. CASE k > a
    <3>1. k - a \in 1..c /\ a + (k - a) = 0 + k
      BY <2>2
    <3>2. QED
      BY <1>2, <1>3, <2>2, <3>1
  <2>3. QED
    BY <2>1, <2>2
<1>5. z = [k \in 1..(a + c) |-> <<no, 0 + k>>]
  BY <1>3, <1>4
<1>6. QED
  BY <1>5 DEF ItemsOf, x, y, z

LEMMA NoItems == \A no : ItemsOf(no, 0, 0) = <<>> /\ \A n \in Nat : <<>> \o ItemsOf(no, 0, n) = ItemsOf(no, 0, n)
<1> SUFFICES ASSUME NEW no PROVE ItemsOf(no, 0, 0) = <<>> /\ \A n \in Nat : <<>> \o ItemsOf(no, 0, n) = ItemsOf(no, 0, n)
  OBVIOUS
<1>1. ItemsOf(no, 0, 0) = <<>>
  BY DEF ItemsOf
<1>2. ASSUME NEW n \in Nat PROVE ItemsOf(no, 0, 0) \o ItemsOf(no, 0, n) = ItemsOf(no, 0, n)
  <2>1. ItemsOf(no, 0, 0) \o ItemsOf(no, 0, n) = ItemsOf(no, 0, 0 + n)
    BY ItemsJoin
  <2>2. QED
    BY <2>1
<1>3. QED
  BY <1>1, <1>2

LEMMA PioInitInv == PioInit => PioInv
<1> SUFFICES ASSUME PioInit PROVE PioInv
  OBVIOUS
<1>1. PioTypes
  <2>1. pioInsn = [no |-> 0, kind |-> "none", in |-> FALSE, items |-> 0, port |-> "other"]
    BY DEF PioInit
  <2>2. pioInsn \in [no : Nat, kind : Kinds \cup {"none"}, in : BOOLEAN, items : 0..MaxItems,
                     port : {"0x7e", "other"}]
    BY <2>1, PioAssumption
  <2>3. /\ pio.count = 0 /\ pio = [count |-> pio.count, in |-> pio.in, data |-> pio.data]
        /\ sev \in [count : 0..MaxItems, at : 0..MaxItems]
    BY PioAssumption DEF PioInit, NoPio, NoSev
  <2>4. /\ pioPc = "guest" /\ pioRip = 0 /\ linear = 0 /\ skips = 0 /\ moved = FALSE
        /\ pioInsn.kind = "none" /\ pio.count \in 0..MaxItems
    BY <2>1, <2>3, PioAssumption DEF PioInit
  <2>5. QED
    BY <2>2, <2>3, <2>4 DEF PioTypes
<1>2. PioGuest
  BY PioAssumption DEF PioInit, PioGuest, SkippedOnce, NoPio
<1>3. QED
  BY <1>1, <1>2 DEF PioInit, PioInv, PioBegun, PioFast, PioEmulated, PioSev

LEMMA PioItems == ASSUME NEW a, NEW n PROVE Items(a, n) = ItemsOf(pioInsn.no, a, n)
  BY DEF Items, ItemsOf

\* An instruction's steps leave it and the types of the rest as they are.
LEMMA PioTypesKept ==
    ASSUME PioTypes, pioInsn' = pioInsn, pioPc' \in {"guest", "begin", "exit", "resume"}, pioPc # "guest",
           UNCHANGED <<pioRip, linear, skips, moved>>,
           pio'.count \in 0..MaxItems, pio' = [count |-> pio'.count, in |-> pio'.in, data |-> pio'.data],
           sev' \in [count : 0..MaxItems, at : 0..MaxItems],
           pioInsn.kind = "sev" => sev'.at + sev'.count = pioInsn.items
    PROVE  PioTypes'
  BY DEF PioTypes

LEMMA SevTypes ==
    ASSUME PioTypes, pioInsn.kind = "sev", NEW c \in 0..sev.count
    PROVE  /\ sev.at \in Nat /\ c \in Nat /\ c \in 0..MaxItems /\ sev.at + c \in Nat
           /\ [count |-> sev.count - c, at |-> sev.at + c] \in [count : 0..MaxItems, at : 0..MaxItems]
           /\ sev.at + c + (sev.count - c) = pioInsn.items
<1>1. sev.count \in 0..MaxItems /\ sev.at \in 0..MaxItems /\ pioInsn.items \in 0..MaxItems
      /\ sev.at + sev.count = pioInsn.items
  BY DEF PioTypes
<1>2. MaxItems \in Nat
  BY PioAssumption
<1>3. /\ sev.at \in Nat /\ c \in Nat /\ c \in 0..MaxItems /\ sev.at + c \in 0..MaxItems
      /\ sev.count - c \in 0..MaxItems /\ sev.at + c + (sev.count - c) = pioInsn.items
  BY <1>1, <1>2
<1>4. QED
  BY <1>2, <1>3

LEMMA ChunkBounds == PioTypes => Chunk \in 0..sev.count
  BY PioAssumption DEF PioTypes, Chunk

LEMMA SevKernelInv == PioInv /\ SevKernel => PioInv'
<1> SUFFICES ASSUME PioInv, SevKernel PROVE PioInv'
  OBVIOUS
<1> DEFINE c == Chunk  no == pioInsn.no
<1>1. /\ PioTypes /\ pioPc = "begin" /\ pioInsn.kind = "sev" /\ moved = FALSE /\ skips = 0 /\ callback = "none"
      /\ got = GotOf(sev.at) /\ pioSeen = SeenOf(sev.at)
  BY DEF SevKernel, PioInv, PioBegun
<1>2. c \in 0..sev.count
  BY <1>1, ChunkBounds
<1>3. /\ UNCHANGED <<pioInsn, pioRip, moved, linear, callback, skips>>
      /\ sev' = [count |-> sev.count - c, at |-> sev.at + c] /\ pio' = NoPio
      /\ pioPc' = IF sev'.count = 0 THEN "guest" ELSE "begin"
      /\ got' = IF pioInsn.in THEN got \o ItemsOf(no, sev.at, c) ELSE got
      /\ pioSeen' = IF pioInsn.in THEN pioSeen ELSE pioSeen \o ItemsOf(no, sev.at, c)
  BY PioItems DEF SevKernel, Advanced
<1> HIDE DEF c
<1>4. sev'.at = sev.at + c /\ sev'.count = sev.count - c
  BY <1>3
<1>5. ItemsOf(no, 0, sev.at) \o ItemsOf(no, sev.at, c) = ItemsOf(no, 0, sev'.at)
  <2>1. sev.at \in Nat /\ c \in Nat
    BY <1>1, <1>2, SevTypes
  <2>2. QED
    BY <1>4, <2>1, ItemsJoin
<1>6. got' = GotOf(sev'.at) /\ pioSeen' = SeenOf(sev'.at)
  BY <1>1, <1>3, <1>5 DEF GotOf, SeenOf
<1>7. pio'.count = 0 /\ pio' = [count |-> pio'.count, in |-> pio'.in, data |-> pio'.data]
  BY <1>3 DEF NoPio
<1>8. sev' \in [count : 0..MaxItems, at : 0..MaxItems] /\ sev'.at + sev'.count = pioInsn.items
  BY <1>1, <1>2, <1>3, <1>4, SevTypes
<1>9. PioTypes'
  <2>1. pio'.count \in 0..MaxItems /\ pioPc' \in {"guest", "begin", "exit", "resume"} /\ pioPc # "guest"
    BY <1>1, <1>3, <1>7, PioAssumption
  <2>2. QED
    BY <1>1, <1>3, <1>7, <1>8, <2>1, PioTypesKept
<1>10. sev'.count = 0 => sev'.at = pioInsn.items
  BY <1>8
<1>11. PioGuest' /\ PioBegun'
  BY <1>1, <1>3, <1>6, <1>7, <1>10 DEF PioGuest, PioBegun, GotOf, SeenOf, SkippedOnce
<1>12. QED
  BY <1>3, <1>9, <1>11 DEF PioInv, PioFast, PioEmulated, PioSev

LEMMA SevExitInv == PioInv /\ SevExit => PioInv'
<1> SUFFICES ASSUME PioInv, SevExit PROVE PioInv'
  OBVIOUS
<1> DEFINE c == Chunk  no == pioInsn.no
<1>1. /\ PioTypes /\ pioPc = "begin" /\ pioInsn.kind = "sev" /\ moved = FALSE /\ skips = 0
      /\ got = GotOf(sev.at) /\ pioSeen = SeenOf(sev.at)
  BY DEF SevExit, PioInv, PioBegun
<1>2. c \in 0..sev.count
  BY <1>1, ChunkBounds
<1>3. /\ UNCHANGED <<pioInsn, pioRip, moved, linear, got, pioSeen, skips>> /\ pioPc' = "exit"
      /\ pio' = [count |-> c, in |-> pioInsn.in, data |-> IF pioInsn.in THEN <<>> ELSE ItemsOf(no, sev.at, c)]
      /\ sev' = IF pioInsn.in THEN sev ELSE [count |-> sev.count - c, at |-> sev.at + c]
      /\ callback' = IF pioInsn.in THEN "sevin" ELSE "sevout"
  BY PioItems DEF SevExit, Advanced
<1> HIDE DEF c
<1>4. pio'.count = c /\ pio' = [count |-> pio'.count, in |-> pio'.in, data |-> pio'.data]
  BY <1>3
<1>5. sev' \in [count : 0..MaxItems, at : 0..MaxItems] /\ sev'.at + sev'.count = pioInsn.items
  <2>1. CASE pioInsn.in
    BY <1>1, <1>3, <2>1 DEF PioTypes
  <2>2. CASE ~pioInsn.in
    <3>1. sev' = [count |-> sev.count - c, at |-> sev.at + c]
      BY <1>3, <2>2
    <3>2. sev'.at = sev.at + c /\ sev'.count = sev.count - c
      BY <3>1
    <3>3. QED
      BY <1>1, <1>2, <3>1, <3>2, SevTypes
  <2>3. QED
    BY <2>1, <2>2
<1>6. PioTypes'
  <2>1. pio'.count \in 0..MaxItems /\ pioPc' \in {"guest", "begin", "exit", "resume"} /\ pioPc # "guest"
    BY <1>1, <1>2, <1>3, <1>4, SevTypes
  <2>2. QED
    BY <1>1, <1>3, <1>4, <1>5, <2>1, PioTypesKept
<1>7. PioSev'
  <2>1. CASE pioInsn.in = TRUE
    BY <1>1, <1>2, <1>3, <1>4, <2>1 DEF PioSev, GotOf, SeenOf
  <2>2. CASE pioInsn.in = FALSE
    <3>1. sev'.at = sev.at + c /\ pio'.data = ItemsOf(no, sev.at, c) /\ callback' = "sevout"
      BY <1>3, <2>2
    <3>2. sev.at \in Nat /\ c \in Nat
      BY <1>1, <1>2, SevTypes
    <3>3. pio'.count \in 0..sev'.at /\ sev'.at - pio'.count = sev.at
      BY <1>4, <3>1, <3>2
    <3>4. QED
      BY <1>1, <1>3, <1>4, <2>2, <3>1, <3>3 DEF PioSev, GotOf, SeenOf
  <2>3. QED
    BY <1>1, <2>1, <2>2 DEF PioTypes
<1>8. QED
  BY <1>1, <1>3, <1>6, <1>7 DEF PioInv, PioGuest, PioBegun, PioFast, PioEmulated

LEMMA SevCompleteInv == PioInv /\ SevComplete => PioInv'
<1> SUFFICES ASSUME PioInv, SevComplete PROVE PioInv'
  OBVIOUS
<1> DEFINE c == pio.count  no == pioInsn.no
<1>1. /\ PioTypes /\ pioPc = "resume" /\ pioInsn.kind = "sev" /\ pioInsn.in \in BOOLEAN
  BY DEF SevComplete, PioInv, PioTypes, PioFast, PioEmulated, Kinds
<1>2. /\ moved = FALSE /\ skips = 0 /\ sev.at + sev.count = pioInsn.items
  BY <1>1 DEF PioInv, PioTypes, PioSev
<1>3. /\ UNCHANGED <<pioInsn, pioRip, moved, linear, pioSeen, skips>> /\ pio' = NoPio /\ callback' = "none"
      /\ pioPc' = IF sev'.count = 0 THEN "guest" ELSE "begin"
  BY DEF SevComplete
<1>4. /\ sev' \in [count : 0..MaxItems, at : 0..MaxItems] /\ sev'.at + sev'.count = pioInsn.items
      /\ got' = GotOf(sev'.at) /\ pioSeen' = SeenOf(sev'.at)
  <2>1. CASE pioInsn.in = TRUE
    <3>1. /\ c \in 0..sev.count /\ got = ItemsOf(no, 0, sev.at) /\ pioSeen = <<>>
          /\ pio.data = ItemsOf(no, sev.at, c) /\ callback = "sevin"
      BY <1>1, <2>1 DEF PioInv, PioSev
    <3>2. sev' = [count |-> sev.count - c, at |-> sev.at + c] /\ got' = ItemsOf(no, 0, sev.at) \o ItemsOf(no, sev.at, c)
      BY <3>1 DEF SevComplete
    <3> HIDE DEF c
    <3>3. sev'.at = sev.at + c /\ sev'.count = sev.count - c
      BY <3>2
    <3>4. got' = ItemsOf(no, 0, sev'.at)
      <4>1. sev.at \in Nat /\ c \in Nat
        BY <1>1, <3>1, SevTypes
      <4>2. QED
        BY <3>2, <3>3, <4>1, ItemsJoin
    <3>5. sev' \in [count : 0..MaxItems, at : 0..MaxItems] /\ sev'.at + sev'.count = pioInsn.items
      BY <1>1, <3>1, <3>2, <3>3, SevTypes
    <3>6. QED
      BY <1>3, <2>1, <3>1, <3>4, <3>5 DEF GotOf, SeenOf
  <2>2. CASE pioInsn.in = FALSE
    <3>1. callback = "sevout" /\ got = <<>> /\ pioSeen = ItemsOf(no, 0, sev.at)
      BY <1>1, <2>2 DEF PioInv, PioSev
    <3>2. sev' = sev /\ got' = got
      BY <3>1 DEF SevComplete
    <3>3. QED
      BY <1>1, <1>2, <1>3, <2>2, <3>1, <3>2 DEF GotOf, SeenOf, PioTypes
  <2>3. QED
    BY <1>1, <2>1, <2>2
<1>5. pio'.count = 0 /\ pio' = [count |-> pio'.count, in |-> pio'.in, data |-> pio'.data]
  BY <1>3 DEF NoPio
<1>6. PioTypes'
  <2>1. pio'.count \in 0..MaxItems /\ pioPc' \in {"guest", "begin", "exit", "resume"} /\ pioPc # "guest"
    BY <1>1, <1>3, <1>5, PioAssumption
  <2>2. QED
    BY <1>1, <1>3, <1>4, <1>5, <2>1, PioTypesKept
<1>7. sev'.count = 0 => sev'.at = pioInsn.items
  BY <1>4
<1>8. PioGuest' /\ PioBegun'
  BY <1>1, <1>2, <1>3, <1>4, <1>5, <1>7 DEF PioGuest, PioBegun, GotOf, SeenOf, SkippedOnce
<1>9. QED
  BY <1>3, <1>6, <1>8 DEF PioInv, PioFast, PioEmulated, PioSev

LEMMA UserServesInv == PioInv /\ UserServes => PioInv'
<1> SUFFICES ASSUME PioInv, UserServes PROVE PioInv'
  OBVIOUS
<1> DEFINE no == pioInsn.no
<1>1. /\ PioTypes /\ pioPc = "exit" /\ pioPc' = "resume" /\ pioInsn.kind \in Kinds /\ pioInsn.in \in BOOLEAN
      /\ UNCHANGED <<pioInsn, pioRip, moved, linear, callback, sev, got, skips>>
      /\ pioInsn.items \in Nat
  BY PioAssumption DEF PioInv, PioTypes, UserServes
<1>2. CASE pioInsn.in = TRUE
  <2>1. /\ pio' = [pio EXCEPT !.data = ItemsOf(no, IF pioInsn.kind = "sev" THEN sev.at ELSE 0, pio.count)]
        /\ pioSeen' = pioSeen
    BY <1>2, PioItems DEF UserServes
  <2>2. /\ pio'.count = pio.count /\ pio' = [count |-> pio'.count, in |-> pio'.in, data |-> pio'.data]
        /\ pio'.data = ItemsOf(no, IF pioInsn.kind = "sev" THEN sev.at ELSE 0, pio.count)
    BY <1>1, <2>1 DEF PioTypes
  <2>3. PioTypes'
    BY <1>1, <2>2 DEF PioTypes
  <2>4. PioFast'
    BY <1>1, <1>2, <2>1, <2>2 DEF PioInv, PioFast, UserServed, Quirk
  <2>5. PioEmulated'
    BY <1>1, <1>2, <2>1, <2>2 DEF PioInv, PioEmulated, UserServed
  <2>6. PioSev'
    BY <1>1, <1>2, <2>1, <2>2 DEF PioInv, PioSev
  <2>7. QED
    BY <1>1, <2>3, <2>4, <2>5, <2>6 DEF PioInv, PioGuest, PioBegun
<1>3. CASE pioInsn.in = FALSE
  <2>1. pio' = pio /\ pioSeen' = pioSeen \o pio.data
    BY <1>3 DEF UserServes
  <2>2. pioInsn.kind = "fast" => pioSeen' = ItemsOf(no, 0, 1)
    BY <1>1, <1>3, <2>1, NoItems DEF PioInv, PioFast, UserServed
  <2>3. pioInsn.kind = "emulated" => pioSeen' = ItemsOf(no, 0, pioInsn.items)
    <3>1. SUFFICES ASSUME pioInsn.kind = "emulated" PROVE pioSeen = <<>> /\ pio.data = ItemsOf(no, 0, pioInsn.items)
      BY <1>1, <2>1, NoItems
    <3>2. QED
      BY <1>1, <1>3, <3>1 DEF PioInv, PioEmulated, UserServed
  <2>4. pioInsn.kind = "sev" => pioSeen' = ItemsOf(no, 0, sev.at)
    <3> SUFFICES ASSUME pioInsn.kind = "sev" PROVE pioSeen' = ItemsOf(no, 0, sev.at)
      OBVIOUS
    <3> DEFINE c == pio.count  a == sev.at - pio.count
    <3>1. /\ c \in 0..sev.at /\ sev.at \in 0..MaxItems
          /\ pioSeen = ItemsOf(no, 0, a) /\ pio.data = ItemsOf(no, a, c)
      BY <1>1, <1>3 DEF PioInv, PioTypes, PioSev
    <3>2. a \in Nat /\ c \in Nat /\ a + c = sev.at
      BY <3>1, PioAssumption
    <3> HIDE DEF a, c
    <3>3. QED
      BY <2>1, <3>1, <3>2, ItemsJoin
  <2>5. PioTypes'
    BY <1>1, <2>1 DEF PioTypes
  <2>6. PioFast'
    BY <1>1, <1>3, <2>1, <2>2 DEF PioInv, PioFast, UserServed, Quirk
  <2>7. PioEmulated'
    BY <1>1, <1>3, <2>1, <2>3 DEF PioInv, PioEmulated, UserServed
  <2>8. PioSev'
    BY <1>1, <1>3, <2>1, <2>4 DEF PioInv, PioSev
  <2>9. QED
    BY <1>1, <2>5, <2>6, <2>7, <2>8 DEF PioInv, PioGuest, PioBegun
<1>4. QED
  BY <1>1, <1>2, <1>3

LEMMA BeginInv ==
    ASSUME PioInv, NEW kind \in Kinds, NEW in \in BOOLEAN, NEW items \in 1..MaxItems,
           NEW port \in {"0x7e", "other"}, Begin(kind, in, items, port)
    PROVE  PioInv'
<1>1. /\ pioPc = "guest" /\ pioPc' = "begin" /\ moved' = FALSE /\ got' = <<>> /\ pioSeen' = <<>> /\ skips' = 0
      /\ UNCHANGED <<pioRip, pio, linear, callback>>
      /\ pioInsn' = [no |-> pioInsn.no + 1, kind |-> kind, in |-> in, items |-> items, port |-> port]
      /\ sev' = IF kind = "sev" THEN [count |-> items, at |-> 0] ELSE sev
      /\ (kind = "fast" => items = 1)
  BY DEF Begin
<1>2. pio.count = 0 /\ callback = "none" /\ PioTypes
  BY <1>1 DEF PioInv, PioGuest
<1>3. pioInsn.no \in Nat
  BY <1>2 DEF PioTypes
<1>4. /\ pioInsn' \in [no : Nat, kind : Kinds \cup {"none"}, in : BOOLEAN, items : 0..MaxItems,
                        port : {"0x7e", "other"}]
      /\ pioInsn'.kind = kind /\ pioInsn'.items = items
  BY <1>1, <1>3
<1>5. sev' \in [count : 0..MaxItems, at : 0..MaxItems] /\ (kind = "sev" => sev'.at = 0 /\ sev'.count = items)
  BY <1>1, <1>2, PioAssumption DEF PioTypes
<1>6. PioTypes'
  <2>1. pioInsn'.kind = "sev" => sev'.at + sev'.count = pioInsn'.items
    BY <1>4, <1>5
  <2>2. pioInsn'.kind = "fast" => pioInsn'.items = 1
    BY <1>1, <1>4
  <2>3. pioRip' \in Nat /\ linear' \in Nat /\ skips' \in Nat /\ moved' \in BOOLEAN
    BY <1>1, <1>2 DEF PioTypes
  <2>4. pio'.count \in 0..MaxItems /\ pio' = [count |-> pio'.count, in |-> pio'.in, data |-> pio'.data]
    BY <1>1, <1>2 DEF PioTypes
  <2>5. QED
    BY <1>1, <1>4, <1>5, <2>1, <2>2, <2>3, <2>4 DEF PioTypes
<1>7. PioBegun'
  BY <1>1, <1>2, <1>4, <1>5, NoItems DEF PioBegun, GotOf, SeenOf
<1>8. QED
  BY <1>1, <1>6, <1>7 DEF PioInv, PioGuest, PioFast, PioEmulated, PioSev

LEMMA PioStepInv == PioInv /\ [PioNext]_pioVars => PioInv'
<1> SUFFICES ASSUME PioInv, [PioNext]_pioVars PROVE PioInv'
  OBVIOUS
<1>1. ASSUME NEW kind \in Kinds, NEW in \in BOOLEAN, NEW items \in 1..MaxItems,
             NEW port \in {"0x7e", "other"}, Begin(kind, in, items, port)
      PROVE  PioInv'
  BY <1>1, BeginInv
<1> USE PioAssumption, PioItems, NoItems DEF PioInv, PioTypes, PioGuest, PioBegun, PioFast, PioEmulated, PioSev,
           GotOf, SeenOf, UserServed, SkippedOnce, Kinds, NoPio, NoSev
<1>2. CASE UNCHANGED pioVars
  BY <1>2 DEF pioVars, Quirk
<1>3. CASE FastKernel
  BY <1>3 DEF FastKernel, Skip, Quirk
<1>4. CASE FastExit
  BY <1>4 DEF FastExit, Skip, NoSkip, Quirk
<1>5. CASE FastComplete
  BY <1>5 DEF FastComplete, Skip, NoSkip, SkipDue, Quirk
<1>6. CASE EmulatedKernel
  BY <1>6 DEF EmulatedKernel, Skip, Quirk
<1>7. CASE EmulatedExit
  BY <1>7 DEF EmulatedExit, Skip, NoSkip, HandedOver, Quirk
<1>8. CASE EmulatedComplete
  BY <1>8 DEF EmulatedComplete, Skip, Quirk
<1>9. CASE ResumeNothing
  BY <1>9 DEF ResumeNothing, Quirk
<1>10. CASE SevKernel
  BY <1>10, SevKernelInv
<1>11. CASE SevExit
  BY <1>11, SevExitInv
<1>12. CASE SevComplete
  BY <1>12, SevCompleteInv
<1>13. CASE UserServes
  BY <1>13, UserServesInv
<1>14. CASE UserMovesRip
  BY <1>14 DEF UserMovesRip, Quirk
<1>15. CASE Done
  BY <1>15 DEF Done, pioVars, Quirk
<1> HIDE DEF PioInv, PioTypes, PioGuest, PioBegun, PioFast, PioEmulated, PioSev, GotOf, SeenOf, UserServed,
             SkippedOnce, NoPio, NoSev
<1>16. QED
  BY <1>1, <1>2, <1>3, <1>4, <1>5, <1>6, <1>7, <1>8, <1>9, <1>10, <1>11, <1>12, <1>13, <1>14, <1>15 DEF PioNext

LEMMA PioInvExact == PioInv => PioTypeOK /\ ItemsInOrder /\ SkippedOnce
<1> SUFFICES ASSUME PioInv PROVE PioTypeOK /\ ItemsInOrder /\ SkippedOnce
  OBVIOUS
<1> USE DEF PioInv, PioTypes, PioGuest, PioBegun, PioFast, PioEmulated, PioSev, Kinds
<1>1. PioTypeOK
  BY DEF PioTypeOK
<1>2. ItemsInOrder
  BY PioItems DEF ItemsInOrder, GotOf, SeenOf
<1>3. SkippedOnce
  BY DEF SkippedOnce
<1>4. QED
  BY <1>1, <1>2, <1>3

-----------------------------------------------------------------------------
(* Memory-mapped I/O.  An access is followed byte by byte: each byte of it *)
(* is served already, at the address it wraps to, or waits in exactly one  *)
(* fragment that userspace is still to be shown.  A page served, a piece   *)
(* stored or loaded only moves bytes from the second set to the first.     *)

Size == PageSize * Pages

LEMMA Greatest ==
    ASSUME NEW n \in Nat, NEW T \in SUBSET (0..n), T # {}
    PROVE  \E h \in T : \A k \in T : k <= h
<1> DEFINE U == {n - h : h \in T}
<1>1. U \subseteq Nat /\ U # {}
  <2>1. \A h \in T : h \in Nat /\ h <= n /\ n - h \in Nat
    OBVIOUS
  <2>2. QED
    BY <2>1
<1> DEFINE less == OpToRel(<, Nat)
<1>2. \A x, y \in Nat : x < y => <<x, y>> \in less
  BY Zenon DEF OpToRel
<1>3. PICK m \in U : \A y \in U : ~(<<y, m>> \in less)
  BY <1>1, NatLessThanWellFounded, WFMin
<1> HIDE DEF less
<1>4. \A y \in U : m <= y
  <2> SUFFICES ASSUME NEW y \in U PROVE m <= y
    OBVIOUS
  <2>1. y \in Nat /\ m \in Nat
    BY <1>1
  <2>2. ~(y < m)
    BY <1>2, <1>3, <2>1
  <2>3. QED
    BY <2>1, <2>2
<1>5. PICK h \in T : m = n - h
  OBVIOUS
<1>6. ASSUME NEW k \in T PROVE k <= h
  <2>1. n - h <= n - k
    BY <1>4, <1>5
  <2>2. QED
    BY <2>1
<1>7. QED
  BY <1>6

LEMMA ServedBounds ==
    ASSUME NEW addr, NEW n \in Nat
    PROVE  Served(addr, n) \in 0..n
<1> DEFINE whole == {h \in 0..n : (h = n \/ h % Piece = 0) /\ \A i \in 0..(h - 1) : addr + i \in kernel}
<1>1. 0 % Piece = 0
  BY MmioAssumption
<1>2. 0 \in whole
  BY <1>1
<1>3. \E h \in whole : \A k \in whole : k <= h
  <2>1. whole \in SUBSET (0..n) /\ whole # {}
    BY <1>2
  <2> HIDE DEF whole
  <2>2. QED
    BY <2>1, Greatest
<1>4. Served(addr, n) \in whole
  <2>1. Served(addr, n) = CHOOSE h \in whole : \A k \in whole : k <= h
    BY DEF Served
  <2> HIDE DEF whole
  <2>2. QED
    BY <1>3, <2>1
<1>5. QED
  BY <1>4

LEMMA PageSizes ==
    /\ PageSize \in Nat \ {0} /\ Pages \in Nat \ {0} /\ Piece \in 1..PageSize /\ MaxBytes \in 1..PageSize
    /\ Size \in Nat /\ PageSize <= Size /\ Addrs = 0..(Size - 1)
<1>1. PageSize \in Nat \ {0} /\ Pages \in Nat \ {0} /\ Piece \in 1..PageSize /\ MaxBytes \in 1..PageSize
  BY MmioAssumption
<1>2. Size \in Nat /\ PageSize <= Size
  BY <1>1, Z3 DEF Size
<1>3. QED
  BY <1>1, <1>2 DEF Addrs, Size

LEMMA WrapIs == \A x \in 0..(Size + Size - 1) : Wrap(x) = IF x < Size THEN x ELSE x - Size
<1>1. Size \in Nat \ {0}
  BY PageSizes
<1>2. \A w \in Nat \ {0} : \A x \in 0..(w + w - 1) : x % w = IF x < w THEN x ELSE x - w
  BY Z3
<1>3. QED
  BY <1>1, <1>2 DEF Wrap, Size

LEMMA Times ==
    ASSUME NEW p \in Nat, NEW a \in Nat, NEW b \in Nat, a <= b
    PROVE  p * a <= p * b /\ p * (a + 1) = p * a + p
  BY SMT

LEMMA PageIs ==
    ASSUME NEW x \in Nat, NEW p \in Nat, p > 0
    PROVE  /\ x \div p \in Nat /\ x % p \in 0..(p - 1)
           /\ x = p * (x \div p) + (x % p)
<1>1. x = p * (x \div p) + (x % p)
  BY Z3
<1>2. x % p \in 0..(p - 1)
  BY Z3
<1>3. x \div p \in Int /\ x \div p >= 0
  BY Z3
<1>4. QED
  BY <1>1, <1>2, <1>3

\* An access within a page stays below the last address; one that crosses goes on at
\* the start of a page, and ends within it.
LEMMA Crossing ==
    ASSUME NEW addr \in Addrs, NEW n \in 1..MaxBytes
    PROVE  /\ ~Crosses(addr, n) => addr + n <= Size
           /\ Crosses(addr, n) =>
                LET now == PageSize - (addr % PageSize)
                IN  /\ now \in 1..(n - 1) /\ addr + now <= Size
                    /\ Wrap(addr + now) \in Nat /\ Wrap(addr + now) + (n - now) <= Size
<1> DEFINE q == addr \div PageSize  r == addr % PageSize  e == addr + n - 1  qe == e \div PageSize
           re == e % PageSize  now == PageSize - r
<1>1. addr \in Nat /\ addr < Size /\ e \in Nat /\ n \in 1..PageSize
  BY PageSizes
<1>0. PageSize \in Nat /\ PageSize > 0
  BY PageSizes
<1>2. q \in Nat /\ r \in 0..(PageSize - 1) /\ addr = PageSize * q + r
  BY <1>0, <1>1, PageIs
<1>3. qe \in Nat /\ re \in 0..(PageSize - 1) /\ e = PageSize * qe + re
  BY <1>0, <1>1, PageIs
<1>4. Crosses(addr, n) <=> q # qe
  BY DEF Crosses
<1> HIDE DEF q, r, qe, re
<1>5. ASSUME NEW k \in Nat, PageSize * k < Size PROVE k + 1 <= Pages /\ PageSize * k + PageSize <= Size
  <2>1. k < Pages
    <3>1. SUFFICES ASSUME k >= Pages PROVE FALSE
      BY PageSizes
    <3>2. PageSize * Pages <= PageSize * k
      BY <3>1, PageSizes, Times
    <3>3. QED
      BY <1>5, <3>2, PageSizes DEF Size
  <2>2. PageSize * (k + 1) <= PageSize * Pages
    BY <2>1, PageSizes, Times
  <2>3. PageSize * (k + 1) = PageSize * k + PageSize
    BY PageSizes, Times
  <2>4. QED
    BY <2>1, <2>2, <2>3, PageSizes DEF Size
<1>6. PageSize * q + PageSize <= Size
  <2>1. PageSize * q \in Nat
    BY <1>2, PageSizes
  <2>2. QED
    BY <1>1, <1>2, <1>5, <2>1, PageSizes
<1>7. ASSUME q = qe PROVE addr + n <= Size
  <2>1. PageSize * q \in Nat
    BY <1>2, PageSizes
  <2>2. QED
    BY <1>1, <1>2, <1>3, <1>6, <1>7, <2>1, PageSizes
<1>8. ASSUME q # qe PROVE now \in 1..(n - 1) /\ addr + now <= Size /\ Wrap(addr + now) \in Nat /\ Wrap(addr + now) + (n - now) <= Size
  <2>1. addr + now = PageSize * q + PageSize /\ PageSize * q \in Nat /\ now \in 1..PageSize
    BY <1>1, <1>2, PageSizes
  <2>2. q < qe
    <3>1. SUFFICES ASSUME qe < q PROVE FALSE
      BY <1>2, <1>3, <1>8
    <3>2. PageSize * (qe + 1) <= PageSize * q /\ PageSize * (qe + 1) = PageSize * qe + PageSize
      BY <1>2, <1>3, <3>1, PageSizes, Times
    <3>3. PageSize * qe \in Nat
      BY <1>3, PageSizes
    <3>4. QED
      BY <1>1, <1>2, <1>3, <2>1, <3>2, <3>3, PageSizes
  <2>3. PageSize * q + PageSize <= PageSize * qe /\ PageSize * qe \in Nat
    <3>1. PageSize * (q + 1) <= PageSize * qe /\ PageSize * (q + 1) = PageSize * q + PageSize
      BY <1>2, <1>3, <2>2, PageSizes, Times
    <3>2. QED
      BY <1>3, <3>1, PageSizes
  <2>4. now \in 1..(n - 1)
    BY <1>1, <1>2, <1>3, <2>1, <2>3, PageSizes
  <2>5. addr + now <= Size
    BY <1>6, <2>1
  <2>6. CASE addr + now = Size
    BY <1>1, <2>1, <2>4, <2>6, WrapIs, PageSizes
  <2>7. CASE addr + now < Size
    <3>1. Wrap(addr + now) = addr + now
      BY <1>1, <2>1, <2>7, WrapIs, PageSizes
    <3>3. PageSize * (q + 1) = PageSize * q + PageSize /\ q + 1 \in Nat
      BY <1>2, PageSizes, Times
    <3>5. PageSize * (q + 1) < Size
      BY <2>1, <2>7, <3>3
    <3>2. PageSize * (q + 1) + PageSize <= Size
      BY <1>5, <3>3, <3>5, Zenon
    <3>4. QED
      BY <1>1, <2>1, <2>4, <2>5, <3>1, <3>2, <3>3, PageSizes
  <2>8. QED
    BY <1>1, <2>1, <2>4, <2>5, <2>6, <2>7, PageSizes
<1>9. QED
  BY <1>4, <1>7, <1>8 DEF r

-----------------------------------------------------------------------------
Fragments == [gpa : Nat, off : Nat, len : Nat \ {0}]
Bytes(f) == f.off..(f.off + f.len - 1)

\* Byte off and the next of an access at b, h in all, are at addr and the next.
Follow(b, off, addr, h) == \A j \in 0..(h - 1) : Wrap(b + off + j) = addr + j

\* Fragment f is for bytes of an access of m bytes at b, at their addresses.
FragmentOf(f, b, m) ==
    /\ f.off + f.len <= m /\ f.gpa + f.len <= Size
    /\ Follow(b, f.off, f.gpa, f.len)
FragmentsOf(fr, c, b, m) ==
    /\ \A k \in c..Len(fr) : FragmentOf(fr[k], b, m)
    /\ \A j, k \in c..Len(fr) : j < k => fr[j].off + fr[j].len <= fr[k].off

\* The bytes that no fragment from c on waits for.
There(fr, c, m) == {i \in 0..(m - 1) : \A k \in c..Len(fr) : i \notin Bytes(fr[k])}

\* The bytes D with h more from off on.
More(D, off, h) == D \cup (off..(off + h - 1))

\* Storing h bytes of v from off on at addr and the next, and counting it.
PutBytes(v, st, addr, off, h) ==
    [a \in Addrs |-> IF a \in addr..(addr + h - 1) THEN v[off + a - addr] ELSE st[a]]
PutOnce(ct, addr, h) == [a \in Addrs |-> IF a \in addr..(addr + h - 1) THEN ct[a] + 1 ELSE ct[a]]
Apart(D, off, h) == D \cap (off..(off + h - 1)) = {}

\* The bytes D of an operand v are loaded from, or stored once at, their addresses.
Loaded(v, b, D) == \A i \in D : v[i] = Wrap(b + i)
Written(v, st, ct, b, D) ==
    /\ \A i \in D : st[Wrap(b + i)] = v[i]
    /\ \A a \in Addrs : ct[a] = IF \E i \in D : a = Wrap(b + i) THEN 1 ELSE 0

Operands == [0..(MaxBytes - 1) -> Int]
Contents == [Addrs -> Int]

LEMMA WrapByte ==
    ASSUME NEW b \in Addrs, NEW i \in 0..(MaxBytes - 1)
    PROVE  /\ Wrap(b + i) = IF b + i < Size THEN b + i ELSE b + i - Size
           /\ Wrap(b + i) \in Addrs
  BY PageSizes, WrapIs

LEMMA WrapOnce ==
    ASSUME NEW b \in Addrs, NEW i \in 0..(MaxBytes - 1), NEW j \in 0..(MaxBytes - 1), Wrap(b + i) = Wrap(b + j)
    PROVE  i = j
  BY WrapByte, PageSizes

LEMMA StoreMore ==
    ASSUME NEW b \in Addrs, NEW D, D \subseteq 0..(MaxBytes - 1), NEW off \in Nat, NEW h \in Nat,
           off + h <= MaxBytes, NEW addr \in Nat, addr + h <= Size,
           Follow(b, off, addr, h),
           Apart(D, off, h),
           NEW v \in Operands, NEW st \in Contents, NEW ct \in Contents, Written(v, st, ct, b, D),
           NEW st2, NEW ct2, st2 = PutBytes(v, st, addr, off, h), ct2 = PutOnce(ct, addr, h)
    PROVE  /\ st2 \in Contents /\ ct2 \in Contents
           /\ Written(v, st2, ct2, b, More(D, off, h))
<1> USE DEF PutBytes, PutOnce, Apart
<1> DEFINE N == off..(off + h - 1)
<1>1. ASSUME NEW i \in N PROVE Wrap(b + i) = addr + (i - off) /\ i \in 0..(MaxBytes - 1)
  <2>1. i - off \in 0..(h - 1) /\ b + off + (i - off) = b + i /\ i \in 0..(MaxBytes - 1)
    BY PageSizes
  <2>2. Wrap(b + off + (i - off)) = addr + (i - off)
    BY <2>1 DEF Follow
  <2>3. QED
    BY <2>1, <2>2
<1>2. ASSUME NEW i \in D PROVE Wrap(b + i) \in Addrs /\ Wrap(b + i) \notin addr..(addr + h - 1)
  <2>1. Wrap(b + i) \in Addrs
    BY WrapByte
  <2>2. SUFFICES ASSUME Wrap(b + i) \in addr..(addr + h - 1) PROVE FALSE
    BY <2>1
  <2> DEFINE j == off + (Wrap(b + i) - addr)
  <2>3. j \in N /\ Wrap(b + i) = addr + (j - off)
    BY <2>2
  <2>4. Wrap(b + j) = Wrap(b + i) /\ j \in 0..(MaxBytes - 1)
    BY <1>1, <2>3
  <2> HIDE DEF j
  <2>5. i = j
    BY <2>4, WrapOnce
  <2>6. QED
    BY <2>3, <2>5
<1>3. ASSUME NEW a \in addr..(addr + h - 1)
      PROVE  /\ a \in Addrs /\ off + a - addr \in N /\ a = Wrap(b + (off + a - addr))
             /\ st2[a] = v[off + a - addr] /\ ct2[a] = 1
  <2>1. a \in Addrs /\ off + a - addr \in N /\ addr + ((off + a - addr) - off) = a
    BY PageSizes
  <2>2. a = Wrap(b + (off + a - addr))
    BY <1>1, <2>1
  <2>3. \A i \in D : a # Wrap(b + i)
    BY <1>2
  <2>4. ct[a] = 0
    BY <2>1, <2>3 DEF Written
  <2>5. QED
    BY <2>1, <2>2, <2>4
<1>4. ASSUME NEW a \in Addrs, a \notin addr..(addr + h - 1)
      PROVE  st2[a] = st[a] /\ ct2[a] = ct[a] /\ \A i \in N : a # Wrap(b + i)
  <2>1. \A i \in N : addr + (i - off) \in addr..(addr + h - 1)
    OBVIOUS
  <2>2. QED
    BY <1>1, <1>4, <2>1
<1>5. st2 \in Contents /\ ct2 \in Contents
  <2>1. ASSUME NEW a \in addr..(addr + h - 1) PROVE v[off + a - addr] \in Int
    BY <1>1, <1>3 DEF Operands
  <2>2. QED
    BY <2>1 DEF Contents
<1>6. ASSUME NEW i \in D \cup N PROVE st2[Wrap(b + i)] = v[i]
  <2>1. CASE i \in D
    BY <1>2, <1>4, <2>1 DEF Written
  <2>2. CASE i \in N
    <3>1. Wrap(b + i) = addr + (i - off) /\ addr + (i - off) \in addr..(addr + h - 1)
      BY <1>1, <2>2
    <3>2. off + (addr + (i - off)) - addr = i
      BY <2>2
    <3>3. QED
      BY <1>3, <3>1, <3>2
  <2>3. QED
    BY <2>1, <2>2
<1>7. ASSUME NEW a \in Addrs PROVE ct2[a] = IF \E i \in D \cup N : a = Wrap(b + i) THEN 1 ELSE 0
  <2>1. CASE a \in addr..(addr + h - 1)
    BY <1>3, <2>1
  <2>2. CASE a \notin addr..(addr + h - 1)
    BY <1>4, <2>2 DEF Written
  <2>3. QED
    BY <2>1, <2>2
<1>8. QED
  BY <1>5, <1>6, <1>7 DEF Written, More

LEMMA LoadMore ==
    ASSUME NEW b \in Addrs, NEW D, D \subseteq 0..(MaxBytes - 1), NEW off \in Nat, NEW h \in Nat,
           off + h <= MaxBytes, NEW addr \in Nat,
           Follow(b, off, addr, h),
           NEW v \in Operands, Loaded(v, b, D),
           NEW v2, v2 = [i \in DOMAIN v |-> IF i \in off..(off + h - 1) THEN addr + i - off ELSE v[i]]
    PROVE  v2 \in Operands /\ Loaded(v2, b, More(D, off, h))
<1> DEFINE N == off..(off + h - 1)
<1>1. ASSUME NEW i \in N PROVE Wrap(b + i) = addr + i - off /\ i \in 0..(MaxBytes - 1)
  <2>1. i - off \in 0..(h - 1) /\ b + off + (i - off) = b + i /\ i \in 0..(MaxBytes - 1)
    BY PageSizes
  <2>2. Wrap(b + off + (i - off)) = addr + (i - off)
    BY <2>1 DEF Follow
  <2>3. QED
    BY <2>1, <2>2
<1>2. v2 \in Operands
  BY DEF Operands
<1>3. QED
  BY <1>1, <1>2 DEF Loaded, Operands, More

LEMMA FragmentFields ==
    ASSUME NEW f \in Fragments
    PROVE  f.gpa \in Nat /\ f.off \in Nat /\ f.len \in Nat /\ f.len > 0
  BY DEF Fragments

LEMMA ThereMore ==
    ASSUME NEW fr \in Seq(Fragments), NEW b, NEW m \in Nat, NEW h \in Nat, FragmentsOf(fr, 1, b, m)
    PROVE  /\ There(fr, 1, m) \subseteq 0..(m - 1)
           /\ There(fr, 1, m + h) = More(There(fr, 1, m), m, h)
           /\ FragmentsOf(fr, 1, b, m + h)
<1>1. ASSUME NEW k \in 1..Len(fr)
      PROVE  /\ fr[k].off \in Nat /\ fr[k].len \in Nat /\ fr[k].off + fr[k].len <= m
             /\ fr[k].gpa + fr[k].len <= Size /\ Follow(b, fr[k].off, fr[k].gpa, fr[k].len)
  <2>1. fr[k] \in Fragments
    OBVIOUS
  <2>2. FragmentOf(fr[k], b, m)
    BY DEF FragmentsOf
  <2>3. QED
    BY <2>1, <2>2, FragmentFields DEF FragmentOf
<1>2. ASSUME NEW k \in 1..Len(fr), NEW i \in m..(m + h - 1) PROVE i \notin Bytes(fr[k])
  BY <1>1 DEF Bytes
<1>3. There(fr, 1, m + h) = More(There(fr, 1, m), m, h)
  BY <1>2 DEF There, More
<1>4. FragmentsOf(fr, 1, b, m + h)
  <2>1. ASSUME NEW k \in 1..Len(fr) PROVE FragmentOf(fr[k], b, m + h)
    <3>1. fr[k].off + fr[k].len <= m + h
      BY <1>1
    <3>2. QED
      BY <1>1, <3>1 DEF FragmentOf
  <2>2. QED
    BY <2>1 DEF FragmentsOf
<1>5. QED
  BY <1>3, <1>4 DEF There

LEMMA ThereAppended ==
    ASSUME NEW fr \in Seq(Fragments), NEW b, NEW m \in Nat, NEW f \in Fragments,
           FragmentsOf(fr, 1, b, m), f.off = m, FragmentOf(f, b, m + f.len)
    PROVE  /\ Append(fr, f) \in Seq(Fragments) /\ Len(Append(fr, f)) = Len(fr) + 1
           /\ FragmentsOf(Append(fr, f), 1, b, m + f.len)
           /\ There(Append(fr, f), 1, m + f.len) = There(fr, 1, m)
<1> DEFINE g == Append(fr, f)  l == f.len
<1>1. /\ g \in Seq(Fragments) /\ Len(g) = Len(fr) + 1 /\ Len(fr) \in Nat
      /\ g[Len(fr) + 1] = f /\ \A k \in 1..Len(fr) : g[k] = fr[k]
  OBVIOUS
<1>2. l \in Nat \ {0} /\ FragmentsOf(fr, 1, b, m + l)
  BY ThereMore DEF Fragments
<1>3. Bytes(f) = m..(m + l - 1)
  BY DEF Bytes
<1> HIDE DEF g, l
<1>4. ASSUME NEW k \in 1..Len(fr)
      PROVE  FragmentOf(fr[k], b, m + l) /\ fr[k].off + fr[k].len <= m
  BY <1>2 DEF FragmentsOf, FragmentOf
<1>5. FragmentsOf(g, 1, b, m + l)
  <2>1. ASSUME NEW k \in 1..Len(g) PROVE FragmentOf(g[k], b, m + l)
    <3>1. CASE k = Len(fr) + 1
      BY <1>1, <3>1 DEF l
    <3>2. CASE k \in 1..Len(fr)
      BY <1>1, <1>4, <3>2
    <3>3. QED
      BY <1>1, <3>1, <3>2
  <2>2. ASSUME NEW j \in 1..Len(g), NEW k \in 1..Len(g), j < k PROVE g[j].off + g[j].len <= g[k].off
    BY <1>1, <1>4, <2>2 DEF FragmentsOf
  <2>3. QED
    BY <2>1, <2>2 DEF FragmentsOf
<1>6. There(g, 1, m + l) = There(fr, 1, m)
  <2> DEFINE e == m + l
  <2>0. e \in Nat /\ e >= m /\ Bytes(f) = m..(e - 1)
    BY <1>2, <1>3 DEF l
  <2> HIDE DEF e
  <2>1. ASSUME NEW i \in 0..(e - 1)
        PROVE  (\A k \in 1..Len(g) : i \notin Bytes(g[k])) <=>
               (i \in 0..(m - 1) /\ \A k \in 1..Len(fr) : i \notin Bytes(fr[k]))
    <3>1. i \in Bytes(f) <=> i \notin 0..(m - 1)
      BY <2>0
    <3>2. 1..Len(g) = 1..Len(fr) \cup {Len(fr) + 1}
      BY <1>1
    <3>3. QED
      BY <1>1, <3>1, <3>2
  <2>2. \A i \in 0..(m - 1) : i \in 0..(e - 1)
    BY <2>0
  <2>3. ASSUME NEW i PROVE i \in There(g, 1, e) <=> i \in There(fr, 1, m)
    <3>1. i \in There(g, 1, e) <=> i \in 0..(e - 1) /\ (\A k \in 1..Len(g) : i \notin Bytes(g[k]))
      BY Zenon DEF There
    <3>2. i \in There(fr, 1, m) <=> i \in 0..(m - 1) /\ (\A k \in 1..Len(fr) : i \notin Bytes(fr[k]))
      BY Zenon DEF There
    <3>3. QED
      BY <2>1, <2>2, <3>1, <3>2
  <2>4. QED
    BY <2>3 DEF e
<1>7. QED
  BY <1>1, <1>5, <1>6 DEF g, l

\* An access s is under way: its first m bytes are served or wait in a fragment.
IsAccess(s) ==
    /\ s = Access(s.v, s.st, s.ct, s.fr, s.fault) /\ s.v \in Operands /\ s.st \in Contents /\ s.ct \in Contents
    /\ s.fr \in Seq(Fragments)
Reaches(s, b, m, write) ==
    /\ FragmentsOf(s.fr, 1, b, m)
    /\ write = TRUE => Written(s.v, s.st, s.ct, b, There(s.fr, 1, m))
    /\ write = FALSE => Loaded(s.v, b, There(s.fr, 1, m))

\* t is what moving bytes makes of s, what doing a page makes of it; it reaches m.
Moves(s, t, b, m, write) ==
    /\ IsAccess(t) /\ Reaches(t, b, m, write) /\ t.fr = s.fr /\ t.fault = s.fault
    /\ write = TRUE => t.v = s.v
    /\ write = FALSE => t.st = s.st /\ t.ct = s.ct
Does(s, t, b, m, write) ==
    /\ IsAccess(t) /\ Len(t.fr) <= Len(s.fr) + 1
    /\ (t.fault = TRUE /\ t.st = s.st /\ t.ct = s.ct) \/ (t.fault = FALSE /\ Reaches(t, b, m, write))
    /\ write = TRUE => t.v = s.v
    /\ write = FALSE => t.st = s.st /\ t.ct = s.ct
NoFault(s) == s.fault = FALSE

LEMMA MoveReaches ==
    ASSUME NEW s, IsAccess(s), NEW b \in Addrs, NEW off \in Nat, NEW h \in Nat, NEW write, write \in {TRUE, FALSE},
           Reaches(s, b, off, write), off + h <= MaxBytes, NEW addr \in Nat, addr + h <= Size,
           Follow(b, off, addr, h), NEW t, t = Move(s, addr, off, h, write)
    PROVE  Moves(s, t, b, off + h, write)
<1> DEFINE D == There(s.fr, 1, off)
<1>1. /\ D \subseteq 0..(off - 1) /\ There(s.fr, 1, off + h) = More(D, off, h)
      /\ FragmentsOf(s.fr, 1, b, off + h)
  <2>1. s.fr \in Seq(Fragments) /\ FragmentsOf(s.fr, 1, b, off)
    BY DEF IsAccess, Reaches
  <2>2. QED
    BY <2>1, ThereMore
<1>2. D \subseteq 0..(MaxBytes - 1) /\ Apart(D, off, h)
  BY <1>1, PageSizes DEF Apart
<1> HIDE DEF D
<1>3. CASE write = TRUE
  <2>1. /\ t.v = s.v /\ t.fr = s.fr /\ t.fault = s.fault /\ t = Access(t.v, t.st, t.ct, t.fr, t.fault)
        /\ t.st = PutBytes(s.v, s.st, addr, off, h) /\ t.ct = PutOnce(s.ct, addr, h)
    BY <1>3 DEF Move, IsAccess, Access, PutBytes, PutOnce
  <2>2. Written(s.v, s.st, s.ct, b, D)
    BY <1>3 DEF Reaches, D
  <2>3. /\ t.st \in Contents /\ t.ct \in Contents
        /\ Written(s.v, t.st, t.ct, b, More(D, off, h))
    <3>1. s.v \in Operands /\ s.st \in Contents /\ s.ct \in Contents
      BY DEF IsAccess
    <3>2. QED
      BY <1>2, <2>1, <2>2, <3>1, StoreMore
  <2>4. IsAccess(t) /\ Reaches(t, b, off + h, write)
    BY <1>1, <1>3, <2>1, <2>3 DEF IsAccess, Reaches
  <2>5. QED
    BY <1>3, <2>1, <2>4 DEF Moves
<1>4. CASE write = FALSE
  <2>1. /\ t.st = s.st /\ t.ct = s.ct /\ t.fr = s.fr /\ t.fault = s.fault /\ t = Access(t.v, t.st, t.ct, t.fr, t.fault)
        /\ t.v = [i \in DOMAIN s.v |-> IF i \in off..(off + h - 1) THEN addr + i - off ELSE s.v[i]]
    BY <1>4 DEF Move, IsAccess, Access
  <2>2. Loaded(s.v, b, D)
    BY <1>4 DEF Reaches, D
  <2>3. t.v \in Operands /\ Loaded(t.v, b, More(D, off, h))
    <3>1. s.v \in Operands
      BY DEF IsAccess
    <3>2. QED
      BY <1>2, <2>1, <2>2, <3>1, LoadMore
  <2>4. IsAccess(t) /\ Reaches(t, b, off + h, write)
    BY <1>1, <1>4, <2>1, <2>3 DEF IsAccess, Reaches
  <2>5. QED
    BY <1>4, <2>1, <2>4 DEF Moves
<1>5. QED
  BY <1>3, <1>4

LEMMA OnePageReaches ==
    ASSUME NEW s, IsAccess(s), NoFault(s), NEW b \in Addrs, NEW off \in Nat, NEW n \in Nat, NEW write, write \in {TRUE, FALSE},
           Reaches(s, b, off, write), off + n <= MaxBytes, NEW addr \in Nat, addr + n <= Size,
           Follow(b, off, addr, n), NEW t, t = OnePage(s, addr, off, n, write)
    PROVE  Does(s, t, b, off + n, write)
<1> DEFINE h == Served(addr, n)  u == Move(s, addr, off, h, write)  r == Move(s, addr, off, n, write)
           f == [gpa |-> addr + h, off |-> off + h, len |-> n - h]
           w == [u EXCEPT !.fr = Append(@, f)]
<1>1. h \in 0..n
  BY ServedBounds
<1>2. \/ t = [s EXCEPT !.fault = TRUE] \/ t = r
      \/ (h = n /\ t = u) \/ (h # n /\ t = w)
  BY DEF OnePage
<1>3. s.fr \in Seq(Fragments) /\ Len(s.fr) \in Nat
  BY DEF IsAccess
<1>4. CASE t = [s EXCEPT !.fault = TRUE]
  <2>1. /\ t.v = s.v /\ t.st = s.st /\ t.ct = s.ct /\ t.fr = s.fr /\ t.fault = TRUE
        /\ t = Access(t.v, t.st, t.ct, t.fr, t.fault)
    BY <1>4 DEF IsAccess, Access
  <2>2. QED
    BY <1>3, <2>1 DEF IsAccess, Does
<1>5. CASE t = r
  <2>1. Moves(s, t, b, off + n, write)
    BY <1>5, MoveReaches
  <2>2. QED
    BY <1>3, <2>1 DEF Moves, Does, NoFault
<1> HIDE DEF h
<1>6. Moves(s, u, b, off + h, write)
  <2>1. h \in Nat /\ off + h <= MaxBytes /\ addr + h <= Size
    BY <1>1, PageSizes
  <2>2. Follow(b, off, addr, h)
    BY <1>1 DEF Follow
  <2>3. QED
    BY <2>1, <2>2, MoveReaches
<1> HIDE DEF u
<1>7. CASE h = n /\ t = u
  BY <1>3, <1>6, <1>7 DEF Moves, Does, NoFault
<1>8. CASE h # n /\ t = w
  <2>1. /\ t.v = u.v /\ t.st = u.st /\ t.ct = u.ct /\ t.fr = Append(u.fr, f) /\ t.fault = u.fault
        /\ t = Access(t.v, t.st, t.ct, t.fr, t.fault)
    BY <1>6, <1>8 DEF Moves, IsAccess, Access
  <2>2. /\ f \in Fragments /\ f.off = off + h /\ f.len = n - h /\ f.gpa = addr + h /\ off + h + f.len = off + n
    <3>1. addr + h \in Nat /\ off + h \in Nat /\ n - h \in Nat \ {0} /\ off + h + (n - h) = off + n
      BY <1>1, <1>8
    <3>2. QED
      BY <3>1 DEF Fragments
  <2> HIDE DEF f
  <2>3. FragmentOf(f, b, off + h + f.len)
    <3>1. ASSUME NEW j \in 0..(f.len - 1) PROVE Wrap(b + f.off + j) = f.gpa + j
      <4>1. h + j \in 0..(n - 1) /\ b + off + (h + j) = b + f.off + j /\ addr + (h + j) = f.gpa + j
        BY <1>1, <2>2, PageSizes
      <4>2. Wrap(b + off + (h + j)) = addr + (h + j)
        BY <4>1 DEF Follow
      <4>3. QED
        BY <4>1, <4>2
    <3>2. QED
      BY <1>1, <2>2, <3>1, PageSizes DEF FragmentOf, Follow
  <2>4. /\ u.fr \in Seq(Fragments) /\ FragmentsOf(u.fr, 1, b, off + h)
    BY <1>6 DEF Moves, IsAccess, Reaches
  <2>5. /\ Append(u.fr, f) \in Seq(Fragments) /\ Len(Append(u.fr, f)) = Len(u.fr) + 1
        /\ FragmentsOf(Append(u.fr, f), 1, b, off + n)
        /\ There(Append(u.fr, f), 1, off + n) = There(u.fr, 1, off + h)
    <3>1. off + h \in Nat
      BY <1>1
    <3>2. QED
      BY <2>2, <2>3, <2>4, <3>1, ThereAppended
  <2>6. IsAccess(t)
    BY <1>6, <2>1, <2>5 DEF Moves, IsAccess
  <2>7. Reaches(t, b, off + n, write)
    BY <1>6, <2>1, <2>5 DEF Moves, Reaches
  <2>8. QED
    BY <1>3, <1>6, <2>1, <2>5, <2>6, <2>7 DEF Moves, Does, NoFault
<1>9. QED
  BY <1>2, <1>4, <1>5, <1>7, <1>8

LEMMA FollowPage ==
    ASSUME NEW b \in Addrs, NEW off \in Nat, NEW h \in Nat, off + h <= MaxBytes,
           NEW addr, addr = Wrap(b + off), addr + h <= Size, addr \in Nat
    PROVE  Follow(b, off, addr, h)
<1> SUFFICES ASSUME NEW j \in 0..(h - 1) PROVE Wrap(b + off + j) = addr + j
  BY DEF Follow
<1>1. b \in 0..(Size - 1) /\ off \in 0..(MaxBytes - 1) /\ off + j \in 0..(MaxBytes - 1) /\ MaxBytes <= Size /\ Size \in Nat
      /\ MaxBytes \in Nat
  BY PageSizes
<1>2. /\ b + off + j \in 0..(Size + Size - 1) /\ b + off \in 0..(Size + Size - 1)
  BY <1>1
<1> DEFINE x == b + off + j  y == b + off
<1>3. x = y + j /\ x \in Nat /\ y \in Nat /\ addr = Wrap(y)
  BY <1>1
<1> HIDE DEF x, y
<1>4. /\ Wrap(x) = IF x < Size THEN x ELSE x - Size
      /\ Wrap(y) = IF y < Size THEN y ELSE y - Size
  BY <1>2, WrapIs DEF x, y
<1>5. Wrap(x) = addr + j
  BY <1>1, <1>2, <1>3, <1>4 DEF x, y
<1>6. QED
  BY <1>5 DEF x

Empty(ct) == \A a \in Addrs : ct[a] = 0

LEMMA NothingYet ==
    ASSUME NEW b, NEW v, NEW st, NEW ct, Empty(ct)
    PROVE  /\ There(<<>>, 1, 0) = {} /\ FragmentsOf(<<>>, 1, b, 0)
           /\ Written(v, st, ct, b, There(<<>>, 1, 0)) /\ Loaded(v, b, There(<<>>, 1, 0))
<1>1. There(<<>>, 1, 0) = {}
  BY DEF There
<1>2. FragmentsOf(<<>>, 1, b, 0)
  BY DEF FragmentsOf
<1>3. Written(v, st, ct, b, {}) /\ Loaded(v, b, {})
  BY DEF Written, Loaded, Empty
<1>4. QED
  BY <1>1, <1>2, <1>3

\* What an access of n bytes at b comes to.
Accesses(t, b, n, write) ==
    /\ IsAccess(t) /\ Len(t.fr) <= MaxFragments
    /\ \/ t.fault = TRUE /\ (write = TRUE => StoredSome(t.v, t.st, t.ct, b, FirstPart(b, n)))
       \/ t.fault = FALSE /\ Reaches(t, b, n, write)
    /\ write = TRUE => t.v = val
    /\ write = FALSE => t.st = stored /\ t.ct = count

LEMMA AccessReaches ==
    ASSUME NEW b \in Addrs, NEW n \in 1..MaxBytes, NEW write, write \in {TRUE, FALSE},
           val \in Operands, stored \in Contents, count \in Contents, Empty(count),
           NEW t, t = emulator_read_write(b, n, write)
    PROVE  Accesses(t, b, n, write)
<1> DEFINE s == Access(val, stored, count, <<>>, FALSE)  now == PageSize - (b % PageSize)
           u == OnePage(s, b, 0, now, write)  b2 == Wrap(b + now)
<1>1. /\ s.v = val /\ s.st = stored /\ s.ct = count /\ s.fr = <<>> /\ s.fault = FALSE
      /\ s = Access(s.v, s.st, s.ct, s.fr, s.fault)
  BY DEF Access
<1>2. \/ ~Crosses(b, n) /\ t = OnePage(s, b, 0, n, write)
      \/ Crosses(b, n) /\ u.fault = TRUE /\ t = u
      \/ Crosses(b, n) /\ u.fault # TRUE /\ t = OnePage(u, b2, now, n - now, write)
  BY DEF emulator_read_write
<1>3. ~Crosses(b, n) => b + n <= Size
  BY Crossing
<1>4. Crosses(b, n) => now \in 1..(n - 1) /\ b + now <= Size /\ b2 \in Nat /\ b2 + (n - now) <= Size
  BY Crossing
<1> HIDE DEF s, now, b2
<1>5. <<>> \in Seq(Fragments) /\ Len(<<>>) = 0
  OBVIOUS
<1>6. IsAccess(s) /\ NoFault(s) /\ Reaches(s, b, 0, write)
  <2>1. IsAccess(s) /\ NoFault(s)
    BY <1>1, <1>5 DEF IsAccess, NoFault
  <2>2. Reaches(s, b, 0, write)
    BY <1>1, NothingYet DEF Reaches
  <2>3. QED
    BY <2>1, <2>2
<1>7. b \in Nat /\ b = Wrap(b + 0) /\ n \in Nat /\ 0 \in Nat /\ 0 + n <= MaxBytes /\ MaxBytes \in Nat
  <2>1. b \in Nat /\ b \in 0..(Size + Size - 1) /\ b < Size /\ n \in Nat /\ MaxBytes \in Nat
    BY PageSizes
  <2>2. Wrap(b) = b
    BY <2>1, WrapIs
  <2>3. QED
    BY <2>1, <2>2
<1>a. StoredSome(val, stored, count, b, FirstPart(b, n))
  BY DEF StoredSome, Empty
<1>8. CASE ~Crosses(b, n) /\ t = OnePage(s, b, 0, n, write)
  <2>1. Follow(b, 0, b, n)
    BY <1>3, <1>7, <1>8, FollowPage
  <2>2. Does(s, t, b, 0 + n, write)
    BY <1>3, <1>6, <1>7, <1>8, <2>1, OnePageReaches
  <2>3. 0 + n = n
    BY <1>7
  <2>4. Does(s, t, b, n, write)
    BY <2>2, <2>3
  <2>5. t.fault = TRUE /\ write = TRUE => StoredSome(t.v, t.st, t.ct, b, FirstPart(b, n))
    BY <1>1, <1>a, <2>4 DEF Does, Reaches
  <2>6. QED
    BY <1>1, <1>5, <2>4, <2>5 DEF Does, Accesses, MaxFragments
<1>9. CASE Crosses(b, n)
  <2>1. now \in Nat /\ now \in 1..(n - 1) /\ b + now <= Size /\ 0 + now <= MaxBytes /\ 0 + now = now /\ n - now \in Nat
        /\ now + (n - now) = n /\ now + (n - now) <= MaxBytes /\ b2 \in Nat /\ b2 + (n - now) <= Size
    BY <1>4, <1>7, <1>9
  <2>2. Follow(b, 0, b, now)
    BY <1>7, <2>1, FollowPage
  <2>3. Does(s, u, b, 0 + now, write)
    BY <1>6, <1>7, <2>1, <2>2, OnePageReaches
  <2>4. Does(s, u, b, now, write)
    BY <2>1, <2>3
  <2> HIDE DEF u
  <2>5. CASE u.fault = TRUE /\ t = u
    BY <1>1, <1>5, <1>a, <2>4, <2>5 DEF Does, Accesses, MaxFragments
  <2>6. CASE u.fault # TRUE /\ t = OnePage(u, b2, now, n - now, write)
    <3>1. Follow(b, now, b2, n - now)
      BY <2>1, FollowPage DEF b2
    <3>2. IsAccess(u) /\ NoFault(u) /\ Reaches(u, b, now, write)
      BY <2>4, <2>6 DEF Does, NoFault
    <3>3. Does(u, t, b, now + (n - now), write)
      BY <2>1, <2>6, <3>1, <3>2, OnePageReaches
    <3>4. Does(u, t, b, n, write)
      BY <2>1, <3>3
    <3>5. Len(u.fr) <= 1 /\ Len(t.fr) <= Len(u.fr) + 1 /\ Len(u.fr) \in Nat /\ Len(t.fr) \in Nat
      BY <1>1, <1>5, <2>4, <3>4 DEF Does, IsAccess
    <3>6. Len(t.fr) <= MaxFragments
      BY <3>5 DEF MaxFragments
    <3>7. ASSUME t.fault = TRUE, write = TRUE PROVE StoredSome(t.v, t.st, t.ct, b, FirstPart(b, n))
      <4>1. t.v = u.v /\ t.st = u.st /\ t.ct = u.ct /\ Written(u.v, u.st, u.ct, b, There(u.fr, 1, now))
        BY <3>2, <3>4, <3>7 DEF Does, Reaches
      <4>2. FirstPart(b, n) = 0..(now - 1)
        BY <2>1 DEF FirstPart, now
      <4>3. \A i \in There(u.fr, 1, now) : i \in FirstPart(b, n)
        BY <4>2 DEF There
      <4>4. QED
        BY <4>1, <4>3 DEF Written, StoredSome
    <3>8. QED
      BY <1>1, <2>4, <3>4, <3>6, <3>7 DEF Does, Accesses
  <2>7. QED
    BY <1>2, <1>9, <2>5, <2>6 DEF u
<1>10. QED
  BY <1>2, <1>8, <1>9

-----------------------------------------------------------------------------
\* One piece of fragment c, len bytes, is done.
PieceLess(f, len) == [gpa |-> f.gpa + len, off |-> f.off + len, len |-> f.len - len]
NextPiece(fr, c, fr2, c2) ==
    \/ fr[c].len <= Piece /\ c2 = c + 1 /\ fr2 = fr
    \/ /\ fr[c].len > Piece /\ c2 = c
       /\ fr2 = [fr EXCEPT ![c] = PieceLess(fr[c], PieceLen(fr[c]))]

LEMMA PieceBounds ==
    ASSUME NEW f \in Fragments, NEW b \in Nat, NEW m \in Nat, FragmentOf(f, b, m), NEW len, len = PieceLen(f)
    PROVE  /\ f.off \in Nat /\ f.gpa \in Nat /\ len \in 1..Piece /\ f.off + len <= m /\ f.gpa + len <= Size
           /\ Follow(b, f.off, f.gpa, len)
           /\ f.len <= Piece => len = f.len
           /\ f.len > Piece => /\ PieceLess(f, len) \in Fragments /\ FragmentOf(PieceLess(f, len), b, m)
                               /\ PieceLess(f, len).off = f.off + len
                               /\ PieceLess(f, len).off + PieceLess(f, len).len = f.off + f.len
           /\ Bytes(f) = More(IF f.len > Piece THEN Bytes(PieceLess(f, len)) ELSE {}, f.off, len)
           /\ f.len > Piece => Apart(Bytes(PieceLess(f, len)), f.off, len)
<1> DEFINE o == f.off  a == f.gpa  l == f.len  g == PieceLess(f, len)
<1>0. Piece \in Nat \ {0} /\ Size \in Nat
  BY PageSizes
<1>1. o \in Nat /\ a \in Nat /\ l \in Nat /\ l > 0 /\ o + l <= m /\ a + l <= Size /\ Follow(b, o, a, l)
  BY FragmentFields DEF FragmentOf
<1>2. len = IF Piece < l THEN Piece ELSE l
  BY DEF PieceLen, Min2
<1>3. g = [gpa |-> a + len, off |-> o + len, len |-> l - len]
  BY DEF PieceLess
<1>4. Bytes(f) = o..(o + l - 1)
  BY DEF Bytes
<1>5. g.gpa = a + len /\ g.off = o + len /\ g.len = l - len
  BY <1>3
<1>6. Bytes(g) = (o + len)..(o + len + (l - len) - 1)
  BY <1>5 DEF Bytes
<1> HIDE DEF o, a, l, g
<1>7. len \in 1..Piece /\ len <= l /\ (l <= Piece => len = l) /\ (l > Piece => len < l)
      /\ o + len <= m /\ a + len <= Size
  BY <1>0, <1>1, <1>2
<1>8. Follow(b, o, a, len)
  BY <1>1, <1>7 DEF Follow
<1>9. Follow(b, o + len, a + len, l - len)
  <2> SUFFICES ASSUME NEW j \in 0..(l - len - 1) PROVE Wrap(b + (o + len) + j) = a + len + j
    BY DEF Follow
  <2>1. len + j \in 0..(l - 1) /\ a + (len + j) = a + len + j /\ b + o + (len + j) = b + (o + len) + j
    BY <1>0, <1>1, <1>7
  <2>2. Wrap(b + o + (len + j)) = a + (len + j)
    BY <1>1, <2>1 DEF Follow
  <2>3. QED
    BY <2>1, <2>2
<1>10. ASSUME l > Piece PROVE g \in Fragments /\ FragmentOf(g, b, m) /\ g.off + g.len = o + l
  <2>1. /\ a + len \in Nat /\ o + len \in Nat /\ l - len \in Nat \ {0}
        /\ o + len + (l - len) <= m /\ a + len + (l - len) <= Size /\ o + len + (l - len) = o + l
    BY <1>0, <1>1, <1>7, <1>10
  <2>2. g \in Fragments
    BY <1>3, <2>1 DEF Fragments
  <2>3. QED
    BY <1>5, <1>9, <2>1, <2>2 DEF FragmentOf
<1>11. Bytes(f) = More(IF l > Piece THEN Bytes(g) ELSE {}, o, len)
  <2>1. CASE l > Piece
    <3>1. o..(o + l - 1) = ((o + len)..(o + len + (l - len) - 1)) \cup (o..(o + len - 1))
      BY <1>0, <1>1, <1>7
    <3>2. QED
      BY <1>4, <1>6, <2>1, <3>1 DEF More
  <2>2. CASE ~(l > Piece)
    <3>1. len = l
      BY <1>0, <1>1, <1>7, <2>2
    <3>2. QED
      BY <1>4, <2>2, <3>1 DEF More
  <2>3. QED
    BY <2>1, <2>2
<1>12. Apart(Bytes(g), o, len)
  BY <1>0, <1>1, <1>6, <1>7 DEF Apart
<1>13. QED
  BY <1>1, <1>5, <1>7, <1>8, <1>10, <1>11, <1>12 DEF o, a, l, g

LEMMA PieceDone ==
    ASSUME NEW fr \in Seq(Fragments), NEW c \in 1..Len(fr), NEW b \in Nat, NEW m \in Nat, FragmentsOf(fr, c, b, m),
           NEW fr2, NEW c2, NextPiece(fr, c, fr2, c2)
    PROVE  /\ fr2 \in Seq(Fragments) /\ Len(fr2) = Len(fr) /\ FragmentsOf(fr2, c2, b, m)
           /\ There(fr2, c2, m) = More(There(fr, c, m), fr[c].off, PieceLen(fr[c]))
           /\ Apart(There(fr, c, m), fr[c].off, PieceLen(fr[c]))
<1> DEFINE f == fr[c]  len == PieceLen(f)  g == PieceLess(f, len)  N == f.off..(f.off + len - 1)
           rest == IF f.len > Piece THEN Bytes(g) ELSE {}
<1>0. Len(fr) \in Nat /\ c \in Nat /\ Piece \in Nat /\ Size \in Nat
  BY PageSizes
<1>1. f \in Fragments /\ FragmentOf(f, b, m) /\ f.len \in Nat /\ f.off \in Nat
  BY FragmentFields DEF FragmentsOf
<1>2. /\ f.off \in Nat /\ f.gpa \in Nat /\ len \in 1..Piece /\ f.off + len <= m /\ f.gpa + len <= Size
      /\ Follow(b, f.off, f.gpa, len)
      /\ f.len <= Piece => len = f.len
      /\ f.len > Piece => /\ g \in Fragments /\ FragmentOf(g, b, m)
                          /\ g.off = f.off + len /\ g.off + g.len = f.off + f.len
      /\ Bytes(f) = More(rest, f.off, len)
      /\ f.len > Piece => Apart(Bytes(g), f.off, len)
  BY <1>1, PieceBounds
<1>3. Bytes(f) = N \cup rest /\ (\A i \in N : i \notin rest /\ i \in 0..(m - 1))
  BY <1>0, <1>2 DEF More, Apart
<1>4. ASSUME NEW k \in (c + 1)..Len(fr)
      PROVE  /\ fr[k] \in Fragments /\ FragmentOf(fr[k], b, m) /\ f.off + f.len <= fr[k].off
             /\ fr[k].off \in Nat /\ fr[k].len \in Nat
  <2>1. k \in 1..Len(fr) /\ k \in c..Len(fr) /\ c \in c..Len(fr) /\ c < k
    BY <1>0
  <2>2. fr[k] \in Fragments
    BY <2>1
  <2>3. FragmentOf(fr[k], b, m) /\ f.off + f.len <= fr[k].off
    BY <2>1 DEF FragmentsOf
  <2>4. QED
    BY <2>2, <2>3, FragmentFields
<1>5. \A k \in (c + 1)..Len(fr), i \in Bytes(f) : i \notin Bytes(fr[k])
  <2> SUFFICES ASSUME NEW k \in (c + 1)..Len(fr), NEW i \in Bytes(f) PROVE i \notin Bytes(fr[k])
    OBVIOUS
  <2>1. i \in f.off..(f.off + f.len - 1)
    BY DEF Bytes
  <2>2. i \in Int /\ i < fr[k].off
    <3> DEFINE o == f.off  l == f.len  q == fr[k].off
    <3>1. o \in Nat /\ l \in Nat /\ q \in Nat /\ o + l <= q /\ i \in o..(o + l - 1)
      BY <1>1, <1>4, <2>1
    <3> HIDE DEF o, l, q
    <3>2. i \in Int /\ i < q
      BY <3>1
    <3>3. QED
      BY <3>2 DEF q
  <2>3. QED
    BY <1>4, <2>2 DEF Bytes
<1>6. c..Len(fr) = {c} \cup ((c + 1)..Len(fr))
  BY <1>0
<1> HIDE DEF rest, N, g, len, f
<1>7. ASSUME NEW i
      PROVE  i \in There(fr, c, m) <=> i \in 0..(m - 1) /\ i \notin Bytes(f) /\ \A k \in (c + 1)..Len(fr) : i \notin Bytes(fr[k])
  <2>1. i \in There(fr, c, m) <=> i \in 0..(m - 1) /\ \A k \in c..Len(fr) : i \notin Bytes(fr[k])
    BY Zenon DEF There
  <2>2. QED
    BY <1>6, <2>1 DEF f
<1>8. Apart(There(fr, c, m), f.off, len)
  BY <1>3, <1>7 DEF Apart, N
<1>9. /\ fr2 \in Seq(Fragments) /\ Len(fr2) = Len(fr) /\ FragmentsOf(fr2, c2, b, m)
      /\ \A i : i \in There(fr2, c2, m) <=>
                 i \in 0..(m - 1) /\ i \notin rest /\ \A k \in (c + 1)..Len(fr) : i \notin Bytes(fr[k])
  <2>0. ASSUME NEW i
        PROVE  i \in There(fr2, c2, m) <=> i \in 0..(m - 1) /\ \A k \in c2..Len(fr2) : i \notin Bytes(fr2[k])
    BY Zenon DEF There
  <2>1. CASE f.len <= Piece /\ c2 = c + 1 /\ fr2 = fr
    <3>1. FragmentsOf(fr2, c2, b, m)
      BY <1>0, <2>1 DEF FragmentsOf
    <3>2. rest = {}
      BY <1>0, <1>1, <2>1 DEF rest
    <3>3. QED
      BY <2>0, <2>1, <3>1, <3>2
  <2>2. CASE f.len > Piece /\ c2 = c /\ fr2 = [fr EXCEPT ![c] = g]
    <3>1. g \in Fragments /\ FragmentOf(g, b, m) /\ g.off + g.len = f.off + f.len
      BY <1>2, <2>2
    <3>2. /\ fr2 \in Seq(Fragments) /\ Len(fr2) = Len(fr) /\ fr2[c] = g
          /\ \A k \in 1..Len(fr) : k # c => fr2[k] = fr[k]
      BY <2>2, <3>1
    <3>3. rest = Bytes(g)
      BY <2>2 DEF rest
    <3>4. ASSUME NEW k \in (c + 1)..Len(fr) PROVE fr2[k] = fr[k] /\ k # c
      BY <1>0, <3>2
    <3>5. ASSUME NEW k \in c..Len(fr2) PROVE FragmentOf(fr2[k], b, m)
      BY <1>4, <1>6, <3>1, <3>2, <3>4
    <3>6. ASSUME NEW j \in c..Len(fr2), NEW k \in c..Len(fr2), j < k
          PROVE  fr2[j].off + fr2[j].len <= fr2[k].off
      <4>1. k \in (c + 1)..Len(fr)
        BY <1>0, <3>2, <3>6
      <4>2. CASE j = c
        BY <1>4, <3>1, <3>2, <3>4, <4>1, <4>2
      <4>3. CASE j # c
        <5>1. j \in (c + 1)..Len(fr) /\ j \in c..Len(fr) /\ k \in c..Len(fr)
          BY <1>0, <3>2, <4>3
        <5>2. fr[j].off + fr[j].len <= fr[k].off
          BY <3>6, <5>1 DEF FragmentsOf
        <5>3. QED
          BY <3>4, <4>1, <5>1, <5>2
      <4>4. QED
        BY <4>2, <4>3
    <3>7. FragmentsOf(fr2, c2, b, m)
      BY <2>2, <3>5, <3>6 DEF FragmentsOf
    <3>8. ASSUME NEW i
          PROVE  (\A k \in c2..Len(fr2) : i \notin Bytes(fr2[k])) <=>
                 i \notin rest /\ \A k \in (c + 1)..Len(fr) : i \notin Bytes(fr[k])
      BY <1>6, <2>2, <3>2, <3>3, <3>4
    <3>9. QED
      BY <2>0, <3>2, <3>7, <3>8
  <2>3. QED
    BY <2>1, <2>2 DEF NextPiece, f, len, g
<1>10. There(fr2, c2, m) = More(There(fr, c, m), f.off, len)
  <2>1. ASSUME NEW i PROVE i \in There(fr2, c2, m) <=> i \in There(fr, c, m) \/ i \in N
    BY <1>3, <1>5, <1>7, <1>9
  <2>2. QED
    BY <2>1 DEF More, N
<1>12. QED
  BY <1>8, <1>9, <1>10 DEF f, len

-----------------------------------------------------------------------------
ReadKinds == {"load", "move", "sevload"}
WriteKinds == {"store", "move", "sevstore"}
InsnOf(insn) ==
    /\ insn.n \in 1..MaxBytes
    /\ insn.kind \in ReadKinds => insn.from \in Addrs
    /\ insn.kind \in WriteKinds => insn.to \in Addrs

\* The operand is whole where the instruction reads, and stored where it writes.
Whole(insn, v) == insn.kind \in ReadKinds => Loaded(v, insn.from, 0..(insn.n - 1))
Exact(insn, v, st, ct) ==
    /\ Whole(insn, v)
    /\ insn.kind \in WriteKinds => Written(v, st, ct, insn.to, 0..(insn.n - 1))
    /\ insn.kind \notin WriteKinds => Empty(ct)
\* What a fault leaves of it.
Partial(insn, v, st, ct) ==
    /\ insn.kind \in WriteKinds => StoredSome(v, st, ct, insn.to, FirstPart(insn.to, insn.n))
    /\ insn.kind \notin WriteKinds => Empty(ct)

\* A load waits for fragments c and later; so does a store, of which D is done.
LoadWaits(insn, v, ct, fr, c) ==
    /\ insn.kind \in ReadKinds /\ FragmentsOf(fr, c, insn.from, insn.n) /\ Empty(ct)
    /\ Loaded(v, insn.from, There(fr, c, insn.n))
StoreWaits(insn, v, st, ct, fr, c, D) ==
    /\ insn.kind \in WriteKinds /\ FragmentsOf(fr, c, insn.to, insn.n) /\ Whole(insn, v)
    /\ Written(v, st, ct, insn.to, D)
MmioAnswer(f) == [i \in 1..PieceLen(f) |-> f.gpa + i - 1]

MmioShape ==
    /\ mmioPc \in {"guest", "read", "write", "exit", "complete"}
    /\ val \in Operands /\ stored \in Contents /\ count \in Contents
    /\ frags \in Seq(Fragments) /\ Len(frags) <= MaxFragments /\ mmioCur \in 0..(MaxFragments + 1)
    /\ run.len \in 0..Piece
    /\ isWrite \in {TRUE, FALSE} /\ completed \in {TRUE, FALSE}
    /\ mmioPc # "guest" => InsnOf(mmioInsn)

AtGuest ==
    mmioPc = "guest" => /\ needed = FALSE /\ completed = FALSE
                        /\ outcome = "done" => Exact(mmioInsn, val, stored, count)
                        /\ outcome = "fault" => Partial(mmioInsn, val, stored, count)
AtRead ==
    mmioPc = "read" => /\ needed = FALSE /\ mmioInsn.kind \in {"load", "move"} /\ Empty(count)
                       /\ completed = TRUE => Whole(mmioInsn, val)
AtWrite ==
    mmioPc = "write" => /\ needed = FALSE /\ completed = FALSE /\ mmioInsn.kind \in {"store", "move"}
                        /\ Empty(count) /\ Whole(mmioInsn, val)
AtExit ==
    mmioPc = "exit" =>
      /\ needed = TRUE /\ completed = FALSE /\ mmioCur \in 1..Len(frags)
      /\ run = PieceOf(frags[mmioCur], val, isWrite)
      /\ isWrite = FALSE => LoadWaits(mmioInsn, val, count, frags, mmioCur)
      /\ isWrite = TRUE => StoreWaits(mmioInsn, val, stored, count, frags, mmioCur,
                                      There(frags, mmioCur, mmioInsn.n))
AtComplete ==
    mmioPc = "complete" =>
      /\ needed = TRUE /\ completed = FALSE /\ mmioCur \in 1..Len(frags)
      /\ isWrite = FALSE => /\ LoadWaits(mmioInsn, val, count, frags, mmioCur)
                            /\ run.data = MmioAnswer(frags[mmioCur])
      /\ isWrite = TRUE => StoreWaits(mmioInsn, val, stored, count, frags, mmioCur,
                               More(There(frags, mmioCur, mmioInsn.n), frags[mmioCur].off,
                                    PieceLen(frags[mmioCur])))

MmioInv == MmioShape /\ AtGuest /\ AtRead /\ AtWrite /\ AtExit /\ AtComplete

LEMMA MmioInitInv == MmioInit => MmioInv
<1> SUFFICES ASSUME MmioInit PROVE MmioInv
  OBVIOUS
<1>1. /\ mmioPc = "guest" /\ frags = <<>> /\ mmioCur = 0 /\ needed = FALSE /\ isWrite = FALSE /\ completed = FALSE
      /\ run = NoRun /\ outcome = "none"
  BY DEF MmioInit
<1>2. val \in Operands /\ stored \in Contents /\ count \in Contents
  BY DEF MmioInit, Operands, Contents, MmioNone
<1>3. run.len = 0 /\ 0 \in 0..Piece /\ 0 \in 0..(MaxFragments + 1) /\ frags \in Seq(Fragments) /\ Len(frags) <= MaxFragments
  BY <1>1, PageSizes DEF NoRun, MaxFragments
<1>4. MmioShape
  BY <1>1, <1>2, <1>3 DEF MmioShape
<1>5. QED
  BY <1>1, <1>4 DEF MmioInv, AtGuest, AtRead, AtWrite, AtExit, AtComplete

LEMMA MmioInvExact == MmioInv => MmioTypeOK /\ LoadExact /\ StoredOnce /\ OneAccessAtATime
<1> SUFFICES ASSUME MmioInv PROVE MmioTypeOK /\ LoadExact /\ StoredOnce /\ OneAccessAtATime
  OBVIOUS
<1>1. MmioTypeOK
  BY DEF MmioInv, MmioShape, MmioTypeOK
<1>2. LoadExact
  BY DEF MmioInv, AtGuest, Exact, Whole, Loaded, ReadKinds, LoadExact
<1>3. StoredOnce
  <2> DEFINE n == IF mmioInsn.kind \in {"store", "move", "sevstore"} THEN mmioInsn.n ELSE 0
  <2>0. ASSUME mmioPc = "guest", outcome = "fault"
        PROVE  StoredSome(val, stored, count, mmioInsn.to,
                          IF mmioInsn.kind \in {"store", "move", "sevstore"} THEN FirstPart(mmioInsn.to, n) ELSE {})
    <3>1. Partial(mmioInsn, val, stored, count)
      BY <2>0 DEF MmioInv, AtGuest
    <3>2. CASE mmioInsn.kind \in WriteKinds
      <4>1. n = mmioInsn.n /\ StoredSome(val, stored, count, mmioInsn.to, FirstPart(mmioInsn.to, mmioInsn.n))
        BY <3>1, <3>2 DEF Partial, WriteKinds
      <4>2. QED
        BY <3>2, <4>1 DEF WriteKinds
    <3>3. CASE mmioInsn.kind \notin WriteKinds
      BY <3>1, <3>3 DEF Partial, Empty, StoredSome, WriteKinds
    <3>4. QED
      BY <3>2, <3>3
  <2> SUFFICES ASSUME mmioPc = "guest", outcome = "done", NEW a \in Addrs
               PROVE  IF \E i \in 0..(n - 1) : a = Wrap(mmioInsn.to + i)
                      THEN count[a] = 1 /\ \A i \in 0..(n - 1) : a = Wrap(mmioInsn.to + i) => stored[a] = val[i]
                      ELSE count[a] = 0
    BY <2>0 DEF StoredOnce
  <2>1. Exact(mmioInsn, val, stored, count)
    BY DEF MmioInv, AtGuest
  <2>2. CASE mmioInsn.kind \in WriteKinds
    <3>1. n = mmioInsn.n /\ Written(val, stored, count, mmioInsn.to, 0..(n - 1))
      BY <2>1, <2>2 DEF Exact, WriteKinds
    <3> HIDE DEF n
    <3>2. QED
      BY <3>1 DEF Written
  <2>3. CASE mmioInsn.kind \notin WriteKinds
    <3>1. n = 0 /\ count[a] = 0
      BY <2>1, <2>3 DEF Exact, WriteKinds, Empty
    <3> HIDE DEF n
    <3>2. ~\E i \in 0..(n - 1) : a = Wrap(mmioInsn.to + i)
      BY <3>1
    <3>3. QED
      BY <3>1, <3>2
  <2>4. QED
    BY <2>2, <2>3
<1>4. OneAccessAtATime
  <2>1. needed = TRUE <=> mmioPc \in {"exit", "complete"}
    BY DEF MmioInv, MmioShape, AtGuest, AtRead, AtWrite, AtExit, AtComplete
  <2>2. needed = TRUE \/ needed = FALSE
    BY DEF MmioInv, MmioShape, AtGuest, AtRead, AtWrite, AtExit, AtComplete
  <2>3. mmioPc = "guest" => completed = FALSE
    BY DEF MmioInv, AtGuest
  <2>4. completed = TRUE => mmioInsn.kind \in {"load", "move"} /\ mmioPc = "read"
    BY DEF MmioInv, MmioShape, AtGuest, AtRead, AtWrite, AtExit, AtComplete
  <2>5. completed = TRUE \/ completed = FALSE
    BY DEF MmioInv, MmioShape
  <2>6. QED
    BY <2>1, <2>2, <2>3, <2>4, <2>5 DEF OneAccessAtATime
<1>5. QED
  BY <1>1, <1>2, <1>3, <1>4

-----------------------------------------------------------------------------
LEMMA AllThere ==
    ASSUME NEW fr, Len(fr) \in Nat, NEW c \in Nat, c > Len(fr), NEW n
    PROVE  There(fr, c, n) = 0..(n - 1)
<1>1. c..Len(fr) = {}
  OBVIOUS
<1>2. QED
  BY <1>1 DEF There

LEMMA StartInv ==
    ASSUME MmioInv, NEW kind \in {"load", "store", "move"}, NEW from, NEW to, NEW n \in 1..MaxBytes,
           kind # "store" => from \in Addrs, kind # "load" => to \in Addrs, Start(kind, from, to, n)
    PROVE  MmioInv'
<1>1. /\ mmioInsn'.kind = kind /\ mmioInsn'.from = from /\ mmioInsn'.to = to /\ mmioInsn'.n = n
      /\ mmioPc' = IF kind = "store" THEN "write" ELSE "read"
  BY DEF Start
<1>2. needed = FALSE /\ completed = FALSE /\ val \in Operands
  BY DEF MmioInv, AtGuest, MmioShape, Start
<1>3. val' \in Operands
  <2>1. \A i \in 0..(MaxBytes - 1) : Imm(i) \in Int /\ MmioNone \in Int
    BY PageSizes DEF Imm, MmioNone
  <2>2. DOMAIN val = 0..(MaxBytes - 1)
    BY <1>2 DEF Operands
  <2>3. val' = [i \in 0..(MaxBytes - 1) |-> IF kind = "store" /\ i < n THEN Imm(i) ELSE MmioNone]
    BY <2>2 DEF Start
  <2>4. QED
    BY <2>1, <2>3 DEF Operands
<1>4. stored' \in Contents /\ count' \in Contents /\ Empty(count')
  BY DEF Start, Contents, Empty, MmioNone
<1>5. frags' = frags /\ mmioCur' = mmioCur /\ needed' = FALSE /\ isWrite' = isWrite /\ completed' = FALSE /\ run' = run
  BY <1>2 DEF Start
<1>6. InsnOf(mmioInsn')
  BY <1>1 DEF InsnOf, ReadKinds, WriteKinds
<1>7. MmioShape'
  BY <1>1, <1>3, <1>4, <1>5, <1>6 DEF MmioInv, MmioShape
<1>8. kind = "store" => Whole(mmioInsn', val')
  BY <1>1 DEF Whole, ReadKinds
<1>9. AtRead' /\ AtWrite'
  BY <1>1, <1>4, <1>5, <1>8 DEF AtRead, AtWrite
<1>10. QED
  BY <1>1, <1>7, <1>9 DEF MmioInv, AtGuest, AtExit, AtComplete

LEMMA PreparedInv == ASSUME MmioInv, ReadPrepared PROVE MmioInv'
<1>1. /\ mmioPc = "read" /\ completed = TRUE /\ completed' = FALSE /\ mmioInsn' = mmioInsn /\ val' = val
      /\ frags' = frags /\ mmioCur' = mmioCur /\ needed' = needed /\ isWrite' = isWrite /\ run' = run
      /\ stored' = stored /\ count' = count
      /\ mmioPc' = IF mmioInsn.kind = "move" THEN "write" ELSE "guest"
      /\ mmioPc' = "guest" => outcome' = "done"
  BY DEF ReadPrepared, Retire, ClearCompleted, MmioInv, MmioShape
<1>2. needed = FALSE /\ mmioInsn.kind \in {"load", "move"} /\ Empty(count) /\ Whole(mmioInsn, val)
  BY <1>1 DEF MmioInv, AtRead
<1>3. MmioShape'
  BY <1>1 DEF MmioInv, MmioShape
<1>4. mmioInsn.kind = "load" => Exact(mmioInsn, val, stored, count)
  BY <1>2 DEF Exact, WriteKinds
<1>5. AtGuest' /\ AtWrite'
  BY <1>1, <1>2, <1>4 DEF AtGuest, AtWrite
<1>6. QED
  BY <1>1, <1>2, <1>3, <1>5 DEF MmioInv, AtRead, AtExit, AtComplete

LEMMA FragmentLen == ASSUME NEW f \in Fragments PROVE PieceLen(f) \in 1..Piece
<1>1. f.len \in Nat /\ f.len > 0 /\ Piece \in Nat \ {0}
  BY FragmentFields, PageSizes
<1>2. QED
  BY <1>1 DEF PieceLen, Min2

\* What goes out with a piece of a store: len bytes of v from off on.
PieceData(v, off, len) == [i \in 1..len |-> v[off + i - 1]]

LEMMA PieceFields ==
    ASSUME NEW f \in Fragments, NEW v, NEW write, write \in {TRUE, FALSE}, NEW r, r = PieceOf(f, v, write)
    PROVE  /\ r.addr = f.gpa /\ r.len = PieceLen(f) /\ r.write = write /\ r.len \in 0..Piece
           /\ write = TRUE => r.data = PieceData(v, f.off, PieceLen(f))
<1>1. PieceLen(f) \in 0..Piece
  BY FragmentLen
<1>2. QED
  BY <1>1 DEF PieceOf, PieceData

\* An access that leaves fragments waits for them, and its first piece goes out.
LEMMA ReadInv == ASSUME MmioInv, EmulateRead PROVE MmioInv'
<1>1. /\ mmioPc = "read" /\ completed = FALSE /\ needed = FALSE /\ mmioInsn.kind \in {"load", "move"} /\ Empty(count)
      /\ InsnOf(mmioInsn) /\ val \in Operands /\ stored \in Contents /\ count \in Contents
  BY DEF EmulateRead, MmioInv, MmioShape, AtRead
<1>2. PICK s : /\ s = emulator_read_write(mmioInsn.from, mmioInsn.n, FALSE)
               /\ val' = s.v /\ stored' = s.st /\ count' = s.ct /\ frags' = s.fr
               /\ \/ /\ s.fault = TRUE /\ mmioPc' = "guest" /\ outcome' = "fault"
                     /\ UNCHANGED <<mmioCur, needed, isWrite, run>>
                  \/ /\ s.fault # TRUE /\ s.fr = <<>> /\ mmioPc' = IF mmioInsn.kind = "move" THEN "write" ELSE "guest"
                     /\ mmioPc' = "guest" => outcome' = "done"
                     /\ UNCHANGED <<mmioCur, needed, isWrite, run>>
                  \/ /\ s.fault # TRUE /\ s.fr # <<>> /\ needed' = TRUE /\ mmioCur' = 1 /\ isWrite' = FALSE
                     /\ run' = PieceOf(s.fr[1], s.v, FALSE) /\ mmioPc' = "exit"
  BY DEF EmulateRead, Retire
<1>3. mmioInsn' = mmioInsn /\ completed' = FALSE
  BY <1>1 DEF EmulateRead
<1>4. mmioInsn.from \in Addrs /\ mmioInsn.n \in 1..MaxBytes /\ mmioInsn.kind \in ReadKinds
  BY <1>1 DEF InsnOf, ReadKinds
<1>5. Accesses(s, mmioInsn.from, mmioInsn.n, FALSE)
  BY <1>1, <1>2, <1>4, AccessReaches
<1>6. /\ val' \in Operands /\ stored' \in Contents /\ count' \in Contents /\ frags' \in Seq(Fragments)
      /\ Len(frags') <= MaxFragments /\ Len(frags') \in Nat /\ Empty(count')
  <2>1. /\ s.v \in Operands /\ s.st \in Contents /\ s.ct \in Contents /\ s.fr \in Seq(Fragments)
        /\ Len(s.fr) <= MaxFragments /\ s.ct = count
    BY <1>5 DEF Accesses, IsAccess
  <2>2. Len(s.fr) \in Nat
    BY <2>1
  <2>3. QED
    BY <1>1, <1>2, <2>1, <2>2
<1>7. s.fault # TRUE => /\ FragmentsOf(frags', 1, mmioInsn.from, mmioInsn.n)
                        /\ Loaded(val', mmioInsn.from, There(frags', 1, mmioInsn.n))
  BY <1>2, <1>5 DEF Accesses, Reaches
<1>8. CASE s.fault = TRUE
  <2>1. mmioPc' = "guest" /\ outcome' = "fault" /\ UNCHANGED <<mmioCur, needed, isWrite, run>>
    BY <1>2, <1>8
  <2>2. MmioShape'
    BY <1>3, <1>6, <2>1 DEF MmioInv, MmioShape
  <2>3. Partial(mmioInsn, val', stored', count')
    BY <1>6 DEF Partial, Empty, StoredSome
  <2>4. QED
    BY <1>1, <1>3, <2>1, <2>2, <2>3 DEF MmioInv, AtGuest, AtRead, AtWrite, AtExit, AtComplete
<1>9. CASE s.fault # TRUE /\ s.fr = <<>>
  <2>1. mmioPc' = (IF mmioInsn.kind = "move" THEN "write" ELSE "guest") /\ (mmioPc' = "guest" => outcome' = "done")
        /\ UNCHANGED <<mmioCur, needed, isWrite, run>>
    BY <1>2, <1>9
  <2>2. There(frags', 1, mmioInsn.n) = 0..(mmioInsn.n - 1)
    <3>1. Len(frags') \in Nat /\ 1 \in Nat /\ 1 > Len(frags')
      <4>1. frags' = <<>>
        BY <1>2, <1>9
      <4>2. QED
        BY <4>1
    <3>2. QED
      BY <3>1, AllThere
  <2>3. Whole(mmioInsn, val')
    BY <1>7, <1>9, <2>2 DEF Whole
  <2>4. mmioInsn.kind = "load" => Exact(mmioInsn, val', stored', count')
    BY <1>6, <2>3 DEF Exact, WriteKinds
  <2>5. MmioShape'
    BY <1>1, <1>3, <1>6, <2>1 DEF MmioInv, MmioShape
  <2>6. AtGuest' /\ AtWrite'
    BY <1>1, <1>3, <1>6, <2>1, <2>3, <2>4 DEF AtGuest, AtWrite
  <2>7. QED
    BY <2>1, <2>5, <2>6 DEF MmioInv, AtRead, AtExit, AtComplete
<1>10. CASE s.fault # TRUE /\ s.fr # <<>>
  <2>1. /\ needed' = TRUE /\ mmioCur' = 1 /\ isWrite' = FALSE /\ run' = PieceOf(frags'[1], val', FALSE) /\ mmioPc' = "exit"
    BY <1>2, <1>10
  <2>2. 1 \in 1..Len(frags') /\ frags'[1] \in Fragments
    <3>1. s.fr \in Seq(Fragments) /\ s.fr # <<>>
      BY <1>2, <1>6, <1>10
    <3>2. 1 \in 1..Len(s.fr) /\ s.fr[1] \in Fragments
      BY <3>1
    <3>3. QED
      BY <1>2, <3>2
  <2>3. run'.len \in 0..Piece
    BY <2>1, <2>2, PieceFields
  <2>4. MmioShape'
    <3>1. mmioCur' \in 0..(MaxFragments + 1)
      BY <2>1 DEF MaxFragments
    <3>2. isWrite' \in {TRUE, FALSE} /\ completed' \in {TRUE, FALSE}
      BY <1>3, <2>1
    <3>3. QED
      BY <1>1, <1>3, <1>6, <2>1, <2>3, <3>1, <3>2 DEF MmioShape
  <2>5. LoadWaits(mmioInsn, val', count', frags', 1)
    BY <1>4, <1>6, <1>7, <1>10 DEF LoadWaits
  <2>6. AtExit'
    BY <1>3, <2>1, <2>2, <2>5 DEF AtExit
  <2>7. QED
    BY <2>1, <2>4, <2>6 DEF MmioInv, AtGuest, AtRead, AtWrite, AtComplete
<1>11. QED
  BY <1>8, <1>9, <1>10

LEMMA WriteInv == ASSUME MmioInv, EmulateWrite PROVE MmioInv'
<1>1. /\ mmioPc = "write" /\ completed = FALSE /\ needed = FALSE /\ mmioInsn.kind \in {"store", "move"} /\ Empty(count)
      /\ Whole(mmioInsn, val)
      /\ InsnOf(mmioInsn) /\ val \in Operands /\ stored \in Contents /\ count \in Contents
  BY DEF EmulateWrite, MmioInv, MmioShape, AtWrite
<1>2. PICK s : /\ s = emulator_read_write(mmioInsn.to, mmioInsn.n, TRUE)
               /\ val' = s.v /\ stored' = s.st /\ count' = s.ct /\ frags' = s.fr
               /\ \/ /\ s.fault = TRUE /\ mmioPc' = "guest" /\ outcome' = "fault"
                     /\ UNCHANGED <<mmioCur, needed, isWrite, run>>
                  \/ /\ s.fault # TRUE /\ s.fr = <<>> /\ mmioPc' = "guest" /\ outcome' = "done"
                     /\ UNCHANGED <<mmioCur, needed, isWrite, run>>
                  \/ /\ s.fault # TRUE /\ s.fr # <<>> /\ needed' = TRUE /\ mmioCur' = 1 /\ isWrite' = TRUE
                     /\ run' = PieceOf(s.fr[1], s.v, TRUE) /\ mmioPc' = "exit"
  BY DEF EmulateWrite, Retire, Faulted
<1>3. mmioInsn' = mmioInsn /\ completed' = FALSE
  BY <1>1 DEF EmulateWrite
<1>4. mmioInsn.to \in Addrs /\ mmioInsn.n \in 1..MaxBytes /\ mmioInsn.kind \in WriteKinds
  BY <1>1 DEF InsnOf, WriteKinds
<1>5. Accesses(s, mmioInsn.to, mmioInsn.n, TRUE)
  BY <1>1, <1>2, <1>4, AccessReaches
<1>6. /\ val' \in Operands /\ stored' \in Contents /\ count' \in Contents /\ frags' \in Seq(Fragments)
      /\ Len(frags') <= MaxFragments /\ Len(frags') \in Nat /\ val' = val
  <2>1. /\ s.v \in Operands /\ s.st \in Contents /\ s.ct \in Contents /\ s.fr \in Seq(Fragments)
        /\ Len(s.fr) <= MaxFragments /\ s.v = val
    BY <1>5 DEF Accesses, IsAccess
  <2>2. Len(s.fr) \in Nat
    BY <2>1
  <2>3. QED
    BY <1>1, <1>2, <2>1, <2>2
<1>7. s.fault # TRUE => /\ FragmentsOf(frags', 1, mmioInsn.to, mmioInsn.n)
                        /\ Written(val', stored', count', mmioInsn.to, There(frags', 1, mmioInsn.n))
  BY <1>2, <1>5 DEF Accesses, Reaches
<1>8. CASE s.fault = TRUE
  <2>1. mmioPc' = "guest" /\ outcome' = "fault" /\ UNCHANGED <<mmioCur, needed, isWrite, run>>
    BY <1>2, <1>8
  <2>2. MmioShape'
    BY <1>3, <1>6, <2>1 DEF MmioInv, MmioShape
  <2>3. Partial(mmioInsn, val', stored', count')
    BY <1>2, <1>4, <1>5, <1>8 DEF Accesses, Partial
  <2>4. QED
    BY <1>1, <1>3, <2>1, <2>2, <2>3 DEF MmioInv, AtGuest, AtRead, AtWrite, AtExit, AtComplete
<1>9. CASE s.fault # TRUE /\ s.fr = <<>>
  <2>1. mmioPc' = "guest" /\ outcome' = "done" /\ UNCHANGED <<mmioCur, needed, isWrite, run>>
    BY <1>2, <1>9
  <2>2. There(frags', 1, mmioInsn.n) = 0..(mmioInsn.n - 1)
    <3>1. Len(frags') \in Nat /\ 1 \in Nat /\ 1 > Len(frags')
      <4>1. frags' = <<>>
        BY <1>2, <1>9
      <4>2. QED
        BY <4>1
    <3>2. QED
      BY <3>1, AllThere
  <2>4. Exact(mmioInsn, val', stored', count')
    BY <1>1, <1>4, <1>6, <1>7, <1>9, <2>2 DEF Exact
  <2>5. MmioShape'
    BY <1>1, <1>3, <1>6, <2>1 DEF MmioInv, MmioShape
  <2>6. AtGuest'
    BY <1>1, <1>3, <2>1, <2>4 DEF AtGuest
  <2>7. QED
    BY <2>1, <2>5, <2>6 DEF MmioInv, AtRead, AtWrite, AtExit, AtComplete
<1>10. CASE s.fault # TRUE /\ s.fr # <<>>
  <2>1. /\ needed' = TRUE /\ mmioCur' = 1 /\ isWrite' = TRUE /\ run' = PieceOf(frags'[1], val', TRUE) /\ mmioPc' = "exit"
    BY <1>2, <1>10
  <2>2. 1 \in 1..Len(frags') /\ frags'[1] \in Fragments
    <3>1. s.fr \in Seq(Fragments) /\ s.fr # <<>>
      BY <1>2, <1>6, <1>10
    <3>2. 1 \in 1..Len(s.fr) /\ s.fr[1] \in Fragments
      BY <3>1
    <3>3. QED
      BY <1>2, <3>2
  <2>3. run'.len \in 0..Piece
    BY <2>1, <2>2, PieceFields
  <2>4. MmioShape'
    <3>1. mmioCur' \in 0..(MaxFragments + 1)
      BY <2>1 DEF MaxFragments
    <3>2. isWrite' \in {TRUE, FALSE} /\ completed' \in {TRUE, FALSE}
      BY <1>3, <2>1
    <3>3. QED
      BY <1>1, <1>3, <1>6, <2>1, <2>3, <3>1, <3>2 DEF MmioShape
  <2>5. StoreWaits(mmioInsn, val', stored', count', frags', 1, There(frags', 1, mmioInsn.n))
    BY <1>1, <1>4, <1>6, <1>7, <1>10 DEF StoreWaits
  <2>6. AtExit'
    BY <1>3, <2>1, <2>2, <2>5 DEF AtExit
  <2>7. QED
    BY <2>1, <2>4, <2>6 DEF MmioInv, AtGuest, AtRead, AtWrite, AtComplete
<1>11. QED
  BY <1>8, <1>9, <1>10

LEMMA SevInv ==
    ASSUME MmioInv, NEW addr \in Addrs, NEW n \in 1..MaxBytes, NEW write, write \in {TRUE, FALSE}, SevMmio(addr, n, write)
    PROVE  MmioInv'
<1> DEFINE v == [i \in DOMAIN val |-> IF write /\ i < n THEN Imm(i) ELSE MmioNone]
           st == [a \in Addrs |-> MmioNone]  ct == [a \in Addrs |-> 0]
           h == Served(addr, n)  s0 == Access(v, st, ct, <<>>, FALSE)  s == Move(s0, addr, 0, h, write)
           f == [gpa |-> addr + h, off |-> h, len |-> n - h]
<1>1. /\ mmioPc = "guest" /\ completed' = completed /\ addr + n - 1 \in Addrs
      /\ mmioInsn' = [kind |-> IF write THEN "sevstore" ELSE "sevload", from |-> addr, to |-> addr, n |-> n]
      /\ val' = s.v /\ stored' = s.st /\ count' = s.ct
      /\ \/ h = n /\ mmioPc' = "guest" /\ outcome' = "done" /\ UNCHANGED <<frags, mmioCur, needed, isWrite, run>>
         \/ /\ h # n /\ frags' = <<f>> /\ needed' = TRUE /\ mmioCur' = 1 /\ isWrite' = write
            /\ run' = PieceOf(frags'[1], s.v, write) /\ mmioPc' = "exit"
  BY DEF SevMmio, Retire
<1>2. /\ mmioInsn'.from = addr /\ mmioInsn'.to = addr /\ mmioInsn'.n = n
      /\ write = TRUE => mmioInsn'.kind = "sevstore"
      /\ write = FALSE => mmioInsn'.kind = "sevload"
  BY <1>1
<1>3. needed = FALSE /\ completed = FALSE /\ val \in Operands
  BY <1>1 DEF MmioInv, AtGuest, MmioShape
<1>4. v \in Operands
  <2>1. \A i \in 0..(MaxBytes - 1) : Imm(i) \in Int /\ MmioNone \in Int
    BY PageSizes DEF Imm, MmioNone
  <2>2. DOMAIN val = 0..(MaxBytes - 1)
    BY <1>3 DEF Operands
  <2>3. v = [i \in 0..(MaxBytes - 1) |-> IF write /\ i < n THEN Imm(i) ELSE MmioNone]
    BY <2>2
  <2>4. QED
    BY <2>1, <2>3 DEF Operands
<1>5. st \in Contents /\ ct \in Contents /\ Empty(ct)
  BY DEF Contents, Empty, MmioNone
<1>6. h \in 0..n
  BY ServedBounds
<1> HIDE DEF v, st, ct, h
<1>7. /\ s0.v = v /\ s0.st = st /\ s0.ct = ct /\ s0.fr = <<>> /\ s0.fault = FALSE
      /\ s0 = Access(s0.v, s0.st, s0.ct, s0.fr, s0.fault)
  BY DEF Access
<1> HIDE DEF s0
<1>8. IsAccess(s0) /\ Reaches(s0, addr, 0, write)
  <2>1. IsAccess(s0)
    BY <1>4, <1>5, <1>7 DEF IsAccess
  <2>2. Reaches(s0, addr, 0, write)
    BY <1>5, <1>7, NothingYet DEF Reaches
  <2>3. QED
    BY <2>1, <2>2
<1>9. /\ addr \in Nat /\ n \in Nat /\ h \in Nat /\ 0 + h <= MaxBytes /\ 0 + n <= MaxBytes /\ addr + n <= Size
      /\ addr + h <= Size /\ 0 + h = h /\ 0 + n = n /\ 0 \in Nat /\ addr < Size /\ Size \in Nat /\ addr + 0 = addr
  BY <1>1, <1>6, PageSizes
<1>10. Follow(addr, 0, addr, n) /\ Follow(addr, 0, addr, h)
  <2>1. addr = Wrap(addr + 0)
    <3>1. addr \in 0..(Size + Size - 1)
      BY <1>9
    <3>2. QED
      BY <1>9, <3>1, WrapIs
  <2>2. QED
    BY <1>9, <2>1, FollowPage
<1>11. Moves(s0, s, addr, h, write)
  <2>1. Moves(s0, s, addr, 0 + h, write)
    BY <1>8, <1>9, <1>10, MoveReaches
  <2>2. QED
    BY <1>9, <2>1
<1> HIDE DEF s
<1>12. /\ val' \in Operands /\ stored' \in Contents /\ count' \in Contents /\ s.fr = <<>>
       /\ write = FALSE => Empty(count')
  BY <1>1, <1>5, <1>7, <1>11 DEF Moves, IsAccess
<1>13. /\ write = TRUE => Written(val', stored', count', addr, There(<<>>, 1, h))
       /\ write = FALSE => Loaded(val', addr, There(<<>>, 1, h))
       /\ FragmentsOf(<<>>, 1, addr, h)
  BY <1>1, <1>11, <1>12 DEF Moves, Reaches
<1>14. <<>> \in Seq(Fragments) /\ Len(<<>>) = 0
  OBVIOUS
<1>15. InsnOf(mmioInsn')
  BY <1>2 DEF InsnOf
<1>16. CASE h = n
  <2>1. mmioPc' = "guest" /\ outcome' = "done" /\ UNCHANGED <<frags, mmioCur, needed, isWrite, run>>
    BY <1>1, <1>16
  <2>2. There(<<>>, 1, n) = 0..(n - 1)
    BY <1>14, AllThere
  <2>3. Exact(mmioInsn', val', stored', count')
    <3>1. CASE write = TRUE
      <4>1. mmioInsn'.kind \notin ReadKinds /\ mmioInsn'.kind \in WriteKinds
        BY <1>2, <3>1 DEF ReadKinds, WriteKinds
      <4>2. QED
        BY <1>2, <1>13, <1>16, <2>2, <3>1, <4>1 DEF Exact, Whole
    <3>2. CASE write = FALSE
      <4>1. mmioInsn'.kind \notin WriteKinds
        BY <1>2, <3>2 DEF WriteKinds
      <4>2. QED
        BY <1>2, <1>12, <1>13, <1>16, <2>2, <3>2, <4>1 DEF Exact, Whole
    <3>3. QED
      BY <3>1, <3>2
  <2>4. MmioShape'
    BY <1>1, <1>12, <2>1 DEF MmioInv, MmioShape
  <2>5. AtGuest'
    BY <1>1, <1>3, <2>1, <2>3 DEF AtGuest
  <2>6. QED
    BY <2>1, <2>4, <2>5 DEF MmioInv, AtRead, AtWrite, AtExit, AtComplete
<1>17. CASE h # n
  <2>1. /\ frags' = <<f>> /\ needed' = TRUE /\ mmioCur' = 1 /\ isWrite' = write
        /\ run' = PieceOf(frags'[1], val', write) /\ mmioPc' = "exit"
    BY <1>1, <1>17
  <2>2. f \in Fragments /\ f.off = h /\ f.gpa = addr + h /\ f.len = n - h /\ h + f.len = n
    <3>1. addr + h \in Nat /\ n - h \in Nat \ {0} /\ h + (n - h) = n
      BY <1>6, <1>9, <1>17
    <3>2. QED
      BY <1>9, <3>1 DEF Fragments
  <2> HIDE DEF f
  <2>3. FragmentOf(f, addr, h + f.len)
    <3>1. ASSUME NEW j \in 0..(f.len - 1) PROVE Wrap(addr + f.off + j) = f.gpa + j
      <4>1. h + j \in 0..(n - 1) /\ addr + 0 + (h + j) = addr + f.off + j /\ addr + (h + j) = f.gpa + j
        BY <1>6, <1>9, <2>2
      <4>2. Wrap(addr + 0 + (h + j)) = addr + (h + j)
        BY <1>10, <4>1 DEF Follow
      <4>3. QED
        BY <4>1, <4>2
    <3>2. QED
      BY <1>6, <1>9, <2>2, <3>1 DEF FragmentOf, Follow
  <2>4. Append(<<>>, f) = <<f>> /\ Len(<<f>>) = 1 /\ <<f>>[1] = f
    OBVIOUS
  <2>5. /\ <<f>> \in Seq(Fragments) /\ FragmentsOf(<<f>>, 1, addr, n) /\ There(<<f>>, 1, n) = There(<<>>, 1, h)
    <3>1. /\ Append(<<>>, f) \in Seq(Fragments) /\ FragmentsOf(Append(<<>>, f), 1, addr, h + f.len)
          /\ There(Append(<<>>, f), 1, h + f.len) = There(<<>>, 1, h)
      BY <1>9, <1>13, <1>14, <2>2, <2>3, ThereAppended
    <3>2. QED
      BY <2>2, <2>4, <3>1
  <2>6. frags' \in Seq(Fragments) /\ Len(frags') = 1 /\ frags'[1] \in Fragments /\ 1 \in 1..Len(frags')
    BY <2>1, <2>2, <2>4, <2>5
  <2>7. run'.len \in 0..Piece
    BY <2>1, <2>6, PieceFields
  <2>8. MmioShape'
    <3>1. mmioCur' \in 0..(MaxFragments + 1) /\ isWrite' \in {TRUE, FALSE} /\ completed' \in {TRUE, FALSE}
          /\ Len(frags') <= MaxFragments
      <4>1. mmioCur' \in 0..(MaxFragments + 1) /\ Len(frags') <= MaxFragments
        BY <2>1, <2>6 DEF MaxFragments
      <4>2. isWrite' \in {TRUE, FALSE} /\ completed' \in {TRUE, FALSE}
        BY <1>1, <1>3, <2>1
      <4>3. QED
        BY <4>1, <4>2
    <3>2. QED
      BY <1>12, <1>15, <2>1, <2>6, <2>7, <3>1 DEF MmioShape
  <2>9. write = FALSE => LoadWaits(mmioInsn', val', count', frags', 1)
    BY <1>2, <1>12, <1>13, <2>1, <2>5 DEF LoadWaits, ReadKinds
  <2>10. write = TRUE => StoreWaits(mmioInsn', val', stored', count', frags', 1, There(frags', 1, n))
    <3>1. write = TRUE => mmioInsn'.kind \in WriteKinds /\ Whole(mmioInsn', val')
      BY <1>2 DEF WriteKinds, ReadKinds, Whole
    <3>2. QED
      BY <1>2, <1>13, <2>1, <2>5, <3>1 DEF StoreWaits
  <2>11. AtExit'
    BY <1>1, <1>2, <1>3, <2>1, <2>6, <2>9, <2>10 DEF AtExit
  <2>12. QED
    BY <2>1, <2>8, <2>11 DEF MmioInv, AtGuest, AtRead, AtWrite, AtComplete
<1>18. QED
  BY <1>16, <1>17

LEMMA UserspaceInv == ASSUME MmioInv, Userspace PROVE MmioInv'
<1> DEFINE f == frags[mmioCur]  len == PieceLen(f)  m == mmioInsn.n
           D == There(frags, mmioCur, m)
<1>1. /\ mmioPc = "exit" /\ mmioPc' = "complete" /\ mmioInsn' = mmioInsn /\ val' = val /\ frags' = frags
      /\ mmioCur' = mmioCur /\ needed' = needed /\ isWrite' = isWrite /\ completed' = completed
  BY DEF Userspace
<1>2. /\ needed = TRUE /\ completed = FALSE /\ mmioCur \in 1..Len(frags)
      /\ run = PieceOf(f, val, isWrite)
      /\ isWrite = FALSE => LoadWaits(mmioInsn, val, count, frags, mmioCur)
      /\ isWrite = TRUE => StoreWaits(mmioInsn, val, stored, count, frags, mmioCur, D)
  BY <1>1 DEF MmioInv, AtExit
<1>3. /\ val \in Operands /\ stored \in Contents /\ count \in Contents /\ frags \in Seq(Fragments)
      /\ isWrite \in {TRUE, FALSE} /\ InsnOf(mmioInsn)
  BY <1>1 DEF MmioInv, MmioShape
<1>4. f \in Fragments
  BY <1>2, <1>3
<1>5. /\ run.addr = f.gpa /\ run.len = len /\ run.write = isWrite /\ run.len \in 0..Piece
      /\ isWrite = TRUE => run.data = PieceData(val, f.off, len)
  <2> HIDE DEF f
  <2>1. QED
    BY <1>2, <1>3, <1>4, PieceFields
<1>6. m \in Nat /\ m <= MaxBytes /\ MaxBytes \in Nat
  BY <1>3, PageSizes DEF InsnOf
<1>7. CASE isWrite = FALSE
  <2>1. /\ run' = [run EXCEPT !.data = [i \in 1..run.len |-> run.addr + i - 1]]
        /\ stored' = stored /\ count' = count
    BY <1>5, <1>7 DEF Userspace
  <2>2. run'.len = run.len /\ run'.data = [i \in 1..len |-> f.gpa + i - 1]
    BY <1>2, <1>5, <2>1 DEF PieceOf
  <2>3. run'.data = MmioAnswer(f)
    BY <2>2 DEF MmioAnswer
  <2>4. MmioShape'
    BY <1>1, <1>5, <2>1, <2>2 DEF MmioInv, MmioShape
  <2>5. AtComplete'
    BY <1>1, <1>2, <1>7, <2>1, <2>3 DEF AtComplete
  <2>6. QED
    BY <1>1, <2>4, <2>5 DEF MmioInv, AtGuest, AtRead, AtWrite, AtExit
<1>8. CASE isWrite = TRUE
  <2>1. StoreWaits(mmioInsn, val, stored, count, frags, mmioCur, D)
    BY <1>2, <1>8
  <2>2. mmioInsn.to \in Addrs /\ FragmentsOf(frags, mmioCur, mmioInsn.to, m)
    BY <1>3, <2>1 DEF StoreWaits, InsnOf
  <2>3. mmioInsn.to \in Nat /\ FragmentOf(f, mmioInsn.to, m)
    <3>1. mmioCur \in mmioCur..Len(frags)
      BY <1>2
    <3>2. QED
      BY <2>2, <3>1, PageSizes DEF FragmentsOf
  <2>4. /\ f.off \in Nat /\ f.gpa \in Nat /\ len \in 1..Piece /\ f.off + len <= m /\ f.gpa + len <= Size
        /\ Follow(mmioInsn.to, f.off, f.gpa, len)
    BY <1>4, <1>6, <2>3, PieceBounds
  <2>5. Apart(D, f.off, len)
    <3> DEFINE c2 == IF f.len <= Piece THEN mmioCur + 1 ELSE mmioCur
               fr2 == IF f.len <= Piece THEN frags ELSE [frags EXCEPT ![mmioCur] = PieceLess(f, len)]
    <3>1. NextPiece(frags, mmioCur, fr2, c2)
      BY <1>4, FragmentFields, PageSizes DEF NextPiece
    <3> HIDE DEF c2, fr2
    <3>2. QED
      BY <1>2, <1>3, <1>6, <2>2, <2>3, <3>1, PieceDone
  <2>6. /\ stored' = PutBytes(val, stored, f.gpa, f.off, len) /\ count' = PutOnce(count, f.gpa, len) /\ run' = run
    <3>1. /\ stored' = [a \in Addrs |-> IF a \in run.addr..(run.addr + run.len - 1)
                                        THEN run.data[a - run.addr + 1] ELSE stored[a]]
          /\ count' = [a \in Addrs |-> IF a \in run.addr..(run.addr + run.len - 1)
                                       THEN count[a] + 1 ELSE count[a]]
          /\ run' = run
      BY <1>5, <1>8 DEF Userspace
    <3>2. ASSUME NEW a \in f.gpa..(f.gpa + len - 1) PROVE run.data[a - f.gpa + 1] = val[f.off + a - f.gpa]
      <4> DEFINE g == f.gpa  o == f.off  l == len
      <4>1. g \in Nat /\ o \in Nat /\ l \in Nat /\ a \in g..(g + l - 1)
        BY <2>4, PageSizes
      <4>2. run.data = [i \in 1..l |-> val[o + i - 1]]
        BY <1>5, <1>8 DEF PieceData
      <4> HIDE DEF g, o, l
      <4>3. a - g + 1 \in 1..l /\ o + (a - g + 1) - 1 = o + a - g
        BY <4>1
      <4>4. run.data[a - g + 1] = val[o + a - g]
        BY <4>2, <4>3
      <4>5. QED
        BY <4>4 DEF g, o
    <3>3. count' = PutOnce(count, f.gpa, len)
      BY <1>5, <3>1 DEF PutOnce
    <3>4. stored' = PutBytes(val, stored, f.gpa, f.off, len)
      BY <1>5, <3>1, <3>2 DEF PutBytes
    <3>5. QED
      BY <3>1, <3>3, <3>4
  <2>7. D \subseteq 0..(MaxBytes - 1) /\ f.off + len <= MaxBytes /\ len \in Nat
    <3>1. D \subseteq 0..(m - 1)
      BY DEF There
    <3>2. QED
      BY <1>6, <2>4, <3>1, PageSizes
  <2> HIDE DEF D, len, f
  <2>8. /\ stored' \in Contents /\ count' \in Contents
        /\ Written(val, stored', count', mmioInsn.to, More(D, f.off, len))
    <3>1. Written(val, stored, count, mmioInsn.to, D)
      BY <2>1 DEF StoreWaits
    <3> DEFINE o == f.off  g == f.gpa  b == mmioInsn.to
    <3>2. /\ b \in Addrs /\ o \in Nat /\ g \in Nat /\ o + len <= MaxBytes /\ g + len <= Size /\ Follow(b, o, g, len)
          /\ Apart(D, o, len) /\ stored' = PutBytes(val, stored, g, o, len) /\ count' = PutOnce(count, g, len)
          /\ Written(val, stored, count, b, D)
      BY <2>2, <2>4, <2>5, <2>6, <2>7, <3>1
    <3> HIDE DEF o, g, b
    <3>3. /\ stored' \in Contents /\ count' \in Contents /\ Written(val, stored', count', b, More(D, o, len))
      BY <1>3, <2>7, <3>2, StoreMore
    <3>4. QED
      BY <3>3 DEF o, b
  <2>9. StoreWaits(mmioInsn, val, stored', count', frags, mmioCur, More(D, f.off, len))
    BY <2>1, <2>8 DEF StoreWaits
  <2>10. MmioShape'
    BY <1>1, <2>6, <2>8 DEF MmioInv, MmioShape
  <2>11. AtComplete'
    BY <1>1, <1>2, <1>8, <2>9 DEF AtComplete, D, len, f
  <2>12. QED
    BY <1>1, <2>10, <2>11 DEF MmioInv, AtGuest, AtRead, AtWrite, AtExit
<1>9. QED
  BY <1>3, <1>7, <1>8

LEMMA CompleteInv == ASSUME MmioInv, Complete PROVE MmioInv'
<1> DEFINE f == frags[mmioCur]  len == PieceLen(f)  m == mmioInsn.n  D == There(frags, mmioCur, m)
           D2 == There(frags', mmioCur', m)
<1>1. /\ mmioPc = "complete" /\ mmioInsn' = mmioInsn /\ isWrite' = isWrite /\ stored' = stored /\ count' = count
      /\ isWrite = TRUE => val' = val
      /\ isWrite = FALSE => val' = [i \in DOMAIN val |-> IF i \in f.off..(f.off + len - 1)
                                                         THEN run.data[i - f.off + 1] ELSE val[i]]
  BY DEF Complete, PieceLen
<1>2. /\ needed = TRUE /\ completed = FALSE /\ mmioCur \in 1..Len(frags)
      /\ isWrite = FALSE => LoadWaits(mmioInsn, val, count, frags, mmioCur) /\ run.data = MmioAnswer(f)
      /\ isWrite = TRUE => StoreWaits(mmioInsn, val, stored, count, frags, mmioCur, More(D, f.off, len))
  BY <1>1 DEF MmioInv, AtComplete
<1>3. /\ val \in Operands /\ stored \in Contents /\ count \in Contents /\ frags \in Seq(Fragments)
      /\ isWrite \in {TRUE, FALSE} /\ InsnOf(mmioInsn) /\ Len(frags) <= MaxFragments /\ run.len \in 0..Piece
  BY <1>1 DEF MmioInv, MmioShape
<1>4. f \in Fragments /\ Len(frags) \in Nat
  BY <1>2, <1>3
<1>5. m \in Nat /\ m <= MaxBytes /\ MaxBytes \in Nat
  BY <1>3, PageSizes DEF InsnOf
<1>6. NextPiece(frags, mmioCur, frags', mmioCur')
  <2>1. f.len \in Nat /\ Piece \in Nat
    BY <1>4, FragmentFields, PageSizes
  <2>2. CASE LastPiece(f)
    BY <2>1, <2>2 DEF Complete, LastPiece, NextPiece
  <2>3. CASE ~LastPiece(f)
    <3>1. /\ mmioCur' = mmioCur
          /\ frags' = [frags EXCEPT ![mmioCur] = PieceLess(f, len)]
      BY <2>3 DEF Complete, PieceLen, PieceLess
    <3>2. f.len > Piece
      BY <2>1, <2>3 DEF LastPiece
    <3>3. QED
      BY <3>1, <3>2 DEF NextPiece
  <2>4. QED
    BY <2>2, <2>3
<1>7. \/ /\ mmioCur' > Len(frags) /\ needed' = FALSE /\ run' = run
         /\ \/ (isWrite = TRUE \/ Sev) /\ mmioPc' = "guest" /\ outcome' = "done" /\ completed' = completed
            \/ isWrite = FALSE /\ ~Sev /\ mmioPc' = "read" /\ completed' = TRUE
      \/ /\ ~(mmioCur' > Len(frags)) /\ run' = PieceOf(frags'[mmioCur'], val, isWrite)
         /\ mmioPc' = "exit" /\ needed' = needed /\ completed' = completed
  BY <1>3 DEF Complete, Retire
<1>8. \E b \in Addrs : FragmentsOf(frags, mmioCur, b, m)
  BY <1>2, <1>3 DEF LoadWaits, StoreWaits, InsnOf
<1>9. ASSUME NEW b \in Addrs, FragmentsOf(frags, mmioCur, b, m)
      PROVE  /\ frags' \in Seq(Fragments) /\ Len(frags') = Len(frags) /\ FragmentsOf(frags', mmioCur', b, m)
             /\ D2 = More(D, f.off, len) /\ b \in Nat /\ FragmentOf(f, b, m)
  <2>1. b \in Nat
    BY PageSizes
  <2>2. mmioCur \in mmioCur..Len(frags)
    BY <1>2
  <2>3. FragmentOf(f, b, m)
    BY <1>9, <2>2 DEF FragmentsOf
  <2>4. QED
    BY <1>2, <1>3, <1>5, <1>6, <1>9, <2>1, <2>3, PieceDone
<1>10. frags' \in Seq(Fragments) /\ Len(frags') = Len(frags) /\ D2 = More(D, f.off, len)
  BY <1>8, <1>9
<1>11. mmioCur' \in Nat /\ mmioCur' > 0 /\ mmioCur' \in 0..(MaxFragments + 1)
  BY <1>2, <1>3, <1>4, <1>6 DEF NextPiece, MaxFragments
<1>12. mmioCur' > Len(frags) => D2 = 0..(m - 1)
  BY <1>4, <1>10, <1>11, AllThere
<1>13. isWrite = FALSE => val' \in Operands /\ LoadWaits(mmioInsn, val', count, frags', mmioCur')
  <2> SUFFICES ASSUME isWrite = FALSE PROVE val' \in Operands /\ LoadWaits(mmioInsn, val', count, frags', mmioCur')
    OBVIOUS
  <2> DEFINE b == mmioInsn.from  o == f.off  g == f.gpa  l == len
  <2>1. LoadWaits(mmioInsn, val, count, frags, mmioCur)
    BY <1>2
  <2>2. b \in Addrs /\ FragmentsOf(frags, mmioCur, b, m) /\ Loaded(val, b, D)
    BY <1>3, <2>1 DEF LoadWaits, InsnOf
  <2>3. FragmentOf(f, b, m) /\ FragmentsOf(frags', mmioCur', b, m) /\ b \in Nat
    BY <1>9, <2>2
  <2>4. /\ o \in Nat /\ g \in Nat /\ l \in 1..Piece /\ o + l <= m /\ Follow(b, o, g, l)
    BY <1>4, <1>5, <2>3, PieceBounds
  <2>5. l \in Nat /\ o + l <= MaxBytes /\ D \subseteq 0..(MaxBytes - 1)
    <3>1. D \subseteq 0..(m - 1)
      BY DEF There
    <3>2. QED
      BY <1>5, <2>4, <3>1, PageSizes
  <2>6. run.data = [i \in 1..l |-> g + i - 1]
    BY <1>2 DEF MmioAnswer
  <2>7. val' = [i \in DOMAIN val |-> IF i \in o..(o + l - 1) THEN run.data[i - o + 1] ELSE val[i]]
    BY <1>1
  <2> HIDE DEF b, o, g, l, D
  <2>8. ASSUME NEW i \in o..(o + l - 1) PROVE run.data[i - o + 1] = g + i - o
    BY <2>4, <2>5, <2>6
  <2>9. val' = [i \in DOMAIN val |-> IF i \in o..(o + l - 1) THEN g + i - o ELSE val[i]]
    BY <2>7, <2>8
  <2>10. val' \in Operands /\ Loaded(val', b, More(D, o, l))
    BY <1>3, <2>2, <2>4, <2>5, <2>9, LoadMore
  <2>11. Loaded(val', b, D2)
    BY <1>10, <2>10 DEF o, l
  <2>12. QED
    BY <2>1, <2>3, <2>10, <2>11 DEF LoadWaits, b
<1>14. isWrite = TRUE => val' \in Operands /\ StoreWaits(mmioInsn, val', stored, count, frags', mmioCur', D2)
  <2> SUFFICES ASSUME isWrite = TRUE
               PROVE  val' \in Operands /\ StoreWaits(mmioInsn, val', stored, count, frags', mmioCur', D2)
    OBVIOUS
  <2>1. StoreWaits(mmioInsn, val, stored, count, frags, mmioCur, More(D, f.off, len)) /\ val' = val
    BY <1>1, <1>2
  <2>2. mmioInsn.to \in Addrs /\ FragmentsOf(frags, mmioCur, mmioInsn.to, m)
    BY <1>3, <2>1 DEF StoreWaits, InsnOf
  <2>3. FragmentsOf(frags', mmioCur', mmioInsn.to, m)
    BY <1>9, <2>2
  <2> HIDE DEF D, len, f, D2
  <2>4. QED
    BY <1>3, <1>10, <2>1, <2>3 DEF StoreWaits
<1>15. val' \in Operands
  BY <1>3, <1>13, <1>14
<1>16. CASE mmioCur' > Len(frags)
  <2>1. /\ needed' = FALSE /\ run' = run
        /\ \/ (isWrite = TRUE \/ Sev) /\ mmioPc' = "guest" /\ outcome' = "done" /\ completed' = FALSE
           \/ isWrite = FALSE /\ ~Sev /\ mmioPc' = "read" /\ completed' = TRUE
    BY <1>2, <1>7, <1>16
  <2>2. MmioShape'
    <3>1. completed' \in {TRUE, FALSE} /\ isWrite' \in {TRUE, FALSE} /\ mmioPc' \in {"guest", "read", "exit"}
      BY <1>1, <1>3, <2>1
    <3>2. QED
      BY <1>1, <1>3, <1>10, <1>11, <1>15, <2>1, <3>1 DEF MmioShape
  <2>3. isWrite = TRUE => Exact(mmioInsn, val', stored, count)
    BY <1>12, <1>14, <1>16 DEF StoreWaits, Exact
  <2>4. isWrite = FALSE => mmioInsn.kind \in ReadKinds /\ Whole(mmioInsn, val') /\ Empty(count)
    BY <1>12, <1>13, <1>16 DEF LoadWaits, Whole
  <2>5. isWrite = FALSE /\ Sev => Exact(mmioInsn, val', stored, count)
    BY <2>4 DEF Sev, Exact, ReadKinds, WriteKinds
  <2>6. isWrite = FALSE /\ ~Sev => mmioInsn.kind \in {"load", "move"}
    BY <2>4 DEF Sev, ReadKinds
  <2>7. AtGuest'
    BY <1>1, <1>3, <2>1, <2>3, <2>5 DEF AtGuest
  <2>8. AtRead'
    BY <1>1, <2>1, <2>4, <2>6 DEF AtRead
  <2>9. QED
    BY <2>1, <2>2, <2>7, <2>8 DEF MmioInv, AtWrite, AtExit, AtComplete
<1>17. CASE ~(mmioCur' > Len(frags))
  <2>1. run' = PieceOf(frags'[mmioCur'], val, isWrite) /\ mmioPc' = "exit" /\ needed' = TRUE /\ completed' = FALSE
    BY <1>2, <1>7, <1>17
  <2>2. mmioCur' \in 1..Len(frags') /\ frags'[mmioCur'] \in Fragments
    BY <1>4, <1>10, <1>11, <1>17
  <2>3. run'.len \in 0..Piece
    BY <1>3, <2>1, <2>2, PieceFields
  <2>4. run' = PieceOf(frags'[mmioCur'], val', isWrite)
    BY <1>1, <1>3, <2>1 DEF PieceOf
  <2>5. MmioShape'
    <3>1. completed' \in {TRUE, FALSE} /\ isWrite' \in {TRUE, FALSE} /\ mmioPc' \in {"guest", "read", "exit"}
      BY <1>1, <1>3, <2>1
    <3>2. QED
      BY <1>1, <1>3, <1>10, <1>11, <1>15, <2>1, <2>3, <3>1 DEF MmioShape
  <2>6. AtExit'
    BY <1>1, <1>13, <1>14, <2>1, <2>2, <2>4 DEF AtExit
  <2>7. QED
    BY <2>1, <2>5, <2>6 DEF MmioInv, AtGuest, AtRead, AtWrite, AtComplete
<1>18. QED
  BY <1>16, <1>17

LEMMA MmioStepInv == MmioInv /\ [MmioNext]_mmioVars => MmioInv'
<1> SUFFICES ASSUME MmioInv, [MmioNext]_mmioVars PROVE MmioInv'
  OBVIOUS
<1>1. CASE UNCHANGED mmioVars
  BY <1>1 DEF mmioVars, MmioInv, MmioShape, AtGuest, AtRead, AtWrite, AtExit, AtComplete
<1>2. ASSUME NEW a \in Addrs, NEW b \in Addrs, NEW n \in 1..MaxBytes,
             Start("load", a, MmioNone, n) \/ Start("store", MmioNone, a, n) \/ Start("move", a, b, n)
      PROVE  MmioInv'
  <2>1. CASE Start("load", a, MmioNone, n)
    BY <2>1, StartInv
  <2>2. CASE Start("store", MmioNone, a, n)
    BY <2>2, StartInv
  <2>3. CASE Start("move", a, b, n)
    BY <2>3, StartInv
  <2>4. QED
    BY <1>2, <2>1, <2>2, <2>3
<1>3. ASSUME NEW a \in Addrs, NEW n \in 1..MaxBytes, NEW w \in BOOLEAN, SevMmio(a, n, w) PROVE MmioInv'
  <2>1. w \in {TRUE, FALSE}
    OBVIOUS
  <2>2. QED
    BY <1>3, <2>1, SevInv
<1>4. CASE Finished
  BY <1>1, <1>4 DEF Finished
<1>5. QED
  BY <1>1, <1>2, <1>3, <1>4, ReadInv, PreparedInv, WriteInv, UserspaceInv, CompleteInv DEF MmioNext

-----------------------------------------------------------------------------
(* The specification that is model-checked, part by part.                  *)

AccessInv ==
    /\ part = "hypercall" => CallInv
    /\ part = "mmio" => MmioInv
    /\ part = "pio" => PioInv
    /\ part = "cregs" => CregsInv
    /\ part = "pcid" => PcidInv
    /\ part = "memslots" => SlotsInv

\* Every access of the guest happens once and whole (kvm_emulate_hypercall,
\* emulator_read_write and complete_emulated_mmio, kvm_fast_pio and the string I/O
\* of an encrypted guest), whatever user space completes in between and for every
\* size of a page, a piece and an operand; the MMU walks with the registers the
\* guest has (kvm_set_cr0 and its relatives) and never through a root it flushed
\* (kvm_invalidate_pcid); and slots, large pages and dirty logging agree
\* (kvm_alloc_memslot_metadata, kvm_arch_commit_memory_region).
THEOREM EveryAccessExact == ExecutionSpec => []AccessesExact
<1>1. ExecutionInit => AccessInv
  BY CallInitInv, MmioInitInv, PioInitInv, CregsInitInv, PcidInitInv, SlotsInitInv DEF ExecutionInit, AccessInv
<1>2. AccessInv /\ [ExecutionNext]_executionVars => AccessInv'
  <2> SUFFICES ASSUME AccessInv, [ExecutionNext]_executionVars PROVE AccessInv'
    OBVIOUS
  <2>1. part' = part
    BY DEF ExecutionNext, executionVars
  <2>2. CASE part = "hypercall"
    <3>1. [CallNext]_callVars
      BY <2>2 DEF ExecutionNext, executionVars
    <3>2. QED
      BY <2>1, <2>2, <3>1, CallStepInv DEF AccessInv
  <2>3. CASE part = "mmio"
    <3>1. [MmioNext]_mmioVars
      BY <2>3 DEF ExecutionNext, executionVars
    <3>2. QED
      BY <2>1, <2>3, <3>1, MmioStepInv DEF AccessInv
  <2>4. CASE part = "pio"
    <3>1. [PioNext]_pioVars
      BY <2>4 DEF ExecutionNext, executionVars
    <3>2. QED
      BY <2>1, <2>4, <3>1, PioStepInv DEF AccessInv
  <2>5. CASE part = "cregs"
    <3>1. [CregsNext]_cregsVars
      BY <2>5 DEF ExecutionNext, executionVars
    <3>2. QED
      BY <2>1, <2>5, <3>1, CregsStepInv DEF AccessInv
  <2>6. CASE part = "pcid"
    <3>1. [PcidNext]_pcidVars
      BY <2>6 DEF ExecutionNext, executionVars
    <3>2. QED
      BY <2>1, <2>6, <3>1, PcidStepInv DEF AccessInv
  <2>7. CASE part = "memslots"
    <3>1. [SlotsNext]_slotsVars
      BY <2>7 DEF ExecutionNext, executionVars
    <3>2. QED
      BY <2>1, <2>7, <3>1, SlotsStepInv DEF AccessInv
  <2>8. QED
    BY <2>1, <2>2, <2>3, <2>4, <2>5, <2>6, <2>7 DEF AccessInv
<1>3. AccessInv => AccessesExact
  BY CallInvExact, MmioInvExact, PioInvExact, PcidInvExact, SlotsInvExact DEF CregsInv, AccessInv, AccessesExact
<1>4. QED
  BY <1>1, <1>2, <1>3, PTL DEF ExecutionSpec
=============================================================================
