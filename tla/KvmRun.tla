------------------------------- MODULE KvmRun -------------------------------
(***************************************************************************)
(* Running a virtual CPU, in four parts: the run loop, the MSRs restored   *)
(* on the return to user mode, FPU state and protection keys, and WBINVD   *)
(* with an assigned device.                                                *)
(***************************************************************************)
EXTENDS Naturals, Sequences, SequencesExt, FiniteSets

(***************************************************************************)
(* The run loop of one virtual CPU (kvm/x86.c): kvm_arch_vcpu_ioctl_run,   *)
(* vcpu_run, vcpu_enter_guest and vcpu_block, against the threads that     *)
(* change what the guest runs on.  Such a thread changes the host's        *)
(* version of a resource, makes a request of the virtual CPU and, when the *)
(* CPU may be in the guest, interrupts it and waits for the interrupt to   *)
(* be taken; the virtual CPU answers every request on its way in.          *)
(*                                                                         *)
(* Waiting (kvm_vcpu_block), kicking and interrupts between processors are *)
(* the kernel's and are modelled from how this file uses them.  A signal   *)
(* is `work'.  What handle_exit does is a choice of its results.           *)
(***************************************************************************)

CONSTANTS
  Made,       \* the requests other threads and the guest make
  Resources,  \* what other threads change, of {"tlb","apicpage","routes","apicv"}
  HyperV,     \* whether the virtual CPU may have Hyper-V state: values of BOOLEAN
  Bounds      \* bounds to start with: how many changes of the resources, requests
              \* of a set, and signals there are

ASSUME RunAssumption == Resources \subseteq {"tlb", "apicpage", "routes", "apicv"} /\ HyperV \subseteq BOOLEAN

(* the order in which vcpu_enter_guest looks at the requests *)
Order == <<"VM_BUGGED", "MMU_RELOAD", "TLB_FLUSH", "TLB_FLUSH_CURRENT",
           "REPORT_TPR_ACCESS", "TRIPLE_FAULT", "APF_HALT", "STEAL_UPDATE", "NMI",
           "IOAPIC_EOI_EXIT", "SCAN_IOAPIC", "LOAD_EOI_EXITMAP", "APIC_PAGE_RELOAD",
           "HV_CRASH", "HV_RESET", "HV_EXIT", "APICV_UPDATE", "EVENT">>

RequestFor(x) == CASE x = "tlb" -> "TLB_FLUSH"
                   [] x = "apicpage" -> "APIC_PAGE_RELOAD"
                   [] x = "routes" -> "SCAN_IOAPIC"
                   [] x = "apicv" -> "APICV_UPDATE"

Used == Made \cup {RequestFor(x) : x \in Resources} \cup {"LOAD_EOI_EXITMAP", "EVENT"}

(* the exit reason a request is reported with *)
Reason == [q \in {"REPORT_TPR_ACCESS", "TRIPLE_FAULT", "IOAPIC_EOI_EXIT", "HV_CRASH",
                  "HV_RESET", "HV_EXIT"} |->
             CASE q = "REPORT_TPR_ACCESS" -> "TPR_ACCESS"
               [] q = "TRIPLE_FAULT" -> "SHUTDOWN"
               [] q = "IOAPIC_EOI_EXIT" -> "IOAPIC_EOI"
               [] q = "HV_CRASH" -> "SYSTEM_EVENT"
               [] q = "HV_RESET" -> "SYSTEM_EVENT"
               [] q = "HV_EXIT" -> "HYPERV"]

VARIABLES
  runPc,        \* where the virtual CPU's thread is
  pos,       \* the next request to look at, an index of Order
  runMode,      \* vcpu->mode
  requests,  \* vcpu->requests
  ipi,       \* an interrupt is on its way to the virtual CPU's processor
  srcu,      \* how many times the thread holds kvm->srcu
  mp_state_run,  \* vcpu->arch.mp_state
  halted,    \* vcpu->arch.apf.halted
  events,    \* the INIT and SIPI pending in the local APIC
  work,      \* work before entering the guest: a signal for the thread
  runCur,       \* resource -> the host's version
  runSeen,      \* resource -> the version the virtual CPU uses
  scanned,   \* the routes of the last scan, before the exit map is loaded
  hyperv,    \* the virtual CPU has Hyper-V state (to_hv_vcpu)
  runLock,      \* who holds apicv_update_lock
  hpc,       \* the changing thread: <<step, resource>>
  runOwed,      \* the requests userspace has to be told of
  runLeft       \* what the bounds leave: changes, made (of the set of), signals

runVars == <<runPc, pos, runMode, requests, ipi, srcu, mp_state_run, halted, events, work, runCur, runSeen,
          scanned, hyperv, runLock, hpc, runOwed, runLeft>>
guestvars == <<mp_state_run, halted, events>>

RunInit ==
  /\ runPc = "user" /\ pos = 1 /\ runMode = "OUTSIDE" /\ requests = {} /\ ipi = FALSE
  /\ srcu = 0 /\ mp_state_run \in {"RUNNABLE", "UNINITIALIZED"} /\ halted = FALSE /\ events = {}
  /\ work = FALSE /\ runCur = [x \in Resources |-> 0] /\ runSeen = [x \in Resources |-> 0]
  /\ scanned = 0 /\ hyperv \in HyperV /\ runLock = "none" /\ hpc = <<"idle", "tlb">> /\ runOwed = {}
  /\ runLeft \in Bounds

-----------------------------------------------------------------------------
(* waking up *)

kvm_vcpu_running == mp_state_run = "RUNNABLE" /\ ~halted
kvm_vcpu_has_events == events # {} \/ "NMI" \in requests
kvm_arch_vcpu_runnable == kvm_vcpu_running \/ kvm_vcpu_has_events

(* kvm_apic_accept_events on an application processor *)
AfterInit == IF "INIT" \in events THEN "INIT_RECEIVED" ELSE mp_state_run
Accepted == IF "SIPI" \in events /\ AfterInit = "INIT_RECEIVED" THEN "RUNNABLE" ELSE AfterInit

-----------------------------------------------------------------------------
(* KVM_RUN *)

(* the program calls KVM_RUN; immediate_exit returns without running *)
kvm_arch_vcpu_ioctl_run ==
  /\ runPc = "user"
  /\ \/ /\ mp_state_run = "UNINITIALIZED" /\ runPc' = "uninit" /\ UNCHANGED <<srcu, requests>>
     \/ /\ mp_state_run # "UNINITIALIZED" /\ runPc' = "top" /\ srcu' = srcu + 1
               \* kvm_arch_vcpu_load
        /\ requests' = requests \cup ({"STEAL_UPDATE"} \cap Used)
  /\ UNCHANGED <<pos, runMode, ipi, mp_state_run, halted, events, work, runCur, runSeen, scanned, hyperv, runLock, hpc,
                 runOwed, runLeft>>

(* an uninitialised virtual CPU waits for an INIT or a signal, without srcu *)
WaitUninitialized ==
  /\ runPc = "uninit" /\ (kvm_vcpu_has_events \/ work)
  /\ mp_state_run' = Accepted /\ events' = {}
  /\ runPc' = "user"
  /\ UNCHANGED <<pos, runMode, requests, ipi, srcu, halted, work, runCur, runSeen, scanned, hyperv, runLock, hpc,
                 runOwed, runLeft>>

(* a way out of the loop: srcu is released and the program returns to userspace *)
RunLeave == srcu' = srcu - 1 /\ runPc' = "user"

(* the head of vcpu_run's loop *)
LoopTop ==
  /\ runPc = "top"
  /\ IF kvm_vcpu_running THEN runPc' = "requests" ELSE runPc' = "block"
  /\ pos' = 1
  /\ UNCHANGED <<runMode, requests, ipi, srcu, guestvars, work, runCur, runSeen, scanned, hyperv, runLock, hpc,
                 runOwed, runLeft>>

(* the tail of the loop: a signal ends it, after srcu has been released once *)
HandleWork == srcu' = srcu - 1 /\ runPc' = "user"
LoopTail ==
  /\ runPc = "tail"
  /\ \/ work /\ HandleWork /\ work' = FALSE
     \/ ~work /\ runPc' = "top" /\ UNCHANGED <<srcu, work>>
  /\ UNCHANGED <<pos, runMode, requests, ipi, guestvars, runCur, runSeen, scanned, hyperv, runLock, hpc, runOwed, runLeft>>

BlockedHolding == srcu
(* vcpu_block: nothing wakes the virtual CPU, so srcu is released and it waits *)
BlockedSrcu == srcu - 1
vcpu_block_run ==
  /\ runPc = "block"
  /\ IF kvm_arch_vcpu_runnable THEN runPc' = "unblocked" /\ UNCHANGED srcu
                               ELSE runPc' = "blocked" /\ srcu' = BlockedSrcu
  /\ UNCHANGED <<pos, runMode, requests, ipi, guestvars, work, runCur, runSeen, scanned, hyperv, runLock, hpc, runOwed, runLeft>>

(* kvm_vcpu_block returns; without KVM_REQ_UNHALT the loop goes on as it is *)
Unblock ==
  /\ runPc = "blocked" /\ (kvm_arch_vcpu_runnable \/ work)
  /\ srcu' = srcu + 1
  /\ runPc' = IF kvm_arch_vcpu_runnable THEN "unblocked" ELSE "tail"
  /\ UNCHANGED <<pos, runMode, requests, ipi, guestvars, work, runCur, runSeen, scanned, hyperv, runLock, hpc, runOwed, runLeft>>

WokenHalted(s) == s
(* what the virtual CPU wakes up as *)
Woken(s) == IF s \in {"HALTED", "AP_RESET_HOLD"} THEN "RUNNABLE" ELSE s
Unblocked ==
  /\ runPc = "unblocked"
  /\ mp_state_run' = Woken(Accepted) /\ events' = {}
  /\ halted' = (halted /\ mp_state_run' # "RUNNABLE")
  /\ runPc' = "tail"
  /\ UNCHANGED <<pos, runMode, requests, ipi, srcu, work, runCur, runSeen, scanned, hyperv, runLock, hpc, runOwed, runLeft>>

-----------------------------------------------------------------------------
(* vcpu_enter_guest: the requests *)

Next1 == pos' = pos + 1 /\ runPc' = runPc
Handled(q) == requests' = requests \ {q}
Refresh(x) == runSeen' = [runSeen EXCEPT ![x] = runCur[x]]

(* the requests that only refresh something, and those that go to userspace *)
AnswerPlain(q) ==
  /\ q \in {"MMU_RELOAD", "TLB_FLUSH_CURRENT", "STEAL_UPDATE", "NMI"}
  /\ Handled(q) /\ Next1
  /\ UNCHANGED <<srcu, halted, runSeen, scanned, hyperv, runOwed>>
AnswerFlush(q) ==
  /\ q = "TLB_FLUSH" /\ requests' = requests \ {q, "TLB_FLUSH_CURRENT"} /\ Refresh("tlb")
  /\ Next1 /\ UNCHANGED <<srcu, halted, scanned, hyperv, runOwed>>
AnswerPage(q) ==
  /\ q = "APIC_PAGE_RELOAD" /\ Handled(q) /\ Refresh("apicpage") /\ Next1
  /\ UNCHANGED <<srcu, halted, scanned, hyperv, runOwed>>
AnswerScan(q) ==
  /\ q = "SCAN_IOAPIC" /\ requests' = (requests \ {q}) \cup {"LOAD_EOI_EXITMAP"}
  /\ scanned' = runCur["routes"] /\ Next1
  /\ UNCHANGED <<srcu, halted, runSeen, hyperv, runOwed>>
(* vcpu_load_eoi_exitmap: without Hyper-V state what is loaded was never filled in *)
AnswerMap(q) ==
  /\ q = "LOAD_EOI_EXITMAP" /\ Handled(q) /\ Next1
  /\ \E v \in IF hyperv THEN {scanned} ELSE 0..scanned :
       runSeen' = IF "routes" \in Resources THEN [runSeen EXCEPT !["routes"] = v] ELSE runSeen
  /\ UNCHANGED <<srcu, halted, scanned, hyperv, runOwed>>
AnswerApfHalt(q) ==
  /\ q = "APF_HALT" /\ Handled(q) /\ halted' = TRUE /\ runPc' = "tail" /\ pos' = pos
  /\ UNCHANGED <<srcu, runSeen, scanned, hyperv, runOwed>>
AnswerBugged(q) ==
  /\ q = "VM_BUGGED" /\ Handled(q) /\ RunLeave /\ pos' = pos
  /\ UNCHANGED <<halted, runSeen, scanned, hyperv, runOwed>>
ExitRequests(q) == requests \ {q}
AnswerExit(q) ==
  /\ q \in DOMAIN Reason /\ requests' = ExitRequests(q) /\ runOwed' = runOwed \ {q}
  /\ RunLeave /\ pos' = pos
  /\ UNCHANGED <<halted, runSeen, scanned, hyperv>>

Answer(q) ==
  \/ AnswerPlain(q) \/ AnswerFlush(q) \/ AnswerPage(q) \/ AnswerScan(q) \/ AnswerMap(q)
  \/ AnswerApfHalt(q) \/ AnswerBugged(q) \/ AnswerExit(q)

AtRequest == runPc = "requests" /\ Order[pos] \notin {"APICV_UPDATE", "EVENT"}

(* kvm_check_request, in the order of the function *)
CheckRequest ==
  /\ AtRequest
  /\ IF Order[pos] \in requests THEN Answer(Order[pos])
     ELSE Next1 /\ UNCHANGED <<requests, srcu, halted, runSeen, scanned, hyperv, runOwed>>
  /\ UNCHANGED <<runMode, ipi, mp_state_run, events, work, runCur, runLock, hpc, runLeft>>

(* kvm_vcpu_update_apicv: the request is cleared, then the lock is waited for *)
TakeApicvRequest ==
  /\ runPc = "requests" /\ Order[pos] = "APICV_UPDATE"
  /\ IF "APICV_UPDATE" \in requests
     THEN Handled("APICV_UPDATE") /\ runPc' = "apicv" /\ pos' = pos
     ELSE Next1 /\ UNCHANGED requests
  /\ UNCHANGED <<runMode, ipi, srcu, guestvars, work, runCur, runSeen, scanned, hyperv, runLock, hpc, runOwed, runLeft>>

ApicvFree == runLock = "none"
kvm_vcpu_update_apicv ==
  /\ runPc = "apicv" /\ ApicvFree
  /\ runSeen' = [runSeen EXCEPT !["apicv"] = runCur["apicv"]]
  \* APICv switched off: pending interrupts are looked for again
  /\ requests' = IF runCur["apicv"] # runSeen["apicv"] /\ runCur["apicv"] % 2 = 1
                 THEN requests \cup {"EVENT"} ELSE requests
  /\ runPc' = "requests" /\ pos' = pos + 1
  /\ UNCHANGED <<runMode, ipi, srcu, guestvars, work, runCur, scanned, hyperv, runLock, hpc, runOwed, runLeft>>

(* KVM_REQ_EVENT: INIT and SIPI are accepted, events injected *)
InjectEvents ==
  /\ runPc = "requests" /\ Order[pos] = "EVENT"
  /\ IF "EVENT" \in requests
     THEN /\ Handled("EVENT") /\ mp_state_run' = Accepted /\ events' = {}
          /\ runPc' = IF mp_state_run' = "INIT_RECEIVED" THEN "tail" ELSE "prepare"
     ELSE runPc' = "prepare" /\ UNCHANGED <<requests, mp_state_run, events>>
  /\ UNCHANGED <<pos, runMode, ipi, srcu, halted, work, runCur, runSeen, scanned, hyperv, runLock, hpc, runOwed, runLeft>>

-----------------------------------------------------------------------------
(* vcpu_enter_guest: entering and leaving the guest *)

(* interrupts are disabled, vcpu->mode is set and srcu released, in this order *)
PrepareEntry ==
  /\ runPc = "prepare"
  /\ runMode' = "IN_GUEST" /\ srcu' = srcu - 1
  /\ runPc' = "check"
  /\ UNCHANGED <<pos, requests, ipi, guestvars, work, runCur, runSeen, scanned, hyperv, runLock, hpc, runOwed, runLeft>>

(* the shadow page tables cannot be loaded: the events are given back *)
MmuReloadFails ==
  /\ runPc = "prepare"
  /\ RunLeave
  /\ UNCHANGED <<pos, runMode, requests, ipi, guestvars, work, runCur, runSeen, scanned, hyperv, runLock, hpc, runOwed, runLeft>>

kvm_vcpu_exit_request == runMode = "EXITING" \/ requests # {} \/ work

(* requests made since are found here, or their maker found the mode set *)
EnterGuest ==
  /\ runPc = "check"
  /\ IF kvm_vcpu_exit_request
     THEN /\ runMode' = "OUTSIDE" /\ srcu' = srcu + 1 /\ ipi' = FALSE /\ runPc' = "tail"
     ELSE runPc' = "guest" /\ UNCHANGED <<runMode, srcu, ipi>>
  /\ UNCHANGED <<pos, requests, guestvars, work, runCur, runSeen, scanned, hyperv, runLock, hpc, runOwed, runLeft>>

(* an exit the fast path deals with: the guest is entered again if nothing asks otherwise *)
FastReentry ==
  /\ runPc = "guest" /\ ~ipi
  /\ IF kvm_vcpu_exit_request THEN runPc' = "exit" ELSE runPc' = "guest"
  /\ UNCHANGED <<pos, runMode, requests, ipi, srcu, guestvars, work, runCur, runSeen, scanned, hyperv, runLock, hpc, runOwed, runLeft>>

(* any other exit, an interrupt's too *)
ExitGuest ==
  /\ runPc = "guest"
  /\ runPc' = "exit"
  /\ UNCHANGED <<pos, runMode, requests, ipi, srcu, guestvars, work, runCur, runSeen, scanned, hyperv, runLock, hpc, runOwed, runLeft>>

(* the mode is reset, interrupts are taken, srcu held again; then the exit is *)
(* handled: on in the loop, halted, or out to userspace                       *)
HandleExit ==
  /\ runPc = "exit"
  /\ runMode' = "OUTSIDE" /\ ipi' = FALSE
  /\ \/ runPc' = "tail" /\ srcu' = srcu + 1 /\ mp_state_run' \in {mp_state_run, "HALTED"}
     \/ runPc' = "user" /\ UNCHANGED <<srcu, mp_state_run>>
  /\ UNCHANGED <<pos, requests, halted, events, work, runCur, runSeen, scanned, hyperv, runLock, hpc, runOwed, runLeft>>

-----------------------------------------------------------------------------
(* the other threads *)

NeedsIpi == runMode # "OUTSIDE"

(* a resource changes: APICv's request is made before the change, under the lock; *)
(* the others change first                                                        *)
BeginChange(x) ==
  /\ hpc[1] = "idle" /\ runLeft.changes > 0
  /\ runLeft' = [runLeft EXCEPT !.changes = @ - 1]
  /\ IF x = "apicv" THEN runLock = "none" /\ runLock' = "host" /\ UNCHANGED runCur
                    ELSE runCur' = [runCur EXCEPT ![x] = @ + 1] /\ UNCHANGED runLock
  /\ hpc' = <<"request", x>>
  /\ UNCHANGED <<runPc, pos, runMode, requests, ipi, srcu, guestvars, work, runSeen, scanned, hyperv, runOwed>>

kvm_make_request ==
  /\ hpc[1] = "request"
  /\ requests' = requests \cup {RequestFor(hpc[2])}
  /\ hpc' = <<"kick", hpc[2]>>
  /\ UNCHANGED <<runPc, pos, runMode, ipi, srcu, guestvars, work, runCur, runSeen, scanned, hyperv, runLock, runOwed, runLeft>>

(* the rest of kvm_make_all_cpus_request *)
SendIpi ==
  /\ hpc[1] = "kick"
  /\ ipi' = (ipi \/ NeedsIpi)
  /\ runMode' = IF runMode = "IN_GUEST" THEN "EXITING" ELSE runMode
  /\ hpc' = <<"wait", hpc[2]>>
  /\ UNCHANGED <<runPc, pos, requests, srcu, guestvars, work, runCur, runSeen, scanned, hyperv, runLock, runOwed, runLeft>>

(* the interrupt was taken; __kvm_request_apicv_update now stores its reasons *)
EndChange ==
  /\ hpc[1] = "wait" /\ ~ipi
  /\ IF hpc[2] = "apicv" THEN runCur' = [runCur EXCEPT !["apicv"] = @ + 1] /\ runLock' = "none"
                         ELSE UNCHANGED <<runCur, runLock>>
  /\ hpc' = <<"idle", "tlb">>
  /\ UNCHANGED <<runPc, pos, runMode, requests, ipi, srcu, guestvars, work, runSeen, scanned, hyperv, runOwed, runLeft>>

(* another request, with kvm_vcpu_kick *)
Kick(m, i) == /\ runMode' = IF m = "IN_GUEST" THEN "EXITING" ELSE m
              /\ ipi' = (i \/ m = "IN_GUEST")
(* the virtual CPU makes these itself, while it handles an exit *)
Own == DOMAIN Reason \cup {"APF_HALT", "TLB_FLUSH_CURRENT"}
MakeOther(q) ==
  /\ q \in runLeft.of /\ q \notin requests /\ runLeft.made > 0
  /\ q \in Own => runPc = "exit"
  /\ runLeft' = [runLeft EXCEPT !.made = @ - 1]
  /\ requests' = requests \cup {q}
  /\ runOwed' = runOwed \cup ({q} \cap DOMAIN Reason)
  /\ Kick(runMode, ipi)
  /\ UNCHANGED <<runPc, pos, srcu, guestvars, work, runCur, runSeen, scanned, hyperv, runLock, hpc>>

(* INIT and SIPI from another virtual CPU, or a signal for this thread *)
SendInit(e) ==
  /\ runLeft.made > 0 /\ e \notin events
  /\ e = "SIPI" => (mp_state_run = "INIT_RECEIVED" \/ "INIT" \in events)
  /\ runLeft' = [runLeft EXCEPT !.made = @ - 1]
  /\ events' = events \cup {e} /\ requests' = requests \cup {"EVENT"}
  /\ Kick(runMode, ipi)
  /\ UNCHANGED <<runPc, pos, srcu, mp_state_run, halted, work, runCur, runSeen, scanned, hyperv, runLock, hpc, runOwed>>

Signal ==
  /\ runLeft.signals > 0 /\ ~work
  /\ runLeft' = [runLeft EXCEPT !.signals = @ - 1]
  /\ work' = TRUE /\ ipi' = (ipi \/ runPc \in {"check", "guest"})
  /\ UNCHANGED <<runPc, pos, runMode, requests, srcu, guestvars, runCur, runSeen, scanned, hyperv, runLock, hpc, runOwed>>

(* KVM_SET_MP_STATE, between two calls of KVM_RUN *)
kvm_arch_vcpu_ioctl_set_mpstate ==
  /\ runPc = "user" /\ runLeft.made > 0
  /\ runLeft' = [runLeft EXCEPT !.made = @ - 1]
  /\ \/ mp_state_run' = "INIT_RECEIVED" /\ events' = events \cup {"SIPI"}   \* SIPI_RECEIVED
     \/ mp_state_run' \in {"RUNNABLE", "HALTED", "UNINITIALIZED"} /\ UNCHANGED events
  /\ requests' = requests \cup {"EVENT"}
  /\ UNCHANGED <<runPc, pos, runMode, ipi, srcu, halted, work, runCur, runSeen, scanned, hyperv, runLock, hpc, runOwed>>

-----------------------------------------------------------------------------
Vcpu == \/ kvm_arch_vcpu_ioctl_run \/ WaitUninitialized \/ LoopTop \/ LoopTail
        \/ vcpu_block_run \/ Unblock \/ Unblocked
        \/ CheckRequest \/ TakeApicvRequest \/ kvm_vcpu_update_apicv \/ InjectEvents
        \/ PrepareEntry \/ EnterGuest \/ HandleExit
Host == kvm_make_request \/ SendIpi \/ EndChange

RunNext == \/ Vcpu \/ MmuReloadFails \/ FastReentry \/ ExitGuest
           \/ \E x \in Resources : BeginChange(x)
           \/ Host
           \/ \E q \in Made : MakeOther(q)
           \/ \E e \in {"INIT", "SIPI"} : SendInit(e)
           \/ Signal \/ kvm_arch_vcpu_ioctl_set_mpstate

(* the thread and the program that calls KVM_RUN go on; an interrupt makes the guest exit *)
RunFairness == WF_runVars(Vcpu) /\ WF_runVars(Host) /\ WF_runVars(ipi /\ ExitGuest)
RunSpec == RunInit /\ [][RunNext]_runVars /\ RunFairness

-----------------------------------------------------------------------------
(* The state has its types: srcu is held at most once, and never released twice. *)
RunTypeOK ==
  /\ runPc \in {"user", "uninit", "top", "tail", "block", "blocked", "unblocked", "requests",
             "apicv", "prepare", "check", "guest", "exit"}
  /\ pos \in 1..Len(Order) /\ runMode \in {"OUTSIDE", "IN_GUEST", "EXITING"}
  /\ requests \subseteq Used /\ srcu \in 0..1
  /\ mp_state_run \in {"RUNNABLE", "UNINITIALIZED", "HALTED", "INIT_RECEIVED"}
  /\ runLock \in {"none", "host"}

(* Once a thread has finished changing a resource (page tables, the APIC page, the I/O *)
(* APIC's routes, the reasons against APICv), the guest never runs on the old version:  *)
(* "We should set ->mode before checking ->requests".  The routes have been scanned in    *)
(* any case; the exit map that is loaded is theirs if the virtual CPU has Hyper-V state.  *)
GuestRunsOnCurrent ==
  runPc = "guest" /\ hpc[1] = "idle" =>
    /\ \A x \in Resources \ {"routes"} : runSeen[x] = runCur[x]
    /\ "routes" \in Resources =>
         scanned = runCur["routes"] /\ (hyperv => runSeen["routes"] = runCur["routes"])

(* A thread that waits for memory slots to become free (synchronize_srcu) never waits for *)
(* a guest that runs or a virtual CPU that sleeps: srcu is released in both, and everything *)
(* that looks at guest memory holds it.                                                     *)
SrcuWhereNeeded ==
  /\ runPc \in {"user", "uninit", "blocked", "check", "guest"} => srcu = 0
  /\ runPc \in {"top", "tail", "requests", "apicv", "prepare", "unblocked"} => srcu = 1

(* A guest with an unanswered request is about to be interrupted: no request waits for an *)
(* exit the guest makes by itself.                                                          *)
RequestInterrupts ==
  runPc = "guest" /\ requests # {} => ipi \/ hpc[1] \in {"kick"}

(* A virtual CPU whose APIC holds a SIPI starts to run, whichever way it was waiting. *)
SipiStarts == ("SIPI" \in events /\ mp_state_run = "INIT_RECEIVED") ~> mp_state_run # "INIT_RECEIVED"

(* A halted virtual CPU with an event wakes up. *)
EventWakes == (mp_state_run = "HALTED" /\ "NMI" \in requests) ~> mp_state_run # "HALTED"

-----------------------------------------------------------------------------
(***************************************************************************)
(* The model-specific registers of a processor that KVM loads with the     *)
(* guest's values and leaves there until the processor goes back to user   *)
(* mode (user-return MSRs of kvm/x86.c), with the interrupts that switch   *)
(* virtualisation off and on. A register's value is a set of bits.         *)
(*                                                                         *)
(* An interrupt that disables virtualisation may come between the two      *)
(* halves of kvm_on_user_return; one that enables it again is assumed not  *)
(* to come in that same window.                                            *)
(***************************************************************************)

CONSTANTS
  Msrs,       \* the registers KVM asks for
  Exists,     \* those the processor has
  Bits,
  MaxNr       \* KVM_MAX_NR_USER_RETURN_MSRS

ASSUME UretAssumption ==
  /\ Exists \subseteq Msrs /\ MaxNr \in Nat
  /\ \E b, c \in Bits : b # c

Value == SUBSET Bits
HostValue == CHOOSE v \in Value : v # {} /\ v # Bits

VARIABLES
  hw,           \* what is in the registers
  list,         \* kvm_uret_msrs_list
  host, curr,   \* the values of user_return_msrs on this processor
  registered,   \* the notifier
  uretMode,         \* "setup", "kernel", "user", or "returning"
  uretSlot,         \* the next register to restore
  enabled       \* virtualisation is on

uretVars == <<hw, list, host, curr, registered, uretMode, uretSlot, enabled>>

UretInit ==
  /\ hw = [m \in Msrs |-> HostValue] /\ list = <<>>
  /\ host = [m \in Msrs |-> {}] /\ curr = [m \in Msrs |-> {}]
  /\ registered = FALSE /\ uretMode = "setup" /\ uretSlot = 0 /\ enabled = FALSE

(* at module load; a register the processor lacks is not listed *)
kvm_add_user_return_msr(m) ==
  /\ uretMode = "setup" /\ m \notin Range(list) /\ m \in Exists /\ Len(list) < MaxNr
  /\ list' = Append(list, m)
  /\ UNCHANGED <<hw, host, curr, registered, uretMode, uretSlot, enabled>>
SetupDone ==
  /\ uretMode = "setup" /\ uretMode' = "kernel"
  /\ UNCHANGED <<hw, list, host, curr, registered, uretSlot, enabled>>

(* kvm_arch_hardware_enable with kvm_user_return_msr_cpu_online *)
Online ==
  /\ host' = [m \in Msrs |-> IF m \in Range(list) THEN hw[m] ELSE host[m]]
  /\ curr' = [m \in Msrs |-> IF m \in Range(list) THEN hw[m] ELSE curr[m]]
kvm_arch_hardware_enable ==
  /\ uretMode \in {"kernel", "user"} /\ ~enabled /\ enabled' = TRUE
  /\ Online
  /\ UNCHANGED <<hw, list, registered, uretMode, uretSlot>>

(* kvm_set_user_return_msr, in the kernel, before an entry to the guest; the write may fail *)
Masked(m, value, mask) == (value \cap mask) \cup (host[m] \ mask)
SetWith(m, new, reg) ==
  \/ new = curr[m] /\ UNCHANGED <<hw, curr, registered>>
  \/ new # curr[m] /\ UNCHANGED <<hw, curr, registered>>
  \/ /\ new # curr[m]
     /\ hw' = [hw EXCEPT ![m] = new] /\ curr' = [curr EXCEPT ![m] = new] /\ registered' = reg
Registers(new, m) == TRUE
kvm_set_user_return_msr(m, value, mask) ==
  /\ uretMode = "kernel" /\ enabled /\ m \in Range(list)
  /\ \E new \in {Masked(m, value, mask)} : SetWith(m, new, Registers(new, m))
  /\ UNCHANGED <<list, host, uretMode, uretSlot, enabled>>

(* kvm_on_user_return: unregistered first, with interrupts off, then restored *)
ReturnToUser ==
  /\ uretMode = "kernel"
  /\ IF registered THEN registered' = FALSE /\ uretMode' = "returning" /\ uretSlot' = 1
     ELSE uretMode' = "user" /\ UNCHANGED <<registered, uretSlot>>
  /\ UNCHANGED <<hw, list, host, curr, enabled>>
Restored(h, m) == [h EXCEPT ![m] = IF curr[m] # host[m] THEN host[m] ELSE @]
Restore ==
  /\ uretMode = "returning"
  /\ IF uretSlot > Len(list) THEN uretMode' = "user" /\ uretSlot' = 0 /\ UNCHANGED <<hw, curr>>
     ELSE /\ hw' = Restored(hw, list[uretSlot]) /\ curr' = [curr EXCEPT ![list[uretSlot]] = host[list[uretSlot]]]
          /\ uretSlot' = uretSlot + 1 /\ UNCHANGED uretMode
  /\ UNCHANGED <<list, host, registered, enabled>>
EnterKernel ==
  /\ uretMode = "user" /\ uretMode' = "kernel"
  /\ UNCHANGED <<hw, list, host, curr, registered, uretSlot, enabled>>

(* kvm_arch_hardware_disable with drop_user_return_notifiers, by interrupt *)
Drop ==
  IF registered
  THEN /\ registered' = FALSE
       /\ hw' = [m \in Msrs |-> IF m \in Range(list) /\ curr[m] # host[m] THEN host[m] ELSE hw[m]]
       /\ curr' = [m \in Msrs |-> IF m \in Range(list) THEN host[m] ELSE curr[m]]
  ELSE UNCHANGED <<hw, curr, registered>>
kvm_arch_hardware_disable ==
  /\ enabled /\ enabled' = FALSE
  /\ Drop
  /\ UNCHANGED <<list, host, uretMode, uretSlot>>

UretNext ==
  \/ \E m \in Msrs : kvm_add_user_return_msr(m)
  \/ \E m \in Msrs, v \in Value, mask \in {Bits, {CHOOSE b \in Bits : TRUE}} : kvm_set_user_return_msr(m, v, mask)
  \/ SetupDone \/ kvm_arch_hardware_enable \/ kvm_arch_hardware_disable
  \/ ReturnToUser \/ Restore \/ EnterKernel

UretSpec == UretInit /\ [][UretNext]_uretVars
-----------------------------------------------------------------------------
(* Properties *)

\* The variables keep their types; the list does not outgrow its array.
UretTypeOK ==
  /\ hw \in [Msrs -> Value] /\ host \in [Msrs -> Value] /\ curr \in [Msrs -> Value]
  /\ Len(list) <= MaxNr /\ Range(list) \subseteq Exists
  /\ uretSlot \in 0 .. MaxNr + 1

\* No program of the host runs with a value of a guest, whatever interrupts
\* came on the way to user mode.
UserSeesHost == uretMode = "user" => \A m \in Msrs : hw[m] = HostValue

\* What KVM takes for the host's values are the host's, also when
\* virtualisation was turned off and on between two entries.
HostIsHost == enabled => \A m \in Range(list) : host[m] = HostValue

\* KVM skips a write when the register has the value already: what it thinks
\* is in the register is in the register.
CurrIsHardware == enabled => \A m \in Range(list) : curr[m] = hw[m]

\* Without virtualisation a register with a guest's value is one that is
\* being restored.
OffMeansHost == (~enabled /\ uretMode # "returning") => \A m \in Msrs : hw[m] = HostValue

-----------------------------------------------------------------------------
(***************************************************************************)
(* The floating-point registers, PKRU and XCR0 of a processor (kvm/x86.c)  *)
(* are shared by the thread of user space that runs a VCPU, by the guest   *)
(* and by other threads that preempt it. KVM swaps them: the FPU once per  *)
(* KVM_RUN, PKRU and XCR0 around every entry of the guest. The kernel      *)
(* saves and restores the registers of a thread lazily (TIF_NEED_FPU_LOAD).*)
(*                                                                         *)
(* The registers are a value and the MPX state; PKRU is never zero in user *)
(* space (Linux starts threads with another value).                        *)
(***************************************************************************)

CONSTANTS
  UserVals, GuestVals,    \* what user space and the guest leave in the registers
  UserPkru, GuestPkru,    \* their values of PKRU
  HostXcr0,               \* features the host has enabled
  supported_xcr0,         \* features KVM gives to guests
  Xcrs,                   \* values a guest or user space sets XCR0 to
  Cr4s                    \* values of CR4: subsets of {"OSXSAVE", "PKE"}

ASSUME FpuAssumption ==
  /\ 0 \notin UserVals /\ UserVals \cap GuestVals = {} /\ UserPkru \subseteq Nat \ {0} /\ GuestPkru \subseteq Nat
  /\ supported_xcr0 \subseteq HostXcr0 /\ "fp" \in HostXcr0
  \* a guest that is offered PKU has PKRU among the features KVM saves
  /\ "pkru" \in supported_xcr0 \/ \A c \in Cr4s : "PKE" \notin c

AVX512 == {"opmask", "zmm_hi256", "hi16_zmm"}
FPSSE == {"fp", "sse"}
FpuZero == [fp |-> 0, bnd |-> 0]

VARIABLES
  fpuPc,                       \* "user", "load", "loop", "guest", "reset", "put"
  regs, need_load, thread,  \* the registers, TIF_NEED_FPU_LOAD, and the thread's saved copy
  user_fpu,                 \* vcpu->arch.user_fpu
  guest_fpu,                \* vcpu->arch.guest_fpu: value, and whether PKRU is among its features
  pkru, host_pkru, vcpu_pkru,
  xcr0, vcpu_xcr0, cpuid_ext,  \* the processor's, the VCPU's, and what its CPUID reports
  fpuCr4,
  uval, gval, upkru, gpkru  \* what user space and the guest expect to find

fpuVars == <<fpuPc, regs, need_load, thread, user_fpu, guest_fpu, pkru, host_pkru, vcpu_pkru, xcr0, vcpu_xcr0,
          cpuid_ext, fpuCr4, uval, gval, upkru, gpkru>>
expected == <<uval, gval, upkru, gpkru>>
keys == <<pkru, host_pkru, vcpu_pkru>>
xcrs == <<xcr0, vcpu_xcr0, cpuid_ext, fpuCr4>>
fpu == <<regs, need_load, thread, user_fpu, guest_fpu>>

FpuInit ==
  /\ fpuPc = "user" /\ uval \in {[fp |-> f, bnd |-> 0] : f \in UserVals} /\ regs = uval
  /\ need_load = FALSE /\ thread = FpuZero /\ user_fpu = FpuZero
  /\ guest_fpu = [val |-> FpuZero, pkru |-> FALSE] /\ gval = FpuZero
  /\ upkru \in UserPkru /\ pkru = upkru /\ host_pkru = upkru /\ vcpu_pkru = 0 /\ gpkru = 0
  /\ xcr0 = HostXcr0 /\ vcpu_xcr0 = {"fp"} /\ cpuid_ext = {} /\ fpuCr4 = {}

-----------------------------------------------------------------------------
(* kvm_save_current_fpu: the registers, or the copy of a thread that was preempted *)
kvm_save_current_fpu == IF need_load THEN thread ELSE regs
(* kvm_load_guest_fpu, kvm_put_guest_fpu *)
kvm_load_guest_fpu(g) ==
  /\ user_fpu' = kvm_save_current_fpu /\ regs' = g /\ need_load' = FALSE /\ UNCHANGED thread
kvm_put_guest_fpu ==
  /\ guest_fpu' = [val |-> kvm_save_current_fpu, pkru |-> pkru # 0]
  /\ regs' = user_fpu /\ need_load' = FALSE /\ UNCHANGED <<thread, user_fpu>>

(* User space computes *)
UserRuns ==
  /\ fpuPc = "user"
  /\ \E f \in UserVals, k \in UserPkru :
       uval' = [fp |-> f, bnd |-> 0] /\ regs' = uval' /\ upkru' = k /\ pkru' = k
  /\ UNCHANGED <<fpuPc, need_load, thread, user_fpu, guest_fpu, host_pkru, vcpu_pkru, xcrs, gval, gpkru>>
(* KVM_RUN and KVM_GET_MP_STATE: kvm_arch_vcpu_load, then the guest's FPU is loaded *)
VcpuLoad == host_pkru' = pkru
Ioctl ==
  /\ fpuPc = "user" /\ fpuPc' = "load" /\ VcpuLoad
  /\ UNCHANGED <<fpu, pkru, vcpu_pkru, xcrs, expected>>
LoadGuest ==
  /\ fpuPc = "load" /\ fpuPc' = "loop" /\ kvm_load_guest_fpu(guest_fpu.val)
  /\ UNCHANGED <<guest_fpu, keys, xcrs, expected>>
(* The kernel preempts the thread, others use the registers, and it is scheduled again *)
FpuPreempt ==
  /\ fpuPc \in {"load", "loop", "reset", "put"}
  /\ thread' = kvm_save_current_fpu /\ need_load' = TRUE /\ regs' = FpuZero /\ VcpuLoad
  /\ UNCHANGED <<fpuPc, user_fpu, guest_fpu, pkru, vcpu_pkru, xcrs, expected>>

(* vcpu_enter_guest: switch_fpu_return, then kvm_load_guest_xsave_state *)
UsesPkru == "PKE" \in fpuCr4 \/ "pkru" \in vcpu_xcr0
kvm_load_guest_xsave_state ==
  /\ xcr0' = IF "OSXSAVE" \in fpuCr4 THEN vcpu_xcr0 ELSE xcr0
  /\ pkru' = IF UsesPkru /\ vcpu_pkru # host_pkru THEN vcpu_pkru ELSE pkru
FpuEnter ==
  /\ fpuPc = "loop" /\ fpuPc' = "guest"
  /\ regs' = kvm_save_current_fpu /\ need_load' = FALSE
  /\ kvm_load_guest_xsave_state
  /\ UNCHANGED <<thread, user_fpu, guest_fpu, host_pkru, vcpu_pkru, vcpu_xcr0, cpuid_ext, fpuCr4, expected>>
GuestRuns ==
  /\ fpuPc = "guest"
  /\ \E f \in GuestVals, b \in {0, 1} : gval' = [fp |-> f, bnd |-> b] /\ regs' = gval'
  /\ \/ UNCHANGED <<pkru, gpkru>>
     \/ "PKE" \in fpuCr4 /\ \E k \in GuestPkru : pkru' = k /\ gpkru' = k
  /\ UNCHANGED <<fpuPc, need_load, thread, user_fpu, guest_fpu, host_pkru, vcpu_pkru, xcrs, uval, upkru>>
(* kvm_load_host_xsave_state *)
kvm_load_host_pkru ==
  /\ vcpu_pkru' = IF UsesPkru THEN pkru ELSE vcpu_pkru
  /\ pkru' = IF UsesPkru THEN host_pkru ELSE pkru
kvm_load_host_xcr0 == xcr0' = IF "OSXSAVE" \in fpuCr4 THEN HostXcr0 ELSE xcr0
Exit ==
  /\ fpuPc = "guest" /\ fpuPc' = "loop" /\ kvm_load_host_pkru /\ kvm_load_host_xcr0
  /\ UNCHANGED <<fpu, host_pkru, vcpu_xcr0, cpuid_ext, fpuCr4, expected>>

-----------------------------------------------------------------------------
(* __kvm_set_xcr *)
XcrValid(x) ==
  /\ "fp" \in x /\ ("ymm" \in x => "sse" \in x) /\ x \subseteq supported_xcr0 \cup {"fp"}
  /\ "bndregs" \in x <=> "bndcsr" \in x
  /\ x \cap AVX512 # {} => "ymm" \in x /\ AVX512 \subseteq x
CpuidAfter(x) == IF x \ FPSSE # vcpu_xcr0 \ FPSSE THEN x \ FPSSE ELSE cpuid_ext

__kvm_set_xcr ==
  /\ fpuPc \in {"loop", "user"}        \* XSETBV of the guest, KVM_SET_XCRS
  /\ \E x \in Xcrs : XcrValid(x) /\ vcpu_xcr0' = x /\ cpuid_ext' = CpuidAfter(x)
  /\ UNCHANGED <<fpuPc, fpu, keys, xcr0, fpuCr4, expected>>
SetCr4 == fpuPc = "loop" /\ fpuCr4' \in Cr4s /\ UNCHANGED <<fpuPc, fpu, keys, xcr0, vcpu_xcr0, cpuid_ext, expected>>

(* kvm_vcpu_reset for INIT: the MPX state is cleared in memory, so the FPU is put first *)
ResetPut ==
  /\ fpuPc = "loop" /\ fpuPc' = "reset" /\ kvm_put_guest_fpu /\ UNCHANGED <<keys, xcrs, expected>>
ResetLoad ==
  /\ fpuPc = "reset" /\ fpuPc' = "loop" /\ gval' = [gval EXCEPT !.bnd = 0]
  /\ guest_fpu' = [guest_fpu EXCEPT !.val.bnd = 0] /\ kvm_load_guest_fpu(guest_fpu'.val)
  /\ UNCHANGED <<keys, xcrs, uval, upkru, gpkru>>
(* KVM_RUN ends; the kernel loads what the thread needs before user space runs *)
FpuLeave == fpuPc = "loop" /\ fpuPc' = "put" /\ UNCHANGED <<fpu, keys, xcrs, expected>>
Put ==
  /\ fpuPc = "put" /\ fpuPc' = "user" /\ kvm_put_guest_fpu /\ UNCHANGED <<keys, xcrs, expected>>

-----------------------------------------------------------------------------
(* KVM_SET_FPU *)
kvm_arch_vcpu_ioctl_set_fpu ==
  /\ fpuPc = "user"
  /\ \E f \in GuestVals : /\ guest_fpu' = [guest_fpu EXCEPT !.val.fp = f]
                          /\ gval' = [gval EXCEPT !.fp = f]
  /\ UNCHANGED <<fpuPc, regs, need_load, thread, user_fpu, keys, xcrs, uval, upkru, gpkru>>
(* KVM_GET_XSAVE, and KVM_SET_XSAVE on a VCPU that was just made *)
fill_xsave == [val |-> guest_fpu.val, has |-> guest_fpu.pkru /\ "pkru" \in supported_xcr0,
               pkru |-> IF guest_fpu.pkru /\ "pkru" \in supported_xcr0 THEN vcpu_pkru ELSE 0]
load_xsave(x) ==
  /\ guest_fpu' = [val |-> x.val, pkru |-> x.has]
  /\ vcpu_pkru' = IF x.has THEN x.pkru ELSE 0
Migrate ==
  /\ fpuPc = "user" /\ load_xsave(fill_xsave) /\ UNCHANGED <<fpuPc, regs, need_load, thread, user_fpu, pkru, host_pkru>>
  /\ UNCHANGED <<xcrs, expected>>

FpuNext ==
  \/ UserRuns \/ Ioctl \/ LoadGuest \/ FpuPreempt \/ FpuEnter \/ GuestRuns \/ Exit \/ __kvm_set_xcr \/ SetCr4
  \/ ResetPut \/ ResetLoad \/ FpuLeave \/ Put \/ kvm_arch_vcpu_ioctl_set_fpu \/ Migrate

FpuSpec == FpuInit /\ [][FpuNext]_fpuVars
-----------------------------------------------------------------------------
(* Properties *)

\* Whenever user space runs it finds the registers as it left them, however
\* often its thread was preempted in KVM_RUN and the guest used them.
UserKeepsItsRegisters == fpuPc = "user" => ~need_load /\ regs = uval

\* The guest finds the registers and the protection keys it left, or what
\* INIT, KVM_SET_FPU or a migration made of them.
GuestKeepsItsRegisters == fpuPc = "guest" => regs = gval /\ (UsesPkru => pkru = gpkru)

\* Outside the guest the kernel runs with the host's features and with the
\* protection keys of user space, whose memory it reads and writes.
HostKeepsItsState == fpuPc # "guest" => xcr0 = HostXcr0 /\ pkru = upkru

\* XCR0 of the guest is one the processor accepts and KVM can save: loading it
\* never faults in the host.
LoadableXcr0 ==
  /\ "fp" \in vcpu_xcr0 /\ vcpu_xcr0 \subseteq HostXcr0
  /\ \A f \in AVX512 \cap vcpu_xcr0 : AVX512 \cup {"sse", "ymm"} \subseteq vcpu_xcr0
  /\ {"bndregs", "bndcsr"} \subseteq vcpu_xcr0 \/ {"bndregs", "bndcsr"} \cap vcpu_xcr0 = {}

\* CPUID reports the size of the save area for the XCR0 that is set.
CpuidFollowsXcr0 == cpuid_ext = vcpu_xcr0 \ FPSSE

-----------------------------------------------------------------------------
(***************************************************************************)
(* WBINVD of a guest with a device that does not snoop caches (kvm/x86.c): *)
(* the VCPU moves between processors and leaves dirty lines in their       *)
(* caches, so its WBINVD has to write back more than the cache it runs on. *)
(* With an exit for WBINVD, KVM keeps the processors in wbinvd_dirty_mask; *)
(* without, every move writes back the cache that is left.  The device is  *)
(* there before the VCPU runs.                                             *)
(***************************************************************************)

CONSTANTS
  Cpus,
  Exits           \* values of kvm_x86_has_wbinvd_exit

ASSUME WbinvdAssumption == Exits \subseteq BOOLEAN

WbinvdNone == "none"

VARIABLES
  has_exit,
  cpu,            \* where the VCPU is loaded, or None
  last,           \* vcpu->cpu, or None
  wbinvdMask,     \* wbinvd_dirty_mask
  dirty,          \* processors whose cache holds lines the VCPU wrote
  wbinvdPc,       \* "guest" | "clear": between put_cpu and cpumask_clear | "done"
  before,         \* history: of dirty, what was written before the WBINVD that is executed
  since,          \* history: processors the VCPU was loaded on since the last WBINVD wrote
                  \* back, but for loads before that WBINVD had cleared the mask
  due             \* history: since and the processor itself, when the WBINVD was executed

wbinvdVars == <<has_exit, cpu, last, wbinvdMask, dirty, wbinvdPc, before, since, due>>

WbinvdInit ==
  /\ has_exit \in Exits /\ since = {} /\ due = {}
  /\ cpu = WbinvdNone /\ last = WbinvdNone /\ wbinvdMask = {} /\ dirty = {} /\ before = {} /\ wbinvdPc = "guest"

(* kvm_arch_vcpu_load *)
kvm_arch_vcpu_load(c) ==
  /\ cpu = WbinvdNone /\ cpu' = c /\ last' = c
  /\ IF has_exit THEN wbinvdMask' = wbinvdMask \cup {c} /\ UNCHANGED <<dirty, before>>
     ELSE /\ dirty' = IF last \notin {WbinvdNone, c} THEN dirty \ {last} ELSE dirty
          /\ before' = before \cap dirty' /\ UNCHANGED wbinvdMask
  /\ since' = IF wbinvdPc = "clear" THEN since ELSE since \cup {c}
  /\ UNCHANGED <<has_exit, wbinvdPc, due>>
(* the thread is scheduled out: in the guest, or in the kernel where preemption is on *)
SchedOut ==
  /\ cpu # WbinvdNone /\ cpu' = WbinvdNone
  /\ UNCHANGED <<has_exit, last, wbinvdMask, dirty, wbinvdPc, before, since, due>>
GuestWrites ==
  /\ cpu # WbinvdNone /\ wbinvdPc = "guest" /\ dirty' = dirty \cup {cpu}
  /\ UNCHANGED <<has_exit, cpu, last, wbinvdMask, wbinvdPc, before, since, due>>

(* kvm_emulate_wbinvd_noskip: with preemption off (get_cpu) the caches of the mask are written back ... *)
Wbinvd ==
  /\ cpu # WbinvdNone /\ wbinvdPc = "guest"
  /\ IF has_exit
     THEN /\ wbinvdMask' = wbinvdMask \cup {cpu} /\ dirty' = dirty \ wbinvdMask' /\ wbinvdPc' = "clear"
     ELSE /\ dirty' = dirty \ {cpu} /\ wbinvdPc' = "done" /\ UNCHANGED wbinvdMask
  /\ before' = dirty' /\ due' = since \cup {cpu} /\ since' = {}
  /\ UNCHANGED <<has_exit, cpu, last>>
(* ... and after put_cpu, wherever the thread is then, the mask is cleared *)
ClearMask ==
  /\ cpu # WbinvdNone /\ wbinvdPc = "clear" /\ wbinvdMask' = {} /\ wbinvdPc' = "done"
  /\ UNCHANGED <<has_exit, cpu, last, dirty, before, since, due>>
Resume ==
  /\ cpu # WbinvdNone /\ wbinvdPc = "done" /\ wbinvdPc' = "guest" /\ before' = {} /\ due' = {}
  /\ UNCHANGED <<has_exit, cpu, last, wbinvdMask, dirty, since>>

WbinvdNext == (\E c \in Cpus : kvm_arch_vcpu_load(c)) \/ SchedOut \/ GuestWrites \/ Wbinvd \/ ClearMask \/ Resume

WbinvdSpec == WbinvdInit /\ [][WbinvdNext]_wbinvdVars

-----------------------------------------------------------------------------
(* However the thread is preempted and moved, a WBINVD leaves no line behind that the guest wrote   *)
(* on a processor it was loaded on since the last one, and none at all where WBINVD does not exit.  *)
(* A load that is preempted in between the write-back and the clearing of the mask is not           *)
(* remembered (put_cpu comes before cpumask_clear), nor is the processor that is not left meanwhile. *)
WrittenBackSinceLoad ==
  wbinvdPc # "guest" => IF has_exit THEN before \cap due = {} ELSE before = {}
=============================================================================
