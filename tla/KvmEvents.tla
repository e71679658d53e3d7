----------------------------- MODULE KvmEvents ------------------------------
(***************************************************************************)
(* How events reach the guest, in three parts: the task priority,          *)
(* interrupts of a controller in user space, and the order of exceptions,  *)
(* NMIs, SMIs and interrupts.                                              *)
(***************************************************************************)
EXTENDS Integers, FiniteSets, Naturals

(***************************************************************************)
(* The task priority of a VCPU whose local APIC is in the kernel           *)
(* (kvm/x86.c): the guest raises and lowers CR8 without leaving guest mode, *)
(* an interrupt whose priority is not above it waits in the APIC, and      *)
(* update_cr8_intercept tells the processor below which value a write must *)
(* exit. With APICv the processor takes interrupts itself, from a          *)
(* descriptor others post them to. KVM_GET_LAPIC and KVM_SET_LAPIC move    *)
(* the APIC to another host.                                               *)
(*                                                                         *)
(* An interrupt stands for its priority class. The APIC (lapic.c) and the  *)
(* vendor modules are external. The guest has interrupts enabled and no    *)
(* TPR page of its own (vapic_addr is 0).                                  *)
(***************************************************************************)

CONSTANT MaxClass
ASSUME TprAssumption == MaxClass \in Nat \ {0}

Classes == 1..MaxClass

VARIABLES
  apicv,          \* vcpu->arch.apicv_active
  tpr, tprIrr, isr,  \* the APIC: task priority, requested and in-service interrupts
  pir,            \* interrupts posted with APICv
  threshold,      \* what the vendor module programmed: CR8 below it exits
  req,            \* KVM_REQ_EVENT
  tprKicked,         \* an exit is on its way (IPI, or a write below the threshold)
  tprPc,             \* host, guest, or saved while user space moves the APIC
  image,          \* what KVM_GET_LAPIC returned
  sent            \* ghost: interrupts sent and not yet taken by the guest

tprVars == <<apicv, tpr, tprIrr, isr, pir, threshold, req, tprKicked, tprPc, image, sent>>

NoImage == [tpr |-> 0, irr |-> {}, isr |-> {}]
TprInit ==
  /\ apicv \in BOOLEAN /\ tpr = 0 /\ tprIrr = {} /\ isr = {} /\ pir = {}
  /\ threshold = 0 /\ req = TRUE /\ tprKicked = FALSE /\ tprPc = "host" /\ image = NoImage /\ sent = {}

Top(S) == IF S = {} THEN -1 ELSE CHOOSE c \in S : \A d \in S : d <= c
Ppr(t, s) == IF Top(s) > t THEN Top(s) ELSE t
Above(i, t, s) == Top(i) > Ppr(t, s)

-----------------------------------------------------------------------------
(* An interrupt is sent from another VCPU or a device (external). *)
Arrive(c) ==
  /\ tprPc # "saved" /\ c \notin sent /\ sent' = sent \cup {c}
  /\ IF apicv
     THEN pir' = pir \cup {c} /\ UNCHANGED <<tprIrr, req>>
     ELSE tprIrr' = tprIrr \cup {c} /\ req' = TRUE /\ UNCHANGED pir
  /\ tprKicked' = (tprKicked \/ (tprPc = "guest" /\ ~apicv))
  /\ UNCHANGED <<apicv, tpr, isr, threshold, tprPc, image>>

(* update_cr8_intercept, and the threshold the vendor module derives (external) *)
update_cr8_intercept(t, i) ==
  LET max_irr == Top(i) IN
  IF apicv THEN threshold
  ELSE IF max_irr = -1 \/ t < max_irr THEN 0 ELSE max_irr

(* vcpu_enter_guest: an event request injects the highest interrupt above the priority *)
TprEnterGuest ==
  /\ tprPc = "host" /\ tprPc' = "guest" /\ tprKicked' = FALSE /\ req' = FALSE
  /\ LET i == tprIrr \cup pir
         inject == ~apicv /\ req /\ Above(i, tpr, isr)
         rest == IF inject THEN i \ {Top(i)} ELSE i IN
     /\ tprIrr' = rest /\ pir' = {}
     /\ isr' = IF inject THEN isr \cup {Top(i)} ELSE isr
     /\ sent' = IF inject THEN sent \ {Top(i)} ELSE sent
     /\ threshold' = IF req THEN update_cr8_intercept(tpr, rest) ELSE threshold
  /\ UNCHANGED <<apicv, tpr, image>>

-----------------------------------------------------------------------------
(* The guest moves a value to CR8 without an exit; below the threshold the processor exits afterwards, *)
(* and the vendor module requests an event.                                                            *)
GuestCr8(t) ==
  /\ tprPc = "guest" /\ ~tprKicked /\ tpr' = t
  /\ tprKicked' = (t < threshold /\ ~apicv) /\ req' = (req \/ tprKicked')
  /\ UNCHANGED <<apicv, tprIrr, isr, pir, threshold, tprPc, image, sent>>
(* Or the move exits (no shadow of the register): kvm_set_cr8 through the APIC, which requests an event *)
(* when an interrupt is now above the priority.                                                         *)
kvm_set_cr8(t) ==
  /\ tprPc = "guest" /\ ~tprKicked /\ tpr' = t /\ tprPc' = "host"
  /\ req' = (req \/ Above(tprIrr, t, isr))
  /\ UNCHANGED <<apicv, tprIrr, isr, pir, threshold, tprKicked, image, sent>>
(* The end of an interrupt handler; without APICv the write exits and requests an event. *)
Eoi ==
  /\ tprPc = "guest" /\ ~tprKicked /\ isr # {} /\ isr' = isr \ {Top(isr)}
  /\ tprPc' = IF apicv THEN tprPc ELSE "host"
  /\ req' = (req \/ ~apicv)
  /\ UNCHANGED <<apicv, tpr, tprIrr, pir, threshold, tprKicked, image, sent>>
(* APICv: the processor takes the highest interrupt by itself. *)
TprHardware ==
  /\ tprPc = "guest" /\ apicv /\ Above(tprIrr \cup pir, tpr, isr)
  /\ LET c == Top(tprIrr \cup pir) IN
     tprIrr' = (tprIrr \cup pir) \ {c} /\ isr' = isr \cup {c} /\ sent' = sent \ {c}
  /\ pir' = {} /\ UNCHANGED <<apicv, tpr, threshold, req, tprKicked, tprPc, image>>
TprExit ==
  /\ tprPc = "guest" /\ tprPc' = "host" /\ tprKicked' = FALSE
  /\ UNCHANGED <<apicv, tpr, tprIrr, isr, pir, threshold, req, image, sent>>

-----------------------------------------------------------------------------
(* KVM_GET_LAPIC with the sources of interrupts stopped, and KVM_SET_LAPIC on a new VCPU *)
kvm_vcpu_ioctl_get_lapic ==
  /\ tprPc = "host" /\ tprPc' = "saved"
  /\ image' = [tpr |-> tpr, irr |-> IF apicv THEN tprIrr \cup pir ELSE tprIrr, isr |-> isr]
  /\ tpr' = 0 /\ tprIrr' = {} /\ isr' = {} /\ pir' = {} /\ threshold' = 0 /\ req' = TRUE /\ tprKicked' = FALSE
  /\ apicv' \in BOOLEAN /\ UNCHANGED sent
kvm_vcpu_ioctl_set_lapic ==
  /\ tprPc = "saved" /\ tprPc' = "host"
  /\ tpr' = image.tpr /\ tprIrr' = image.irr /\ isr' = image.isr /\ req' = TRUE
  /\ threshold' = update_cr8_intercept(image.tpr, image.irr) /\ image' = NoImage
  /\ UNCHANGED <<apicv, pir, tprKicked, sent>>

TprNext ==
  \/ \E c \in Classes : Arrive(c)
  \/ TprEnterGuest \/ Eoi \/ TprHardware \/ TprExit
  \/ \E t \in 0..MaxClass : GuestCr8(t) \/ kvm_set_cr8(t)
  \/ kvm_vcpu_ioctl_get_lapic \/ kvm_vcpu_ioctl_set_lapic
TprSpec == TprInit /\ [][TprNext]_tprVars

-----------------------------------------------------------------------------
(* A guest that lowers its priority below a waiting interrupt, by whichever way, does not run on with it *)
(* waiting: an exit is on its way, and an event is requested that will inject it.                        *)
UnmaskedExits == tprPc = "guest" /\ ~apicv /\ Above(tprIrr, tpr, isr) => tprKicked /\ req

(* No interrupt is lost: one that was sent and not taken is in the APIC, in the posted interrupts, or in *)
(* what user space moves.                                                                                *)
NoneLost == sent \subseteq tprIrr \cup pir \cup image.irr

-----------------------------------------------------------------------------
(***************************************************************************)
(* Interrupts from an interrupt controller in user space (kvm/x86.c): user *)
(* space learns from kvm_run whether the VCPU can take one, hands it over  *)
(* with KVM_INTERRUPT, or asks for an exit when the guest will take one    *)
(* (request_interrupt_window).  With mode "user" no controller is in the   *)
(* kernel and KVM_INTERRUPT queues the interrupt at once; with "split" the *)
(* local APIC is and the vector waits in pending_external_vector.          *)
(*                                                                         *)
(* Vectors are numbers and 0 is none.  The guest stops for user space only *)
(* between instructions.                                                   *)
(***************************************************************************)

CONSTANTS
  MaxIrq,          \* bound: interrupts devices raise
  MaxMask          \* bound: times the guest masks LINT0

ASSUME WindowAssumption == MaxIrq \in Nat /\ MaxMask \in Nat

Irq == 1..MaxIrq

VARIABLES
  mode,            \* "user" | "split"
  windowPc,              \* "user" | "enter" | "guest" | "tail"
  pic,             \* interrupts that wait in user space
  windowRaised, masked,  \* what happened so far
  req_win, windowReady,  \* kvm_run: request_interrupt_window, ready_for_interrupt_injection
  req_event_window,       \* KVM_REQ_EVENT
  ext,             \* pending_external_vector
  windowIrq,             \* interrupt.injected and its vector
  windowEx,              \* exception: "none" | "pending" | "injected"
  iflag,           \* "off" | "shadow" (STI just ran) | "on"
  lint0,           \* LINT0 of the local APIC lets the controller through
  window, imm,     \* interrupt-window exiting, immediate exit
  hw,              \* event loaded for the entry: a vector, or MaxIrq + 1 for the exception
  delivered,       \* vectors the guest took
  refused,         \* KVM_INTERRUPT failed
  signal           \* a signal for the VCPU's thread is pending

windowVars == <<mode, windowPc, pic, windowRaised, masked, req_win, windowReady, req_event_window, ext, windowIrq, windowEx, iflag, lint0, window, imm, hw, delivered, refused, signal>>
Exception == MaxIrq + 1

(* a VCPU that has not run; kvm_arch_vcpu_create: pending_external_vector = -1 *)
WindowInit ==
  /\ mode \in {"user", "split"} /\ windowPc = "user" /\ pic = {} /\ windowRaised = 0 /\ masked = 0
  /\ req_win = FALSE /\ windowReady = FALSE /\ req_event_window = TRUE /\ ext = 0 /\ windowIrq = 0 /\ windowEx = "none"
  /\ iflag = "off" /\ lint0 = TRUE /\ window = FALSE /\ imm = FALSE /\ hw = 0
  /\ delivered = {} /\ refused = FALSE /\ signal = FALSE

-----------------------------------------------------------------------------
(* irq.c: an interrupt waits in KVM *)
kvm_cpu_has_extint == IF mode = "user" THEN windowIrq # 0 ELSE lint0 /\ ext # 0
kvm_arch_interrupt_allowed == iflag = "on"
(* a place to store the vector is free *)
kvm_cpu_accept_dm_intr == ~kvm_cpu_has_extint /\ (mode = "user" \/ lint0)
kvm_event_needs_reinjection == windowIrq # 0 \/ windowEx = "injected"

kvm_vcpu_ready_for_interrupt_injection ==
  kvm_arch_interrupt_allowed /\ kvm_cpu_accept_dm_intr /\ ~kvm_event_needs_reinjection /\ windowEx # "pending"
dm_request_for_irq_injection == req_win

(* post_kvm_run_save *)
ExitToUser == windowPc' = "user" /\ windowReady' = kvm_vcpu_ready_for_interrupt_injection
-----------------------------------------------------------------------------
(* User space: a device raises an interrupt and signals the thread of a VCPU that runs *)
WindowRaise ==
  /\ windowRaised < MaxIrq /\ windowRaised' = windowRaised + 1 /\ pic' = pic \cup {windowRaised'}
  /\ signal' = (signal \/ windowPc # "user")
  /\ UNCHANGED <<mode, windowPc, masked, req_win, windowReady, req_event_window, ext, windowIrq, windowEx, iflag, lint0, window, imm, hw, delivered, refused>>

(* KVM_INTERRUPT, once for a kvm_run that said ready *)
kvm_vcpu_ioctl_interrupt(n) ==
  /\ windowPc = "user" /\ windowReady /\ n \in pic
  /\ windowReady' = FALSE /\ pic' = pic \ {n}
  /\ CASE mode = "user" -> windowIrq' = n /\ req_event_window' = TRUE /\ UNCHANGED <<ext, refused>>
       [] mode = "split" /\ ext # 0 -> refused' = TRUE /\ UNCHANGED <<windowIrq, ext, req_event_window>>
       [] OTHER -> ext' = n /\ req_event_window' = TRUE /\ UNCHANGED <<windowIrq, refused>>
  /\ UNCHANGED <<mode, windowPc, windowRaised, masked, req_win, windowEx, iflag, lint0, window, imm, hw, delivered, signal>>

(* KVM_RUN; a window is requested while interrupts wait *)
Run ==
  /\ windowPc = "user" /\ (windowReady => pic = {})
  /\ windowPc' = "enter" /\ req_win' = (pic # {}) /\ windowReady' = FALSE
  /\ UNCHANGED <<mode, pic, windowRaised, masked, req_event_window, ext, windowIrq, windowEx, iflag, lint0, window, imm, hw, delivered, refused, signal>>
WindowUser == WindowRaise \/ Run \/ \E n \in Irq : kvm_vcpu_ioctl_interrupt(n)

-----------------------------------------------------------------------------
(* vcpu_enter_guest up to the entry, with inject_pending_event *)
CanInject == windowEx # "pending" /\ ~kvm_event_needs_reinjection
Takes == CanInject /\ kvm_cpu_has_extint /\ kvm_arch_interrupt_allowed
Loaded == CASE windowEx # "none" -> Exception [] windowEx = "none" /\ windowIrq # 0 -> windowIrq [] windowEx = "none" /\ windowIrq = 0 /\ Takes -> ext [] OTHER -> 0
InjectPendingEvent(rw) ==
  /\ windowEx' = IF windowEx = "pending" THEN "injected" ELSE windowEx
  /\ windowIrq' = IF Takes THEN ext ELSE windowIrq
  /\ ext' = IF Takes THEN 0 ELSE ext
  /\ window' = (window \/ (kvm_cpu_has_extint /\ ~Takes /\ CanInject) \/ rw)
(* ... and, when a signal has come, back: cancel_injection queues the event again *)
Event(rw, cancel) ==
  /\ InjectPendingEvent(rw)
  /\ hw' = IF cancel THEN 0 ELSE Loaded
  /\ imm' = (~cancel /\ kvm_cpu_has_extint /\ ~Takes /\ ~CanInject)
WindowEnterGuest ==
  LET rw == dm_request_for_irq_injection /\ kvm_cpu_accept_dm_intr
      event == req_event_window \/ rw
  IN  /\ windowPc = "enter" /\ windowPc' = IF signal THEN "tail" ELSE "guest"
      /\ req_event_window' = signal
      /\ IF event THEN Event(rw, signal) ELSE UNCHANGED <<windowEx, windowIrq, ext, hw, imm, window>>
      /\ UNCHANGED <<mode, pic, windowRaised, masked, req_win, windowReady, iflag, lint0, delivered, refused, signal>>

(* vcpu_run after an exit that KVM handled: a window for user space, a signal, or around again *)
LoopTail ==
  /\ windowPc = "tail"
  /\ \/ dm_request_for_irq_injection /\ kvm_vcpu_ready_for_interrupt_injection /\ ExitToUser
        /\ UNCHANGED signal
     \/ ~(dm_request_for_irq_injection /\ kvm_vcpu_ready_for_interrupt_injection)
        /\ IF signal THEN ExitToUser /\ signal' = FALSE ELSE windowPc' = "enter" /\ UNCHANGED <<windowReady, signal>>
  /\ UNCHANGED <<mode, pic, windowRaised, masked, req_win, req_event_window, ext, windowIrq, windowEx, iflag, lint0, window, imm, hw, delivered, refused>>

-----------------------------------------------------------------------------
(* The processor and the vendor module: the loaded event is delivered, or its delivery is interrupted *)
(* by an exit and it is queued again. *)
WindowDeliver ==
  /\ windowPc = "guest" /\ hw # 0 /\ hw' = 0 /\ iflag' = "off"
  /\ IF hw = Exception THEN windowEx' = "none" /\ UNCHANGED <<windowIrq, delivered>>
     ELSE windowIrq' = 0 /\ delivered' = delivered \cup {hw} /\ UNCHANGED windowEx
  /\ UNCHANGED <<mode, windowPc, pic, windowRaised, masked, req_win, windowReady, req_event_window, ext, lint0, window, imm, refused, signal>>
DeliveryInterrupted ==
  /\ windowPc = "guest" /\ hw # 0 /\ hw' = 0 /\ windowPc' = "tail" /\ req_event_window' = TRUE /\ imm' = FALSE
  /\ UNCHANGED <<mode, pic, windowRaised, masked, req_win, windowReady, ext, windowIrq, windowEx, iflag, lint0, window, delivered, refused, signal>>
ImmediateExit ==
  /\ windowPc = "guest" /\ hw = 0 /\ imm /\ imm' = FALSE /\ windowPc' = "tail"
  /\ UNCHANGED <<mode, pic, windowRaised, masked, req_win, windowReady, req_event_window, ext, windowIrq, windowEx, iflag, lint0, window, hw, delivered, refused, signal>>
(* handle_interrupt_window *)
WindowExit ==
  /\ windowPc = "guest" /\ hw = 0 /\ ~imm /\ window /\ iflag = "on"
  /\ window' = FALSE /\ req_event_window' = TRUE /\ windowPc' = "tail"
  /\ UNCHANGED <<mode, pic, windowRaised, masked, req_win, windowReady, ext, windowIrq, windowEx, iflag, lint0, imm, hw, delivered, refused, signal>>

(* The guest's instructions *)
Runs == windowPc = "guest" /\ hw = 0 /\ ~imm /\ ~(window /\ iflag = "on")
GuestSame == UNCHANGED <<mode, pic, windowRaised, req_win, ext, windowIrq, window, imm, hw, delivered, refused, signal>>
WindowSti == Runs /\ iflag = "off" /\ iflag' = "shadow" /\ GuestSame /\ UNCHANGED <<windowPc, windowReady, masked, req_event_window, windowEx, lint0>>
Insn == Runs /\ iflag = "shadow" /\ iflag' = "on" /\ GuestSame /\ UNCHANGED <<windowPc, windowReady, masked, req_event_window, windowEx, lint0>>
Cli == Runs /\ iflag # "off" /\ iflag' = "off" /\ GuestSame /\ UNCHANGED <<windowPc, windowReady, masked, req_event_window, windowEx, lint0>>
Mask ==
  /\ Runs /\ mode = "split" /\ lint0 /\ masked < MaxMask /\ lint0' = FALSE /\ masked' = masked + 1
  /\ GuestSame /\ UNCHANGED <<windowPc, windowReady, req_event_window, windowEx, iflag>>
(* the local APIC's write of LVT0 raises KVM_REQ_EVENT when it lets the controller through again *)
Unmask ==
  /\ Runs /\ ~lint0 /\ lint0' = TRUE /\ req_event_window' = TRUE /\ windowPc' = "tail"
  /\ GuestSame /\ UNCHANGED <<windowReady, masked, windowEx, iflag>>
(* an exit that KVM handles, with an exception for the guest or without, and one that goes to user space *)
WindowVmExit(fault) ==
  /\ Runs /\ windowPc' = "tail" /\ IF fault THEN windowEx' = "pending" /\ req_event_window' = TRUE ELSE UNCHANGED <<windowEx, req_event_window>>
  /\ GuestSame /\ UNCHANGED <<windowReady, masked, iflag, lint0>>
SignalExit == signal /\ WindowVmExit(FALSE)
IoExit == Runs /\ ExitToUser /\ GuestSame /\ UNCHANGED <<masked, req_event_window, windowEx, iflag, lint0>>
WindowGuest ==
  \/ WindowDeliver \/ DeliveryInterrupted \/ ImmediateExit \/ WindowExit
  \/ WindowSti \/ Insn \/ Cli \/ Mask \/ Unmask \/ (\E f \in BOOLEAN : WindowVmExit(f)) \/ IoExit

WindowNext == WindowUser \/ WindowEnterGuest \/ LoopTail \/ WindowGuest

(* The host's timer makes the guest exit; user space runs the VCPU and hands over what it may, KVM's loop goes on, an event is not *)
(* interrupted for ever, and the guest enables interrupts, executes the next instruction and unmasks *)
(* LINT0 again and again. *)
WindowFairness ==
  /\ WF_windowVars(Run) /\ WF_windowVars(\E n \in Irq : kvm_vcpu_ioctl_interrupt(n)) /\ WF_windowVars(WindowEnterGuest) /\ WF_windowVars(LoopTail)
  /\ SF_windowVars(WindowDeliver) /\ WF_windowVars(WindowVmExit(FALSE)) /\ WF_windowVars(SignalExit) /\ WF_windowVars(ImmediateExit) /\ WF_windowVars(WindowExit)
  /\ SF_windowVars(WindowSti) /\ SF_windowVars(Insn) /\ SF_windowVars(Unmask)
WindowSpec == WindowInit /\ [][WindowNext]_windowVars /\ WindowFairness

-----------------------------------------------------------------------------
(* Every interrupt a device raised waits in user space, is held by KVM in exactly one place, or was *)
(* taken by the guest: KVM_INTERRUPT never overwrites one that is queued. *)
NothingLost ==
  LET held == {n \in {ext, windowIrq} : n # 0}
  IN  /\ 1..windowRaised = pic \cup held \cup delivered
      /\ Cardinality(pic) + Cardinality(held) + Cardinality(delivered) = windowRaised

(* kvm_run's ready flag is a promise: a KVM_INTERRUPT that follows it is accepted. *)
ReadyIsAccepted == ~refused

(* The processor is loaded with an interrupt only when the guest accepts interrupts: the readiness *)
(* that user space saw still holds when the guest is entered. *)
OnlyWhenOpen == hw \in Irq => iflag = "on"

-----------------------------------------------------------------------------
(***************************************************************************)
(* Events of one virtual CPU of KVM (kvm/x86.c): exceptions, NMIs, SMIs    *)
(* and interrupts from the moment they are raised until the guest takes    *)
(* them, and the calls that save and restore them.  The virtual CPU is not *)
(* nested, so a payload is delivered when its exception is queued.  The    *)
(* vendor module (VMX) and the guest are external; what they do to this    *)
(* state is modelled in their own section.                                 *)
(*                                                                         *)
(* The virtual CPU is one record:                                          *)
(*   req      vcpu->requests           ex       arch.exception             *)
(*   irq      arch.interrupt.injected  nmi...   nmi_queued, nmi_pending... *)
(*   smi      arch.smi_pending         smm      HF_SMM_MASK                *)
(*   cr2, dr6 where payloads go        hw       the event of this entry    *)
(*   window   windows the vendor module was asked for                      *)
(*   imm      the entry will be followed by an immediate exit              *)
(*   cap      user space has asked for KVM_CAP_EXCEPTION_PAYLOAD           *)
(***************************************************************************)

CONSTANTS
    Vectors,                \* vectors that may be raised, e.g. {"PF", "GP", "DB"}
    Payloads,               \* addresses of page faults, conditions of #DB
    BlockIrq,               \* KVM_GUESTDBG_BLOCKIRQ
    MaxRaised               \* bound on what devices and instructions raise

VARIABLES
    eventPc,                     \* "host" | "guest" | "shutdown"
    v,                      \* the virtual CPU
    eventIrr,                    \* an interrupt waits in the local APIC
    eventRaised                  \* events raised so far

eventVars == <<eventPc, v, eventIrr, eventRaised>>

NoException == [pending |-> FALSE, injected |-> FALSE, nr |-> "none",
                has_payload |-> FALSE, payload |-> 0, of |-> 0]

EventInit ==
    /\ eventPc = "host"
    /\ \E cap \in BOOLEAN : v = [req |-> {}, cap |-> cap, ex |-> NoException, irq |-> FALSE,
            nmi_queued |-> 0, nmi_pending |-> 0, nmi_injected |-> FALSE, nmi_masked |-> FALSE,
            smi |-> FALSE, smm |-> FALSE, smm_in_nmi |-> FALSE, if_flag |-> TRUE,
            cr2 |-> 0, dr6 |-> 0, hw |-> {}, window |-> {}, imm |-> FALSE]
    /\ eventIrr = FALSE
    /\ eventRaised = 0

Request(s, r) == [s EXCEPT !.req = @ \cup {r}]

-----------------------------------------------------------------------------
(* Queueing exceptions.                                                    *)

exception_class(nr) == CASE nr = "PF" -> "pf"
                         [] nr \in {"DE", "TS", "NP", "SS", "GP"} -> "contributory"
                         [] OTHER -> "benign"

exception_is_soft(nr) == nr \in {"BP", "OF"}

kvm_deliver_exception_payload(s) ==
    IF ~s.ex.has_payload THEN s
    ELSE [s EXCEPT !.dr6 = IF s.ex.nr = "DB" THEN s.ex.payload ELSE @,
                   !.cr2 = IF s.ex.nr = "PF" THEN s.ex.payload ELSE @,
                   !.ex.has_payload = FALSE, !.ex.payload = 0]

\* `p' is the payload, 0 for none.  Mutants: the old flags stay; the payload does.
Queue(s, nr, p, reinject) ==
    kvm_deliver_exception_payload(
        [s EXCEPT !.ex = [pending |-> ~reinject, injected |-> reinject, nr |-> nr,
                          has_payload |-> p # 0 /\ ~reinject,
                          payload |-> IF reinject THEN 0 ELSE p,
                          of |-> IF reinject THEN s.ex.of ELSE p]])

\* Double fault per SDM Table 5-5.
MakesDouble(a, b) ==
    \/ exception_class(a) = "contributory" /\ exception_class(b) = "contributory"
    \/ exception_class(a) = "pf" /\ exception_class(b) # "benign"

kvm_multiple_exception(s0, nr, p, reinject) ==
    LET s == Request(s0, "EVENT") IN
    IF ~s.ex.pending /\ ~s.ex.injected THEN Queue(s, nr, p, reinject)
    ELSE IF s.ex.nr = "DF" THEN Request(s, "TRIPLE_FAULT")
    ELSE IF MakesDouble(s.ex.nr, nr)
         THEN [s EXCEPT !.ex = [NoException EXCEPT !.pending = TRUE, !.nr = "DF"]]
    ELSE Queue(s, nr, p, reinject)

-----------------------------------------------------------------------------
(* NMIs and SMIs reach the virtual CPU by request.                         *)

kvm_inject_nmi(s) == Request([s EXCEPT !.nmi_queued = @ + 1], "NMI")

Min2(a, b) == IF a < b THEN a ELSE b
NmiLimit(s) == IF s.nmi_masked \/ s.nmi_injected THEN 1 ELSE 2

process_nmi(s) ==
    Request([s EXCEPT !.nmi_pending = Min2(@ + s.nmi_queued, NmiLimit(s)),
                      !.nmi_queued = 0], "EVENT")

process_smi_event(s) == Request([s EXCEPT !.smi = TRUE], "EVENT")

\* kvm_check_request: test and clear.
Check(s, r, Do(_)) == IF r \in s.req THEN Do([s EXCEPT !.req = @ \ {r}]) ELSE s

-----------------------------------------------------------------------------
(* inject_pending_event, in its order.  An intermediate result carries     *)
(* can_inject, and stop once the function has left by "goto out".          *)

Step(s, can, stop) == [s |-> s, can |-> can, stop |-> stop]
Put(s, e) == [s EXCEPT !.hw = @ \cup {e}]

Reinject(s) ==
    IF s.ex.injected THEN Step(Put(s, "ex"), FALSE, FALSE)
    ELSE IF s.ex.pending THEN Step(s, TRUE, FALSE)
    ELSE IF s.nmi_injected THEN Step(Put(s, "nmi"), FALSE, FALSE)
    ELSE IF s.irq THEN Step(Put(s, "irq"), FALSE, FALSE)
    ELSE Step(s, TRUE, FALSE)

InjectException(t) ==
    IF ~t.s.ex.pending THEN t
    ELSE LET s == [t.s EXCEPT !.ex.pending = FALSE, !.ex.injected = TRUE] IN
         Step(Put(IF s.ex.nr = "DB" THEN kvm_deliver_exception_payload(s) ELSE s, "ex"),
              FALSE, FALSE)

\* -EBUSY: an immediate exit is asked for and the rest is left for the next entry.
Busy(t) == Step([t.s EXCEPT !.imm = TRUE], t.can, TRUE)

\* Entering SMM masks NMIs and remembers whether they already were.
enter_smm(s) == [s EXCEPT !.smi = FALSE, !.smm = TRUE, !.if_flag = FALSE,
                          !.smm_in_nmi = s.nmi_masked, !.nmi_masked = TRUE]

InjectSmi(t) ==
    IF t.stop \/ ~t.s.smi THEN t
    ELSE IF ~t.can THEN Busy(t)
    ELSE IF ~t.s.smm THEN Step(enter_smm(t.s), FALSE, FALSE)
    ELSE t

\* The window is asked for whenever an NMI is left over.
NmiWindow(s) == IF s.nmi_pending > 0 THEN [s EXCEPT !.window = @ \cup {"nmi"}] ELSE s

InjectNmi(t) ==
    IF t.stop \/ t.s.nmi_pending = 0 THEN t
    ELSE IF ~t.can THEN Busy(t)
    ELSE IF ~t.s.nmi_masked
         THEN Step(NmiWindow(Put([t.s EXCEPT !.nmi_pending = @ - 1, !.nmi_injected = TRUE], "nmi")),
                   FALSE, FALSE)
    ELSE Step(NmiWindow(t.s), t.can, FALSE)

InjectIrq(t) ==
    IF t.stop \/ ~eventIrr THEN t
    ELSE IF ~t.can THEN Busy(t)
    ELSE IF t.s.if_flag THEN Step(Put([t.s EXCEPT !.irq = TRUE], "irq"), t.can, FALSE)
    ELSE Step([t.s EXCEPT !.window = @ \cup {"irq"}], t.can, FALSE)

\* A mutant: the queue is looked at although something was reinjected.
InjectRegardless(s) == LET t == [InjectException(Reinject(s)) EXCEPT !.can = TRUE]
                       IN  InjectIrq(InjectNmi(t))
InjectInOrder(s) ==
    LET old == Reinject(s)
        ex == InjectException(old)
        smi == InjectSmi(ex)
        nmi == InjectNmi(smi)
    IN  IF BlockIrq THEN ex ELSE InjectIrq(nmi)
inject_pending_event(s) == InjectInOrder(s)

-----------------------------------------------------------------------------
(* The part of vcpu_enter_guest that concerns events.                      *)

Requests(s) ==
    Check(Check(s, "SMI", process_smi_event), "NMI", process_nmi)

AskAgain(t) == IF t.s.imm THEN Request(t.s, "EVENT") ELSE t.s
AfterInjection(t) == AskAgain(t)

EventEnterGuest == eventPc = "host" /\
    \E s1 \in {Requests(v)} : \E t \in {inject_pending_event([s1 EXCEPT !.req = @ \ {"EVENT"}])} :
        /\ IF "TRIPLE_FAULT" \in v.req
           THEN /\ eventPc' = "shutdown"
                /\ v' = [v EXCEPT !.req = @ \ {"TRIPLE_FAULT"}]
                /\ UNCHANGED eventIrr
           ELSE /\ eventPc' = "guest"
                /\ IF "EVENT" \in s1.req
                   THEN /\ v' = AfterInjection(t)
                        /\ eventIrr' = (eventIrr /\ ~(t.s.irq /\ ~s1.irq))
                   ELSE v' = s1 /\ UNCHANGED eventIrr
        /\ UNCHANGED eventRaised

-----------------------------------------------------------------------------
(* The vendor module and the guest.                                        *)

EventExit(s) == [s EXCEPT !.hw = {}, !.imm = FALSE]
\* vmx_complete_interrupts: nothing injected is left over from this entry.
Completed(s) == [s EXCEPT !.ex.injected = FALSE, !.nmi_injected = FALSE, !.irq = FALSE]

\* The event of the entry is taken by the guest's handler.
Taken(s) == LET c == Completed(s) IN
            [c EXCEPT !.nmi_masked = @ \/ "nmi" \in s.hw,
                      !.if_flag = @ /\ "irq" \notin s.hw,
                      !.hw = {}]

EventDeliver == /\ eventPc = "guest" /\ v.hw # {}
                /\ v' = Taken(v)
                /\ UNCHANGED <<eventPc, eventIrr, eventRaised>>

\* The delivery itself exits (a nested page fault, a fault in the handler's
\* descriptor): the event is requeued and the exit handler may raise another.
Requeued(s) ==
    LET c == EventExit(Completed(s)) IN
    IF "ex" \in s.hw THEN kvm_multiple_exception(c, s.ex.nr, 0, TRUE)
    ELSE IF "nmi" \in s.hw THEN Request([c EXCEPT !.nmi_injected = TRUE], "EVENT")
    ELSE Request([c EXCEPT !.irq = TRUE], "EVENT")

DeliveryExits == /\ eventPc = "guest" /\ v.hw # {}
                 /\ eventRaised < MaxRaised
                 /\ eventRaised' = eventRaised + 1
                 /\ v' = Requeued(v)
                 /\ eventPc' = "host"
                 /\ UNCHANGED eventIrr

\* An exit at an instruction boundary, because it must be or for its own sake; an
\* open window that was asked for closes with an exit of its own.
Open(s) == (IF s.nmi_masked THEN {} ELSE {"nmi"}) \cup (IF s.if_flag THEN {"irq"} ELSE {})
MustExit == v.req # {} \/ v.imm \/ v.window \cap Open(v) # {}

EventExitGuest == /\ eventPc = "guest" /\ v.hw = {}
                  /\ v' = IF v.window \cap Open(v) = {} THEN EventExit(v)
                          ELSE Request([EventExit(v) EXCEPT !.window = @ \ Open(v)], "EVENT")
                  /\ eventPc' = "host"
                  /\ UNCHANGED <<eventIrr, eventRaised>>

EventGuestRuns == eventPc = "guest" /\ v.hw = {} /\ ~MustExit

Iret == /\ EventGuestRuns /\ ~v.smm /\ v.nmi_masked
        /\ v' = [v EXCEPT !.nmi_masked = FALSE]
        /\ UNCHANGED <<eventPc, eventIrr, eventRaised>>

EventSti == /\ EventGuestRuns /\ ~v.smm /\ ~v.if_flag
            /\ v' = [v EXCEPT !.if_flag = TRUE]
            /\ UNCHANGED <<eventPc, eventIrr, eventRaised>>

\* RSM is emulated: NMIs are unmasked unless they were masked before, and
\* kvm_smm_changed asks for the events that waited.
kvm_smm_changed_event(s) == Request([s EXCEPT !.smm = FALSE], "EVENT")

EventRsm == /\ EventGuestRuns /\ v.smm
            /\ v' = kvm_smm_changed_event([EventExit(v) EXCEPT !.nmi_masked = v.smm_in_nmi, !.smm_in_nmi = FALSE])
            /\ eventPc' = "host"
            /\ UNCHANGED <<eventIrr, eventRaised>>

-----------------------------------------------------------------------------
(* Devices, other virtual CPUs and userspace.                              *)

EventRaise == eventRaised < MaxRaised /\ eventRaised' = eventRaised + 1

RaiseNmi == EventRaise /\ eventPc # "shutdown" /\ v' = kvm_inject_nmi(v) /\ UNCHANGED <<eventPc, eventIrr>>
RaiseSmi == EventRaise /\ eventPc # "shutdown" /\ v' = Request(v, "SMI") /\ UNCHANGED <<eventPc, eventIrr>>
RaiseIrq == /\ EventRaise /\ eventPc # "shutdown" /\ ~eventIrr
            /\ eventIrr' = TRUE
            /\ v' = Request(v, "EVENT")
            /\ UNCHANGED eventPc

\* An instruction that KVM emulates or intercepts raises an exception.
RaiseException(nr, p) ==
    /\ EventRaise /\ eventPc = "host"
    /\ v' = kvm_multiple_exception(v, nr, p, FALSE)
    /\ UNCHANGED <<eventPc, eventIrr>>

\* KVM_GET_VCPU_EVENTS and KVM_SET_VCPU_EVENTS of what it returned, on the same
\* virtual CPU or on the one that takes its place after a migration.
Collected(s) == Check(process_nmi(s), "SMI", process_smi_event)

kvm_vcpu_ioctl_x86_get_vcpu_events(s0) ==
    LET s == Collected(s0)
        soft == exception_is_soft(s.ex.nr)
        s1 == IF ~s.cap /\ s.ex.pending THEN kvm_deliver_exception_payload(s) ELSE s
    IN  [s |-> s1,
         ex |-> [s1.ex EXCEPT !.injected = ~soft /\ (@ \/ (~s.cap /\ s1.ex.pending)),
                              !.pending = ~soft /\ @],
         irq |-> s1.irq, nmi_injected |-> s1.nmi_injected,
         nmi_pending |-> IF s1.nmi_pending > 0 THEN 1 ELSE 0,
         nmi_masked |-> s1.nmi_masked, smi |-> s1.smi, smm |-> s1.smm,
         smm_in_nmi |-> s1.smm_in_nmi]

TakeOne(e) == IF e.s.cap
              THEN IF e.ex.pending THEN [e.ex EXCEPT !.injected = FALSE]
                                   ELSE [e.ex EXCEPT !.has_payload = FALSE]
              ELSE [e.ex EXCEPT !.pending = FALSE, !.has_payload = FALSE]
SanitizedException(e) == TakeOne(e)

kvm_vcpu_ioctl_x86_set_vcpu_events(s0, e) ==
    LET s == process_nmi(s0) IN
    Request([s EXCEPT !.ex = SanitizedException(e), !.irq = e.irq,
                      !.nmi_injected = e.nmi_injected, !.nmi_pending = e.nmi_pending,
                      !.nmi_masked = e.nmi_masked, !.smm = e.smm, !.smi = e.smi,
                      !.smm_in_nmi = IF e.smm THEN e.smm_in_nmi ELSE @], "EVENT")

SaveAndRestore ==
    /\ eventPc = "host"
    /\ \E e \in {kvm_vcpu_ioctl_x86_get_vcpu_events(v)} :
       v' = kvm_vcpu_ioctl_x86_set_vcpu_events(e.s, e)
    /\ UNCHANGED <<eventPc, eventIrr, eventRaised>>

EventNext ==
    \/ EventEnterGuest \/ EventDeliver \/ DeliveryExits \/ EventExitGuest \/ Iret \/ EventSti \/ EventRsm
    \/ RaiseNmi \/ RaiseSmi \/ RaiseIrq \/ SaveAndRestore
    \/ \E nr \in Vectors : \E p \in IF nr \in {"PF", "DB"} THEN Payloads ELSE {0} :
          RaiseException(nr, p)

\* The virtual CPU's thread keeps entering, delivery succeeds in the end, and the
\* guest leaves its handlers.
EventSpec == /\ EventInit /\ [][EventNext]_eventVars
             /\ WF_eventVars(EventEnterGuest) /\ WF_eventVars(EventDeliver)
             /\ WF_eventVars(MustExit /\ EventExitGuest)
             /\ SF_eventVars(Iret) /\ SF_eventVars(EventSti) /\ SF_eventVars(EventRsm)

-----------------------------------------------------------------------------

EventTypeOK ==
    /\ eventPc \in {"host", "guest", "shutdown"}
    /\ v.req \subseteq {"EVENT", "NMI", "SMI", "TRIPLE_FAULT"}
    /\ v.ex.nr \in Vectors \cup {"none", "DF"}
    /\ v.hw \subseteq {"ex", "nmi", "irq"}
    /\ v.nmi_queued \in 0..MaxRaised
    /\ v.cr2 \in Payloads \cup {0} /\ v.dr6 \in Payloads \cup {0}

\* An exception is never both pending and injected (inject_pending_event warns of
\* it; the restore call and the queueing of a second exception could cause it).
NotBoth == ~(v.ex.pending /\ v.ex.injected)

\* An entry carries at most one event, however many are waiting or reinjected.
OneEventPerEntry == Cardinality(v.hw) <= 1

\* No more NMIs wait than the processor could hold: one running and one after it
\* (process_nmi's limit; SMM masks NMIs without one running).
NmiRunning == v.nmi_injected \/ (v.nmi_masked /\ ~v.smm) \/ v.smm_in_nmi
NmisBounded ==
    /\ v.nmi_pending <= 2
    /\ eventPc = "guest" /\ NmiRunning => v.nmi_pending <= 1

\* In the guest, an event that waits has an exit that will bring it back: a
\* window, an immediate exit, a request, or the end of SMM.
NothingForgotten ==
    eventPc = "guest" /\ ~BlockIrq =>
        /\ v.nmi_pending > 0 => v.imm \/ "nmi" \in v.window \/ "EVENT" \in v.req
        /\ eventIrr => v.imm \/ "irq" \in v.window \/ "EVENT" \in v.req
        /\ v.smi => v.imm \/ v.smm \/ "EVENT" \in v.req

\* A page fault is delivered with its own address in CR2, also after it was
\* replaced, requeued or restored.
FaultAddressMatches ==
    "ex" \in v.hw /\ v.ex.nr = "PF" => v.cr2 = v.ex.of

\* Saving and restoring loses no kind of event but software exceptions, which
\* the instruction raises again.
RestoreKeepsEvents ==
    LET e == kvm_vcpu_ioctl_x86_get_vcpu_events(v)
        r == kvm_vcpu_ioctl_x86_set_vcpu_events(e.s, e)
    IN  eventPc = "host" =>
        /\ (v.ex.pending \/ v.ex.injected) /\ ~exception_is_soft(v.ex.nr)
               => r.ex.pending \/ r.ex.injected
        /\ v.nmi_pending + v.nmi_queued > 0 => r.nmi_pending > 0
        /\ v.nmi_injected => r.nmi_injected
        /\ v.irq => r.irq
        /\ v.smi \/ "SMI" \in v.req => r.smi

\* Every NMI and every SMI reaches the guest, or the machine shuts down.
EventsArrive ==
    /\ [](v.nmi_pending + v.nmi_queued > 0 => <>(eventPc = "shutdown" \/ v.nmi_injected))
    /\ [](v.smi \/ "SMI" \in v.req => <>(eventPc = "shutdown" \/ v.smm))
=============================================================================
