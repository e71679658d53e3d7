----------------------------- MODULE KvmFaults ------------------------------
(***************************************************************************)
(* Four ways the guest is interrupted by something other than a device,    *)
(* each a part of its own: asynchronous page faults, machine checks,       *)
(* system management mode, and debugging.                                  *)
(***************************************************************************)
EXTENDS Naturals, Sequences, FiniteSets

(***************************************************************************)
(* Asynchronous page faults of one virtual CPU (kvm/x86.c): the guest is   *)
(* told that a page is not present and runs something else, a worker       *)
(* brings the page in, and the guest is told with a token and an interrupt *)
(* that it is ready.  One token fits in the guest's memory at a time.  The *)
(* pages under way are kept in an open hash table with linear probing.     *)
(*                                                                         *)
(* The list of finished work and the workers are kernel code outside this  *)
(* file; the guest's handler is Linux's: it takes the token, clears it and *)
(* acknowledges by writing MSR_KVM_ASYNC_PF_ACK.                           *)
(***************************************************************************)

CONSTANTS
  Gfns,       \* guest pages, positive numbers
  Size,       \* ASYNC_PF_PER_VCPU
  MaxFaults,  \* how many faults there are
  MaxToggles  \* how often the guest writes MSR_KVM_ASYNC_PF_EN

ASSUME AsyncPfAssumption == Size \in Nat \ {0} /\ Gfns \subseteq Nat \ {0} /\ IsFiniteSet(Gfns)

None == 0                          \* ~0 in gfns, 0 as a token
All == 1 + Cardinality(Gfns) + Size  \* ~0 as a token: everyone wakes up
Slots == 0..(Size - 1)

VARIABLES
  hash,      \* kvm_async_pf_hash_fn, any function
  gfns,      \* vcpu->arch.apf.gfns
  working,   \* the pages workers bring in
  done,      \* vcpu->async_pf.done
  queued,    \* vcpu->async_pf.queued
  told,      \* the pages whose absence was injected
  telling,   \* workers that have queued their page and have yet to say so
  token,     \* the token in guest memory
  apfPending,   \* vcpu->arch.apf.pageready_pending
  apfIrq,       \* the page-ready interrupt is pending
  enabled,   \* msr_en_val enables delivery
  apfReady,     \* KVM_REQ_APF_READY
  halted,    \* vcpu->arch.apf.halted
  where,     \* "guest", "host", or "handler" between clearing the token and the MSR
  apfKicked,    \* an interrupt makes the guest exit
  waiting,   \* the pages the guest's tasks sleep on
  left       \* faults and MSR writes left

apfVars == <<hash, gfns, working, done, queued, told, telling, token, apfPending, apfIrq, enabled, apfReady,
          halted, where, apfKicked, waiting, left>>
table == <<hash, gfns>>

ApfInit ==
  /\ hash \in [Gfns -> Slots] /\ gfns = [k \in Slots |-> None]
  /\ working = {} /\ done = <<>> /\ queued = 0 /\ told = {} /\ telling = 0
  /\ token = None /\ apfPending = FALSE /\ apfIrq = FALSE /\ enabled = TRUE /\ apfReady = FALSE
  /\ halted = FALSE /\ where = "guest" /\ apfKicked = FALSE /\ waiting = {}
  /\ left = [faults |-> MaxFaults, toggles |-> MaxToggles]

-----------------------------------------------------------------------------
(* the hash table *)

kvm_async_pf_next_probe(key) == (key + 1) % Size

(* the first slot from `key' on that satisfies Free or holds g *)
Distance(from, to) == (to - from + Size) % Size
FirstFrom(key, S) == CHOOSE k \in S : \A l \in S : Distance(key, k) <= Distance(key, l)

kvm_add_async_pf_gfn(t, g) ==
  [t EXCEPT ![FirstFrom(hash[g], {k \in Slots : t[k] = None})] = g]

(* after Size probes the search is back at its start *)
kvm_async_pf_gfn_slot(t, g) ==
  LET S == {k \in Slots : t[k] \in {g, None}} IN
  IF S = {} THEN hash[g] ELSE FirstFrom(hash[g], S)

kvm_find_async_pf_gfn(t, g) == t[kvm_async_pf_gfn_slot(t, g)] = g

(* k lies cyclically in ]i,j] *)
Between(i, k, j) == IF i <= j THEN i < k /\ k <= j ELSE i < k \/ k <= j

(* Delete: the slot i was emptied; entries behind it that can move to it do *)
Closed[p \in [t : [Slots -> Gfns \cup {None}], i : Slots, j : Slots, n : 0..(Size * Size)]] ==
  LET j == kvm_async_pf_next_probe(p.j) IN
  IF p.n = 0 \/ p.t[j] = None THEN p.t
  ELSE IF Between(p.i, hash[p.t[j]], j)
       THEN Closed[[t |-> p.t, i |-> p.i, j |-> j, n |-> p.n - 1]]
       ELSE Closed[[t |-> [p.t EXCEPT ![p.i] = p.t[j], ![j] = None], i |-> j, j |-> j,
                    n |-> p.n - 1]]

kvm_del_async_pf_gfn(t, g) ==
  LET i == kvm_async_pf_gfn_slot(t, g) IN
  IF t[i] # g THEN t   \* WARN_ON_ONCE
  ELSE Closed[[t |-> [t EXCEPT ![i] = None], i |-> i, j |-> i, n |-> Size * Size]]

-----------------------------------------------------------------------------
(* faults *)

Fault(g) ==
  /\ where = "guest" /\ left.faults > 0 /\ ~apfIrq
  /\ left' = [left EXCEPT !.faults = @ - 1]
  /\ where' = "host"

(* The page is already under way: an artificial halt. *)
FaultAgain(g) ==
  /\ Fault(g) /\ kvm_find_async_pf_gfn(gfns, g)
  /\ halted' = TRUE
  /\ UNCHANGED <<table, working, done, queued, told, telling, token, apfPending, apfIrq, enabled, apfReady,
                 apfKicked, waiting>>

(* kvm_arch_async_page_not_present: told, if the guest wants to know and is in user mode, *)
(* and halted otherwise                                                                    *)
kvm_arch_async_page_not_present(g) ==
  /\ Fault(g) /\ ~kvm_find_async_pf_gfn(gfns, g) /\ queued < Size
  /\ gfns' = kvm_add_async_pf_gfn(gfns, g)
  /\ working' = working \cup {g} /\ queued' = queued + 1
  /\ \E user \in BOOLEAN :
       IF enabled /\ user
       THEN told' = told \cup {g} /\ waiting' = waiting \cup {g} /\ UNCHANGED halted
       ELSE halted' = TRUE /\ UNCHANGED <<told, waiting>>
  /\ UNCHANGED <<hash, done, telling, token, apfPending, apfIrq, enabled, apfReady, apfKicked>>

-----------------------------------------------------------------------------
(* workers *)

(* async_pf_execute: the page is in and its work is on the list *)
WorkDone(g) ==
  /\ g \in working
  /\ working' = working \ {g} /\ done' = Append(done, g)
  /\ telling' = IF done = <<>> THEN telling + 1 ELSE telling
  /\ UNCHANGED <<table, queued, told, token, apfPending, apfIrq, enabled, apfReady, halted, where, apfKicked,
                 waiting, left>>

KickIf(p) == apfKicked \/ (~p /\ where # "host")
kvm_arch_async_page_present_queued ==
  /\ telling > 0
  /\ telling' = telling - 1 /\ apfReady' = TRUE /\ apfKicked' = KickIf(apfPending)
  /\ UNCHANGED <<table, working, done, queued, told, token, apfPending, apfIrq, enabled, halted, where,
                 waiting, left>>

-----------------------------------------------------------------------------
(* finished work is handed to the guest *)

apf_pageready_slot_free == token = None
kvm_arch_can_dequeue_async_page_present == enabled => apf_pageready_slot_free

(* kvm_arch_async_page_present for the first of the list; with delivery, the token is *)
(* taken so that the loop of kvm_check_async_pf_completion ends                        *)
Tokens(w) == IF w = All \/ w \in told THEN enabled ELSE FALSE
Dequeued == queued - 1
PresentHalted == FALSE
kvm_arch_async_page_present ==
  LET w == Head(done) IN
  /\ done' = Tail(done) /\ queued' = Dequeued
  /\ gfns' = IF w = All THEN gfns ELSE kvm_del_async_pf_gfn(gfns, w)
  /\ told' = told \ {w}
  /\ IF Tokens(w) THEN token' = w /\ apfPending' = TRUE /\ apfIrq' = TRUE
                  ELSE UNCHANGED <<token, apfPending, apfIrq>>
  /\ halted' = PresentHalted

CanHandOver == done # <<>> /\ kvm_arch_can_dequeue_async_page_present

(* KVM_REQ_APF_READY on the way into the guest, one page of the loop *)
AnswerReady ==
  /\ where = "host" /\ apfReady
  /\ IF CanHandOver THEN kvm_arch_async_page_present /\ UNCHANGED apfReady
     ELSE apfReady' = FALSE /\ UNCHANGED <<done, queued, gfns, told, token, apfPending, apfIrq, halted>>
  /\ UNCHANGED <<hash, working, telling, enabled, where, apfKicked, waiting, left>>

(* the guest exits: kicked, or for any other reason *)
ApfExitGuest ==
  /\ where = "guest" /\ apfKicked
  /\ where' = "host"
  /\ UNCHANGED <<table, working, done, queued, told, telling, token, apfPending, apfIrq, enabled, apfReady,
                 halted, apfKicked, waiting, left>>

(* vcpu_run: halted until finished work or an interrupt wakes it, else into the guest *)
WakesHalted == done # <<>> \/ apfIrq
ApfEnterGuest ==
  /\ where = "host" /\ ~apfReady
  /\ halted => WakesHalted
  /\ halted' = FALSE /\ where' = "guest" /\ apfKicked' = FALSE
  /\ UNCHANGED <<table, working, done, queued, told, telling, token, apfPending, apfIrq, enabled, apfReady,
                 waiting, left>>

(* the guest's handler: it takes the token and wakes who sleeps on it *)
TakeToken ==
  /\ where = "guest" /\ apfIrq
  /\ apfIrq' = FALSE /\ token' = None /\ where' = "handler"
  /\ waiting' = IF token = All THEN {} ELSE waiting \ {token}
  /\ UNCHANGED <<table, working, done, queued, told, telling, apfPending, enabled, apfReady, halted,
                 apfKicked, left>>

(* MSR_KVM_ASYNC_PF_ACK: then the list is looked at again (kvm_check_async_pf_completion) *)
AckReady == apfReady \/ done # <<>>
Ack ==
  /\ where = "handler"
  /\ apfPending' = FALSE /\ apfReady' = AckReady /\ where' = "host"
  /\ UNCHANGED <<table, working, done, queued, told, telling, token, apfIrq, enabled, halted, apfKicked,
                 waiting, left>>

-----------------------------------------------------------------------------
(* kvm_pv_enable_async_pf: switched off, everything under way is forgotten and the *)
(* guest wakes its tasks itself; switched on, everyone is woken once               *)
DisableTable == [k \in Slots |-> None]
Disable ==
  /\ where = "guest" /\ ~apfIrq /\ enabled /\ left.toggles > 0
  /\ left' = [left EXCEPT !.toggles = @ - 1]
  /\ enabled' = FALSE /\ working' = {} /\ done' = <<>> /\ queued' = 0 /\ told' = {}
  /\ gfns' = DisableTable
  /\ waiting' = {}
  /\ UNCHANGED <<hash, telling, token, apfPending, apfIrq, apfReady, halted, where, apfKicked>>

Enable ==
  /\ where = "guest" /\ ~enabled /\ left.toggles > 0
  /\ left' = [left EXCEPT !.toggles = @ - 1]
  /\ enabled' = TRUE
  /\ IF done = <<>> THEN done' = <<All>> /\ queued' = queued + 1 /\ apfReady' = TRUE
                    ELSE UNCHANGED <<done, queued, apfReady>>
  /\ where' = "host"
  /\ UNCHANGED <<table, working, told, telling, token, apfPending, apfIrq, halted, apfKicked, waiting>>

-----------------------------------------------------------------------------
ApfNext ==
  \/ \E g \in Gfns : FaultAgain(g) \/ kvm_arch_async_page_not_present(g) \/ WorkDone(g)
  \/ kvm_arch_async_page_present_queued
  \/ AnswerReady \/ ApfExitGuest \/ ApfEnterGuest \/ TakeToken \/ Ack
  \/ Disable \/ Enable

(* workers end, the virtual CPU's thread goes on, the guest takes its interrupts *)
ApfFairness ==
  /\ \A g \in Gfns : WF_apfVars(WorkDone(g))
  /\ WF_apfVars(kvm_arch_async_page_present_queued)
  /\ WF_apfVars(AnswerReady \/ ApfExitGuest \/ ApfEnterGuest) /\ WF_apfVars(TakeToken) /\ WF_apfVars(Ack)

ApfSpec == ApfInit /\ [][ApfNext]_apfVars /\ ApfFairness

-----------------------------------------------------------------------------
ApfPages(s) == {s[i] : i \in 1..Len(s)} \ {All}

(* The state has its types, and the count that keeps the table from filling up is exact. *)
ApfTypeOK ==
  /\ gfns \in [Slots -> Gfns \cup {None}] /\ working \subseteq Gfns /\ told \subseteq Gfns
  /\ ApfPages(done) \subseteq Gfns /\ queued = Cardinality(working) + Len(done) /\ token \in Gfns \cup {None, All}
  /\ where \in {"guest", "host", "handler"} /\ waiting \subseteq Gfns

(* Whatever the hash function, the table finds exactly the pages that are under way: *)
(* no deletion hides an entry behind the emptied slot or leaves one twice.           *)
TableExact ==
  \A g \in Gfns : kvm_find_async_pf_gfn(gfns, g) <=> g \in working \cup ApfPages(done)

(* A task that sleeps on a page is known to the host: the page is under way, or its *)
(* token is in the guest's memory.                                                   *)
SleepersKnown ==
  \A g \in waiting : (g \in told /\ g \in working \cup ApfPages(done)) \/ token \in {g, All}

(* No token is written over another one the guest has not taken. *)
TokensNotOverwritten == [][token # None => token' \in {token, None}]_apfVars

(* Every task that sleeps on a page is woken, however the workers, the guest's handler and *)
(* its acknowledgements interleave: a worker that finds pageready_pending set does not kick. *)
SleepersWoken == \A g \in Gfns : g \in waiting ~> g \notin waiting

-----------------------------------------------------------------------------
(***************************************************************************)
(* Machine checks of one VCPU (kvm/x86.c): user space sets the banks up    *)
(* and injects errors (KVM_X86_SETUP_MCE, KVM_X86_SET_MCE), corrected ones *)
(* and uncorrected ones, between any two instructions of a guest whose     *)
(* handler reads a bank register by register and then clears it.           *)
(*                                                                         *)
(* An error is a number; a bank's status, address and misc registers hold  *)
(* the number of the error they describe. A control register is all ones   *)
(* or it is not.                                                           *)
(***************************************************************************)

CONSTANTS
  KVM_MAX_MCE_BANKS,
  MaxErrors                \* bound: errors user space injects

ASSUME MceAssumption == KVM_MAX_MCE_BANKS \in Nat \ {0} /\ MaxErrors \in Nat

Bank == 0..(KVM_MAX_MCE_BANKS - 1)
NoStatus == [val |-> FALSE, uc |-> FALSE, over |-> FALSE, err |-> 0]

VARIABLES
  bank_num, ctl_p,         \* mcg_cap: number of banks, MCG_CTL_P
  mcg_ctl, mcip,           \* MCG_CTL is all ones; MCG_STATUS_MCIP
  ctl, status, addr, misc, \* mce_banks
  cr4_mce,
  mc,                      \* #MC is queued
  triple,                  \* KVM_REQ_TRIPLE_FAULT
  handler,                 \* the guest's handler: [bank, err, addr, step]
  injected,
  mceSince                    \* errors recorded in a bank since the guest cleared it

banks == <<ctl, status, addr, misc>>
mceVars == <<bank_num, ctl_p, mcg_ctl, mcip, ctl, status, addr, misc, cr4_mce, mc, triple, handler, injected, mceSince>>

Idle == [step |-> "idle", bank |-> 0, err |-> 0, addr |-> 0, misc |-> 0]

(* kvm_arch_vcpu_create: all banks exist and none reports *)
MceInit ==
  /\ bank_num = KVM_MAX_MCE_BANKS /\ ctl_p = FALSE /\ mcg_ctl = FALSE /\ mcip = FALSE
  /\ ctl = [b \in Bank |-> FALSE] /\ status = [b \in Bank |-> NoStatus]
  /\ addr = [b \in Bank |-> 0] /\ misc = [b \in Bank |-> 0]
  /\ cr4_mce = FALSE /\ mc = FALSE /\ triple = FALSE /\ handler = Idle
  /\ injected = 0 /\ mceSince = [b \in Bank |-> {}]

-----------------------------------------------------------------------------
(* KVM_X86_SETUP_MCE, which user space calls before the guest runs *)
kvm_vcpu_ioctl_x86_setup_mce(n, p) ==
  /\ n \in 1..KVM_MAX_MCE_BANKS /\ injected = 0 /\ ~cr4_mce
  /\ bank_num' = n /\ ctl_p' = p
  /\ mcg_ctl' = (mcg_ctl \/ p)
  /\ ctl' = [b \in Bank |-> ctl[b] \/ b < n]
  /\ UNCHANGED <<mcip, status, addr, misc, cr4_mce, mc, triple, handler, injected, mceSince>>

(* the bank takes the error e over *)
Record(b, e, uc) ==
  /\ status' = [status EXCEPT ![b] = [val |-> TRUE, uc |-> uc, over |-> @.val, err |-> e]]
  /\ addr' = [addr EXCEPT ![b] = e] /\ misc' = [misc EXCEPT ![b] = e]

Reporting(b) == (ctl_p => mcg_ctl) /\ ctl[b]

Ignore == UNCHANGED <<mcip, status, addr, misc, mc, triple, mceSince>>
Uncorrected(b, e) ==
  CASE ~Reporting(b) -> Ignore
    [] Reporting(b) /\ (mcip \/ ~cr4_mce) -> triple' = TRUE /\ UNCHANGED <<mcip, status, addr, misc, mc, mceSince>>
    [] OTHER ->
         /\ Record(b, e, TRUE) /\ mcip' = TRUE /\ mc' = TRUE
         /\ mceSince' = [mceSince EXCEPT ![b] = @ \cup {e}] /\ UNCHANGED triple
Corrected(b, e) ==
  /\ IF ~status[b].val \/ ~status[b].uc THEN Record(b, e, FALSE)
     ELSE status' = [status EXCEPT ![b].over = TRUE] /\ UNCHANGED <<addr, misc>>
  /\ mceSince' = [mceSince EXCEPT ![b] = @ \cup {e}] /\ UNCHANGED <<mcip, mc, triple>>

(* KVM_X86_SET_MCE; user space reports an uncorrected error as in progress (MCIP) *)
kvm_vcpu_ioctl_x86_set_mce(b, uc) ==
  /\ b < bank_num /\ injected < MaxErrors /\ ~triple
  /\ injected' = injected + 1
  /\ IF uc THEN Uncorrected(b, injected') ELSE Corrected(b, injected')
  /\ UNCHANGED <<bank_num, ctl_p, mcg_ctl, ctl, cr4_mce, handler>>

(* the pending request leaves for user space, which resets the VCPU and the machine checks *)
Shutdown ==
  /\ triple /\ triple' = FALSE /\ cr4_mce' = FALSE /\ mc' = FALSE /\ mcip' = FALSE /\ handler' = Idle
  /\ status' = [b \in Bank |-> NoStatus] /\ mceSince' = [b \in Bank |-> {}]
  /\ UNCHANGED <<bank_num, ctl_p, mcg_ctl, ctl, addr, misc, injected>>

-----------------------------------------------------------------------------
(* The guest. It sets CR4.MCE and the controls while no error is handled.  *)
Quiet == ~triple /\ ~mc /\ handler.step = "idle"
SetCr4 == Quiet /\ cr4_mce' = TRUE /\ UNCHANGED <<bank_num, ctl_p, mcg_ctl, mcip, banks, mc, triple, handler, injected, mceSince>>
(* set_msr_mce: MCG_CTL exists only with MCG_CTL_P *)
SetMcgCtl(v) ==
  /\ Quiet /\ ctl_p /\ mcg_ctl' = v
  /\ UNCHANGED <<bank_num, ctl_p, mcip, banks, cr4_mce, mc, triple, handler, injected, mceSince>>
SetMciCtl(b, v) ==
  /\ Quiet /\ b < bank_num /\ ctl' = [ctl EXCEPT ![b] = v]
  /\ UNCHANGED <<bank_num, ctl_p, mcg_ctl, mcip, status, addr, misc, cr4_mce, mc, triple, handler, injected, mceSince>>

(* #MC is delivered *)
MceDeliver ==
  /\ mc /\ ~triple /\ mc' = FALSE /\ handler' = [Idle EXCEPT !.step = "status"]
  /\ UNCHANGED <<bank_num, ctl_p, mcg_ctl, mcip, banks, cr4_mce, triple, injected, mceSince>>

Handler(step) == ~triple /\ ~mc /\ handler.step = step
HandlerSame == UNCHANGED <<bank_num, ctl_p, mcg_ctl, ctl, addr, misc, cr4_mce, mc, triple, injected>>
AfterBank(h) == IF h.bank + 1 < bank_num THEN [Idle EXCEPT !.step = "status", !.bank = h.bank + 1]
                ELSE [Idle EXCEPT !.step = "done"]
(* get_msr_mce, one register of a bank at a time *)
ReadStatus ==
  /\ Handler("status")
  /\ handler' = IF status[handler.bank].val THEN [handler EXCEPT !.step = "addr", !.err = status[handler.bank].err]
                ELSE AfterBank(handler)
  /\ HandlerSame /\ UNCHANGED <<mcip, status, mceSince>>
ReadAddr ==
  /\ Handler("addr") /\ handler' = [handler EXCEPT !.step = "misc", !.addr = addr[handler.bank]]
  /\ HandlerSame /\ UNCHANGED <<mcip, status, mceSince>>
ReadMisc ==
  /\ Handler("misc") /\ handler' = [handler EXCEPT !.step = "clear", !.misc = misc[handler.bank]]
  /\ HandlerSame /\ UNCHANGED <<mcip, status, mceSince>>
ClearStatus ==
  /\ Handler("clear") /\ handler' = AfterBank(handler)
  /\ status' = [status EXCEPT ![handler.bank] = NoStatus]
  /\ mceSince' = [mceSince EXCEPT ![handler.bank] = {}]
  /\ HandlerSame /\ UNCHANGED mcip
ClearMcip ==
  /\ Handler("done") /\ handler' = Idle /\ mcip' = FALSE /\ HandlerSame /\ UNCHANGED <<status, mceSince>>
(* the guest polls a bank without an uncorrected error *)
Poll(b) ==
  /\ Quiet /\ b < bank_num /\ status[b].val /\ ~status[b].uc
  /\ status' = [status EXCEPT ![b] = NoStatus] /\ mceSince' = [mceSince EXCEPT ![b] = {}]
  /\ HandlerSame /\ UNCHANGED <<mcip, handler>>

MceUser ==
  \/ \E n \in 1..KVM_MAX_MCE_BANKS, p \in BOOLEAN : kvm_vcpu_ioctl_x86_setup_mce(n, p)
  \/ \E b \in Bank, uc \in BOOLEAN : kvm_vcpu_ioctl_x86_set_mce(b, uc)
  \/ Shutdown
MceGuest ==
  \/ SetCr4 \/ (\E v \in BOOLEAN : SetMcgCtl(v)) \/ (\E b \in Bank, v \in BOOLEAN : SetMciCtl(b, v))
  \/ MceDeliver \/ ReadStatus \/ ReadAddr \/ ReadMisc \/ ClearStatus \/ ClearMcip
  \/ (\E b \in Bank : Poll(b))
MceNext == MceUser \/ MceGuest

MceFairness ==
  /\ WF_mceVars(MceDeliver) /\ WF_mceVars(ReadStatus) /\ WF_mceVars(ReadAddr) /\ WF_mceVars(ReadMisc)
  /\ WF_mceVars(ClearStatus) /\ WF_mceVars(ClearMcip) /\ WF_mceVars(Shutdown)
MceSpec == MceInit /\ [][MceNext]_mceVars /\ MceFairness

-----------------------------------------------------------------------------
(* The registers of a valid bank describe one error: kvm_vcpu_ioctl_x86_set_mce writes status, *)
(* address and misc of a bank together or only marks the overflow. *)
RecordIsOneError == \A b \in Bank : status[b].val => addr[b] = status[b].err /\ misc[b] = status[b].err

(* What the handler read of a bank with an uncorrected error is that error, whatever user space *)
(* injected between the reads: an uncorrected error that arrives while MCIP is set shuts down, a *)
(* corrected one leaves the registers alone. *)
HandlerReadsOneError ==
  LET h == handler
  IN  h.step \in {"addr", "misc", "clear"} /\ status[h.bank].uc
      => /\ status[h.bank].err = h.err
         /\ h.step \in {"misc", "clear"} => h.addr = h.err
         /\ h.step = "clear" => h.misc = h.err

(* A bank that received two errors since the guest cleared it says so (MCI_STATUS_OVER). *)
LossIsFlagged == \A b \in Bank : Cardinality(mceSince[b]) > 1 => status[b].val /\ status[b].over

(* An uncorrected error in a bank is one the guest has been told of and has not finished with. *)
UncorrectedIsInProgress == \A b \in Bank : status[b].uc => mcip /\ (mc \/ triple \/ handler.step # "idle")

(* An uncorrected error leaves its bank because the guest cleared it or after a shutdown, never for *)
(* another error. *)
UncorrectedStays == [][\A b \in Bank : status[b].uc => status'[b].err \in {status[b].err, 0}]_mceVars

-----------------------------------------------------------------------------
(***************************************************************************)
(* System management mode (kvm/x86.c): a system-management interrupt saves *)
(* the registers of the VCPU into a page of the guest at fixed offsets,    *)
(* sets up the state of the handler, and RSM restores what was saved. An   *)
(* interrupt that comes meanwhile is kept, and NMIs are masked.            *)
(*                                                                         *)
(* A register's value is the number of the context it belongs to: 1 and    *)
(* more are contexts of the operating system, 0 is the state the entry     *)
(* sets up and 9 what the handler computes.                                *)
(***************************************************************************)

CONSTANTS
  Contexts,      \* contexts of the operating system
  Bases,         \* where the handler moves SMBASE to
  Backed         \* those with memory behind them

ASSUME SmmAssumption == Contexts \subseteq Nat \ {0, 9} /\ Backed \subseteq Bases /\ Backed # {}

-----------------------------------------------------------------------------
(* The save area: <<field, offset, bytes>> in the order of the stores. *)
Area == 32256 .. 32767          \* 0x7e00 .. 0x7fff
Seg32At(n) == IF n < 3 THEN 32644 + n * 12 ELSE 32556 + (n - 3) * 12
enter_smm_save_seg_32(n) ==
  << <<"selector", n, 32680 + n * 4, 4>>, <<"base", n, Seg32At(n) + 8, 4>>,
     <<"limit", n, Seg32At(n) + 4, 4>>, <<"flags", n, Seg32At(n), 4>> >>
enter_smm_save_state_32 ==
  << <<"cr0", 0, 32764, 4>>, <<"cr3", 0, 32760, 4>>, <<"rflags", 0, 32756, 4>>, <<"rip", 0, 32752, 4>> >>
  \o [i \in 1 .. 8 |-> <<"gpr", i - 1, 32720 + (i - 1) * 4, 4>>]
  \o << <<"dr6", 0, 32716, 4>>, <<"dr7", 0, 32712, 4>>,
        <<"tr", 0, 32708, 4>>, <<"tr", 1, 32612, 4>>, <<"tr", 2, 32608, 4>>, <<"tr", 3, 32604, 4>>,
        <<"ldtr", 0, 32704, 4>>, <<"ldtr", 1, 32640, 4>>, <<"ldtr", 2, 32636, 4>>, <<"ldtr", 3, 32632, 4>>,
        <<"gdt", 0, 32628, 4>>, <<"gdt", 1, 32624, 4>>, <<"idt", 0, 32600, 4>>, <<"idt", 1, 32596, 4>> >>
  \o enter_smm_save_seg_32(0) \o enter_smm_save_seg_32(1) \o enter_smm_save_seg_32(2)
  \o enter_smm_save_seg_32(3) \o enter_smm_save_seg_32(4) \o enter_smm_save_seg_32(5)
  \o << <<"cr4", 0, 32532, 4>>, <<"revision", 0, 32508, 4>>, <<"smbase", 0, 32504, 4>> >>
seg_64_closer(n) ==
  LET at == 32256 + n * 8
  IN  << <<"selector", n, at, 2>>, <<"flags", n, at + 2, 2>>, <<"limit", n, at + 4, 4>>, <<"base", n, at + 8, 8>> >>
enter_smm_save_seg_64(n) ==
  LET at == 32256 + n * 16
  IN  << <<"selector", n, at, 2>>, <<"flags", n, at + 2, 2>>, <<"limit", n, at + 4, 4>>, <<"base", n, at + 8, 8>> >>
enter_smm_save_state_64 ==
  [i \in 1 .. 16 |-> <<"gpr", i - 1, 32760 - (i - 1) * 8, 8>>]
  \o << <<"rip", 0, 32632, 8>>, <<"rflags", 0, 32624, 4>>, <<"dr6", 0, 32616, 8>>, <<"dr7", 0, 32608, 8>>,
        <<"cr0", 0, 32600, 8>>, <<"cr3", 0, 32592, 8>>, <<"cr4", 0, 32584, 8>>, <<"smbase", 0, 32512, 4>>,
        <<"revision", 0, 32508, 4>>, <<"efer", 0, 32464, 8>>,
        <<"tr", 0, 32400, 2>>, <<"tr", 3, 32402, 2>>, <<"tr", 2, 32404, 4>>, <<"tr", 1, 32408, 8>>,
        <<"idt", 1, 32388, 4>>, <<"idt", 0, 32392, 8>>,
        <<"ldtr", 0, 32368, 2>>, <<"ldtr", 3, 32370, 2>>, <<"ldtr", 2, 32372, 4>>, <<"ldtr", 1, 32376, 8>>,
        <<"gdt", 1, 32356, 4>>, <<"gdt", 0, 32360, 8>> >>
  \o enter_smm_save_seg_64(0) \o enter_smm_save_seg_64(1) \o enter_smm_save_seg_64(2)
  \o enter_smm_save_seg_64(3) \o enter_smm_save_seg_64(4) \o enter_smm_save_seg_64(5)

Stores == [l \in BOOLEAN |-> IF l THEN enter_smm_save_state_64 ELSE enter_smm_save_state_32]
FieldsOf == [l \in BOOLEAN |-> {<<Stores[l][k][1], Stores[l][k][2]>> : k \in 1 .. Len(Stores[l])}]
Bytes(s) == s[3] .. s[3] + s[4] - 1
(* A field can be read back when it lies in the area and no later store hits it *)
ReadBackOf == [l \in BOOLEAN |->
  LET s == Stores[l] IN
  {<<s[k][1], s[k][2]>> : k \in {k \in 1 .. Len(s) :
     Bytes(s[k]) \subseteq Area /\ \A j \in k + 1 .. Len(s) : Bytes(s[j]) \cap Bytes(s[k]) = {}}}]

(* Registers the entry sets: the others keep their values *)
SetOnEntry(f) ==
  f[1] \in {"rflags", "rip", "cr0", "cr4", "idt", "dr7", "efer", "selector", "base", "limit", "flags"}

-----------------------------------------------------------------------------
VARIABLES
  lm,            \* the guest's processor has long mode
  smmRegs,          \* context every register belongs to
  context,       \* the context the operating system is in
  smram,         \* base -> the saved registers
  smbase, next_base,  \* SMBASE, and the one the handler puts into the save area
  hflags,        \* subset of {"SMM", "INSIDE_NMI"}
  nmi_mask,
  mask_before,   \* nmi_mask when the interrupt came
  smi_pending, smi_req, req_event_smm,   \* and KVM_REQ_SMI, KVM_REQ_EVENT
  dead           \* RSM could not read the save area

smmVars == <<lm, smmRegs, context, smram, smbase, next_base, hflags, nmi_mask, mask_before, smi_pending, smi_req,
          req_event_smm, dead>>

Fields   == FieldsOf[lm]
ReadBack == ReadBackOf[lm]

SmmInit ==
  /\ lm \in BOOLEAN
  /\ context \in Contexts /\ smmRegs = [f \in Fields |-> context]
  /\ smbase \in Backed /\ next_base = smbase /\ smram = [b \in Backed |-> [f \in Fields |-> 0]]
  /\ hflags = {} /\ nmi_mask = FALSE /\ mask_before = FALSE
  /\ smi_pending = FALSE /\ smi_req = FALSE /\ req_event_smm = FALSE /\ dead = FALSE
smm == "SMM" \in hflags

(* KVM_SMI, or an interrupt another VCPU sends *)
Smi ==
  /\ ~dead /\ smi_req' = TRUE
  /\ UNCHANGED <<lm, smmRegs, context, smram, smbase, next_base, hflags, nmi_mask, mask_before, smi_pending, req_event_smm, dead>>
process_smi_smm ==
  /\ ~dead /\ smi_req /\ smi_req' = FALSE /\ smi_pending' = TRUE /\ req_event_smm' = TRUE
  /\ UNCHANGED <<lm, smmRegs, context, smram, smbase, next_base, hflags, nmi_mask, mask_before, dead>>

(* The operating system and the handler run; NMIs come and end outside SMM *)
SmmGuestRuns ==
  /\ ~dead /\ UNCHANGED <<lm, smram, smbase, mask_before, hflags, smi_pending, smi_req, req_event_smm, dead>>
  /\ \/ /\ ~smm /\ \E c \in Contexts : context' = c /\ smmRegs' = [f \in Fields |-> c]
        /\ nmi_mask' \in BOOLEAN /\ UNCHANGED next_base
     \/ /\ smm /\ smmRegs' = [f \in Fields |-> 9] /\ next_base' \in Bases /\ UNCHANGED <<context, nmi_mask>>

(* kvm_smm_changed *)
kvm_smm_changed_smm(entering) ==
  IF entering THEN hflags' = hflags \cup {"SMM"} \cup (IF nmi_mask THEN {"INSIDE_NMI"} ELSE {})
  ELSE hflags' = {} /\ req_event_smm' = TRUE
(* inject_pending_event, enter_smm: a failed write of the save area is not noticed *)
Inject ==
  /\ ~dead /\ req_event_smm /\ req_event_smm' = FALSE
  /\ IF smi_pending /\ ~smm
     THEN /\ smi_pending' = FALSE
          /\ smram' = IF smbase \in Backed THEN [smram EXCEPT ![smbase] = smmRegs] ELSE smram
          /\ kvm_smm_changed_smm(TRUE) /\ mask_before' = nmi_mask /\ nmi_mask' = TRUE
          /\ smmRegs' = [f \in Fields |-> IF SetOnEntry(f) THEN 0 ELSE smmRegs[f]]
          /\ next_base' = smbase
     ELSE UNCHANGED <<smi_pending, smram, hflags, mask_before, nmi_mask, smmRegs, next_base>>
  /\ UNCHANGED <<lm, context, smbase, smi_req, dead>>

(* RSM of the emulator *)
KeepMask == nmi_mask' = FALSE
NmiAfter == nmi_mask' = ("INSIDE_NMI" \in hflags)
SmmRsm ==
  /\ ~dead /\ smm
  /\ IF smbase \in Backed
     THEN /\ smmRegs' = [f \in Fields |-> IF f \in ReadBack THEN smram[smbase][f] ELSE 0]
          /\ smbase' = next_base /\ kvm_smm_changed_smm(FALSE) /\ NmiAfter /\ UNCHANGED dead
     ELSE dead' = TRUE /\ UNCHANGED <<smmRegs, smbase, hflags, nmi_mask, req_event_smm>>
  /\ UNCHANGED <<lm, context, smram, next_base, mask_before, smi_pending, smi_req>>

SmmNext == Smi \/ process_smi_smm \/ SmmGuestRuns \/ Inject \/ SmmRsm
SmmSpec == SmmInit /\ [][SmmNext]_smmVars /\ WF_smmVars(process_smi_smm) /\ WF_smmVars(Inject) /\ WF_smmVars(SmmRsm)
-----------------------------------------------------------------------------
(* Properties *)

\* Every register the operating system had when it was interrupted is back
\* after RSM: no store of the save area overwrites another or falls out of it,
\* the registers the entry changes are saved first, and an interrupt inside
\* the handler does not save over it.
RsmRestores == ~smm /\ ~dead => \A f \in Fields : smmRegs[f] = context

\* Until RSM the save area holds the interrupted context.
SavedContext == smm /\ smbase \in Backed => \A f \in Fields : smram[smbase][f] = context

\* RSM leaves NMIs masked exactly when they were masked before the interrupt.
MaskRestored == [][smm /\ ~smm' => nmi_mask' = mask_before]_smmVars

\* An interrupt that comes while the handler runs is taken after RSM.
SmiIsTaken == smi_pending ~> (~smi_pending \/ dead)

-----------------------------------------------------------------------------
(***************************************************************************)
(* One VCPU (kvm/x86.c) that is debugged from two sides: the guest has     *)
(* debug registers and a trace flag, and user space (KVM_SET_GUEST_DEBUG)  *)
(* puts breakpoints of its own over the guest's and steps by raising the   *)
(* same trace flag. Instructions run on the processor or are emulated, and *)
(* an emulated one may wait for user space to do its I/O.                  *)
(*                                                                         *)
(* DR7 is the set of breakpoints that are enabled and those of them that   *)
(* stop execution rather than watch data.                                  *)
(***************************************************************************)

CONSTANTS
  Addr,          \* addresses of instructions
  DbRegs,        \* DR0 to DR3
  Dr7s           \* values of DR7: [on, exec]

ASSUME DebugAssumption == \A d \in Dr7s : d.on \subseteq DbRegs /\ d.exec \subseteq d.on

Off == [on |-> {}, exec |-> {}]
Nothing == [insn |-> "no", armed |-> FALSE, at |-> 0, exit |-> "no", rf |-> FALSE]

VARIABLES
  db, dr7,               \* the guest's registers
  eff_db, hw_dr7,        \* what the processor is loaded with
  bp_enabled,            \* KVM_DEBUGREG_BP_ENABLED
  guest_debug,           \* subset of {"step", "hw_bp"}
  dbg_db, guest_debug_dr7,  \* what user space asked for
  singlestep_rip,
  rip, tf, rf,           \* the raw registers
  gtf,                   \* the trace flag as the guest last set it
  debugPending,               \* exception queued: "no", "DB" (#DB or #BP)
  ctxt,                  \* emulation that waits for user space
  armed,                 \* stepping was asked for since the last instruction
  last                   \* the instruction that has just run

debugVars == <<db, dr7, eff_db, hw_dr7, bp_enabled, guest_debug, dbg_db, guest_debug_dr7, singlestep_rip,
          rip, tf, rf, gtf, debugPending, ctxt, armed, last>>
dregs == <<db, dr7, eff_db, hw_dr7, bp_enabled, guest_debug, dbg_db, guest_debug_dr7, singlestep_rip>>

NoCtxt == [wait |-> FALSE, tf |-> FALSE]
DebugInit ==
  /\ db = [i \in DbRegs |-> 0] /\ eff_db = db /\ dbg_db = db
  /\ dr7 = Off /\ hw_dr7 = Off /\ guest_debug_dr7 = Off /\ bp_enabled = FALSE
  /\ guest_debug = {} /\ singlestep_rip = 0 /\ rip = 0 /\ tf = FALSE /\ rf = FALSE /\ gtf = FALSE
  /\ debugPending = "no" /\ ctxt = NoCtxt /\ armed = FALSE /\ last = Nothing

-----------------------------------------------------------------------------
(* kvm_update_dr7 with the debugging that holds after the step *)
kvm_update_dr7(gd, g, d) ==
  LET v == IF "hw_bp" \in gd THEN d ELSE g IN hw_dr7' = v /\ bp_enabled' = (v.on # {})
(* kvm_get_rflags: the trace flag of the stepping is hidden *)
kvm_get_rflags(gd) == tf /\ "step" \notin gd
(* __kvm_set_rflags *)
__kvm_set_rflags(t, gd, at, step_rip) == tf' = (t \/ ("step" \in gd /\ at = step_rip))
(* kvm_vcpu_do_singlestep: user space is told, or the guest gets #DB *)
kvm_vcpu_do_singlestep == IF "step" \in guest_debug THEN "debug" ELSE "trap"
kvm_vcpu_check_hw_bp(at, d, regs) == \E i \in d.exec : regs[i] = at
(* kvm_vcpu_check_breakpoint: before an instruction is emulated *)
kvm_vcpu_check_breakpoint ==
  IF "hw_bp" \in guest_debug /\ guest_debug_dr7.on # {} /\ kvm_vcpu_check_hw_bp(rip, guest_debug_dr7, eff_db)
  THEN "debug"
  ELSE IF dr7.on # {} /\ ~rf /\ kvm_vcpu_check_hw_bp(rip, dr7, db) THEN "trap" ELSE "no"

-----------------------------------------------------------------------------
(* KVM_SET_GUEST_DEBUG *)
Breakpoints(gd, regs, d7) ==
  /\ IF "hw_bp" \in gd THEN eff_db' = regs /\ dbg_db' = regs /\ guest_debug_dr7' = d7
     ELSE eff_db' = db /\ UNCHANGED <<dbg_db, guest_debug_dr7>>
StepFlags(gd) ==
  LET at == IF "step" \in gd THEN rip ELSE singlestep_rip
  IN  singlestep_rip' = at /\ __kvm_set_rflags(kvm_get_rflags(guest_debug), gd, rip, at)
kvm_arch_vcpu_ioctl_set_guest_debug ==
  /\ \E gd \in SUBSET {"step", "hw_bp"}, inject \in {"no", "DB"} :
     \E regs \in IF "hw_bp" \in gd THEN [DbRegs -> Addr] ELSE {dbg_db},
        d7 \in IF "hw_bp" \in gd THEN Dr7s ELSE {guest_debug_dr7} :
       /\ inject = "no" \/ debugPending = "no"
       /\ debugPending' = IF inject = "no" THEN debugPending ELSE inject
       /\ guest_debug' = gd
       /\ Breakpoints(gd, regs, d7)
       /\ kvm_update_dr7(gd, dr7, IF "hw_bp" \in gd THEN d7 ELSE guest_debug_dr7)
       /\ StepFlags(gd)
       /\ armed' = ("step" \in gd)
  /\ last' = Nothing
  /\ UNCHANGED <<db, dr7, rip, rf, gtf, ctxt>>

(* KVM_SET_REGS; it drops an exception that is pending *)
__set_regs_debug ==
  /\ ~ctxt.wait
  /\ \E at \in Addr, t \in BOOLEAN :
       rip' = at /\ gtf' = t /\ __kvm_set_rflags(t, guest_debug, at, singlestep_rip)
  /\ debugPending' = "no" /\ rf' \in BOOLEAN /\ armed' = FALSE /\ last' = Nothing
  /\ UNCHANGED <<dregs, ctxt>>

-----------------------------------------------------------------------------
(* kvm_set_dr: the guest moves to a debug register *)
EffStays(i, a) == IF "hw_bp" \in guest_debug THEN eff_db ELSE [eff_db EXCEPT ![i] = a]
kvm_set_dr ==
  /\ ~ctxt.wait /\ debugPending = "no"
  /\ \/ \E i \in DbRegs, a \in Addr :
          /\ db' = [db EXCEPT ![i] = a] /\ eff_db' = EffStays(i, a)
          /\ UNCHANGED <<dr7, hw_dr7, bp_enabled>>
     \/ \E d \in Dr7s : dr7' = d /\ kvm_update_dr7(guest_debug, d, guest_debug_dr7) /\ UNCHANGED <<db, eff_db>>
  /\ last' = Nothing
  /\ UNCHANGED <<guest_debug, dbg_db, guest_debug_dr7, singlestep_rip, rip, tf, rf, gtf, debugPending, ctxt, armed>>

(* KVM_SET_DEBUGREGS: kvm_update_dr0123, kvm_update_dr7 *)
kvm_vcpu_ioctl_x86_set_debugregs ==
  /\ \E regs \in [DbRegs -> Addr], d \in Dr7s :
       /\ db' = regs /\ eff_db' = (IF "hw_bp" \in guest_debug THEN eff_db ELSE regs)
       /\ dr7' = d /\ kvm_update_dr7(guest_debug, d, guest_debug_dr7)
  /\ last' = Nothing
  /\ UNCHANGED <<guest_debug, dbg_db, guest_debug_dr7, singlestep_rip, rip, tf, rf, gtf, debugPending, ctxt, armed>>

(* The processor runs an instruction, with the registers it was loaded with; *)
(* a #DB goes to user space when that debugs, else to the guest.             *)
Report == IF guest_debug # {} THEN "debug" ELSE "trap"
Ran(kind, exit) ==
  /\ last' = [insn |-> kind, armed |-> armed, at |-> rip, exit |-> exit, rf |-> rf]
  /\ debugPending' = IF exit = "trap" THEN "DB" ELSE "no"
DebugHardware ==
  /\ ~ctxt.wait /\ debugPending = "no"
  /\ \/ /\ ~rf /\ kvm_vcpu_check_hw_bp(rip, hw_dr7, eff_db)
        /\ Ran("no", Report) /\ UNCHANGED <<rip, tf, rf, gtf, armed>>
     \/ /\ rf \/ ~kvm_vcpu_check_hw_bp(rip, hw_dr7, eff_db)
        /\ rip' \in Addr /\ rf' \in BOOLEAN
        /\ \/ UNCHANGED <<tf, gtf>>
           \/ tf' \in BOOLEAN /\ gtf' = tf'
        /\ Ran("hw", IF tf THEN Report ELSE "no") /\ armed' = FALSE
  /\ UNCHANGED <<dregs, ctxt>>
(* An exception is delivered: the processor clears the trace flag *)
DebugDeliver ==
  /\ ~ctxt.wait /\ debugPending # "no" /\ debugPending' = "no"
  /\ rip' \in Addr /\ tf' = FALSE /\ gtf' = FALSE /\ rf' = FALSE /\ armed' = FALSE /\ last' = Nothing
  /\ UNCHANGED <<dregs, ctxt>>

-----------------------------------------------------------------------------
(* kvm_skip_emulated_instruction: an exit handler did the instruction *)
kvm_skip_emulated_instruction ==
  /\ ~ctxt.wait /\ debugPending = "no" /\ rip' \in Addr /\ rf' = FALSE /\ armed' = FALSE
  /\ Ran("skip", IF tf THEN kvm_vcpu_do_singlestep ELSE "no")
  /\ UNCHANGED <<dregs, tf, gtf, ctxt>>

(* init_emulate_ctxt: the flags the emulator starts from, without those of a step *)
init_emulate_ctxt == kvm_get_rflags(guest_debug)
(* The writeback of x86_emulate_instruction. Only an instruction that does not *)
(* go to user space is reported as a step.                                     *)
Writeback(kind, t0) ==
  \E at \in Addr, t \in {t0} \cup BOOLEAN :
    /\ rip' = at /\ rf' = FALSE
    /\ (t = t0 /\ UNCHANGED gtf) \/ gtf' = t
    /\ __kvm_set_rflags(t, guest_debug, at, singlestep_rip)
    /\ Ran(kind, IF kind # "out" /\ (t0 \/ "step" \in guest_debug) THEN kvm_vcpu_do_singlestep ELSE "no")
    /\ armed' = FALSE
Emulate ==
  /\ ~ctxt.wait /\ debugPending = "no"
  /\ IF kvm_vcpu_check_breakpoint # "no"
     THEN Ran("no", kvm_vcpu_check_breakpoint) /\ UNCHANGED <<rip, tf, rf, gtf, ctxt, armed>>
     ELSE \/ Writeback("emul", init_emulate_ctxt) /\ UNCHANGED ctxt
          \/ Writeback("out", init_emulate_ctxt) /\ UNCHANGED ctxt
          \/ /\ ctxt' = [wait |-> TRUE, tf |-> init_emulate_ctxt] /\ last' = Nothing
             /\ UNCHANGED <<rip, tf, rf, gtf, debugPending, armed>>
  /\ UNCHANGED dregs
(* complete_emulated_pio, complete_emulated_mmio: with the flags of the decoding *)
Complete ==
  /\ ctxt.wait /\ ctxt' = NoCtxt /\ Writeback("late", ctxt.tf) /\ UNCHANGED dregs

(* kvm_task_switch; no step is reported *)
kvm_task_switch ==
  /\ ~ctxt.wait /\ debugPending = "no"
  /\ \E at \in Addr, t \in BOOLEAN :
       rip' = at /\ gtf' = t /\ __kvm_set_rflags(t, guest_debug, at, singlestep_rip)
  /\ rf' = FALSE /\ armed' = FALSE /\ last' = Nothing
  /\ UNCHANGED <<dregs, debugPending, ctxt>>

DebugNext ==
  \/ kvm_arch_vcpu_ioctl_set_guest_debug \/ __set_regs_debug \/ kvm_set_dr \/ kvm_vcpu_ioctl_x86_set_debugregs \/ DebugHardware \/ DebugDeliver
  \/ kvm_skip_emulated_instruction \/ Emulate \/ Complete \/ kvm_task_switch

DebugSpec == DebugInit /\ [][DebugNext]_debugVars
-----------------------------------------------------------------------------
(* Properties *)

\* The processor is loaded with the breakpoints of user space while that
\* debugs with them, and with the guest's at any other time, whoever changed
\* which registers in the meantime; KVM knows whether any is enabled.
LoadedRegisters ==
  /\ eff_db = IF "hw_bp" \in guest_debug THEN dbg_db ELSE db
  /\ hw_dr7 = IF "hw_bp" \in guest_debug THEN guest_debug_dr7 ELSE dr7
  /\ bp_enabled = (hw_dr7.on # {})

\* After user space asked for a step, the next instruction, on the processor,
\* skipped or emulated, returns to it. (Emulated output returns for its I/O.)
StepIsReported == last.insn \in {"hw", "skip", "emul", "late"} /\ last.armed => last.exit = "debug"

\* No instruction is emulated at an address where user space has a breakpoint,
\* nor where the guest has one unless it asked to resume.
BreakpointStops ==
  last.insn \in {"emul", "out"} =>
    /\ "hw_bp" \in guest_debug => ~\E i \in guest_debug_dr7.exec : dbg_db[i] = last.at
    /\ ~last.rf => ~\E i \in dr7.exec : db[i] = last.at

\* When user space does not step, a raised trace flag is the guest's own, also
\* when the stepping ends while an emulated instruction waits for its I/O.
TraceFlagIsTheGuests == "step" \notin guest_debug /\ tf => gtf
=============================================================================
