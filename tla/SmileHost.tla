----------------------------- MODULE SmileHost -----------------------------
(***************************************************************************)
(* The host program of the case study (smile-case1/main.c): it takes the   *)
(* access rights of two pages of the enclave away, touches them, calls the *)
(* enclave - which interrupts may leave, through a callback that has the   *)
(* reporter enter the enclave again - and sends what it collected to       *)
(* /dev/jxdev, in the order the device expects.                            *)
(***************************************************************************)
EXTENDS Naturals, Sequences

CONSTANTS
  NSSA,        \* SSA frames of a thread of the enclave (SDK default: 2)
  MaxIntr,     \* bound on the interrupts of enclave code
  HostTouched      \* which byte of a page a C library function may touch first

ASSUME SmileHostAssumption == NSSA \in Nat /\ MaxIntr \in Nat /\ HostTouched \subseteq {"first", "other"}

HostPages == {"data", "code"}
(* the steps of main that change something; test_attestation enters the reporter twice *)
Steps == <<"create", "dry_run", "revoke_data", "revoke_code", "sigaction", "register_aep",
           "memset_data", "copy_data", "copy_code", "addint", "0xaa", "0xbb", "0xdd",
           "thread", "report1", "report2", "0xcc", "destroy">>

VARIABLES
  hostPc,          \* index of the next step of main
  granted,     \* the pages with their access rights
  handler, callback,    \* sigaction was called, register_aep_cb was called
  fault_fired, aep_fired,
  failed,      \* killed by the signal or by a failed ASSERT, or the enclave refused an entry
  cssa,        \* SSA frames in use
  within,      \* the code in the enclave, innermost last: "addint", "report1", "report2"
  outside,     \* in front of the enclave after an interrupt: "none", "aep", "cb", "cb2", "resume"
  intr,
  output,      \* what the last report shows: "none", "idle" or "interrupted" thread
  sent         \* commands the device got

hostVars == <<hostPc, granted, handler, callback, fault_fired, aep_fired, failed, cssa, within, outside,
          intr, output, sent>>
encl == <<aep_fired, cssa, within, outside, intr, output>>

HostInit ==
  /\ hostPc = 1 /\ granted = HostPages /\ handler = FALSE /\ callback = FALSE /\ fault_fired = 0
  /\ aep_fired = 0 /\ failed = FALSE /\ cssa = 0 /\ within = <<>> /\ outside = "none" /\ intr = 0
  /\ output = "none" /\ sent = <<>>

HostAt(s) == hostPc <= Len(Steps) /\ Steps[hostPc] = s /\ ~failed
HostStep == hostPc' = hostPc + 1

-----------------------------------------------------------------------------
(* main: steps without an effect on what is modelled *)
Plain ==
  /\ \E s \in {"create", "dry_run", "thread"} : HostAt(s)
  /\ HostStep
  /\ UNCHANGED <<granted, handler, callback, fault_fired, failed, sent>> /\ UNCHANGED encl

(* attacker_config_page_table *)
Revoke(p) ==
  /\ HostAt(IF p = "data" THEN "revoke_data" ELSE "revoke_code") /\ HostStep
  /\ granted' = granted \ {p}
  /\ UNCHANGED <<handler, callback, fault_fired, failed, sent>> /\ UNCHANGED encl
Sigaction ==
  /\ HostAt("sigaction") /\ HostStep /\ handler' = TRUE
  /\ UNCHANGED <<granted, callback, fault_fired, failed, sent>> /\ UNCHANGED encl
RegisterAep ==
  /\ HostAt("register_aep") /\ HostStep /\ callback' = TRUE
  /\ UNCHANGED <<granted, handler, fault_fired, failed, sent>> /\ UNCHANGED encl

(* fault_handler: rights are given back for the first byte of a page; any other address is *)
(* unknown to it, and the access faults again                                               *)
RestoredBoth(p, byte) == HostPages
Restored(p, byte) == IF byte = "first" THEN granted \cup {p} ELSE granted
MayHandle == handler /\ fault_fired < 5
fault_handler(p, byte) ==
  IF MayHandle
  THEN granted' = Restored(p, byte) /\ fault_fired' = fault_fired + 1 /\ UNCHANGED failed
  ELSE failed' = TRUE /\ UNCHANGED <<granted, fault_fired>>

(* worker: memset(data_page), memcpy(data, data_page), memcpy(code, code_pt) *)
Touch(s, p) ==
  /\ HostAt(s)
  /\ IF p \in granted THEN HostStep /\ UNCHANGED <<granted, fault_fired, failed>>
     ELSE (\E b \in HostTouched : fault_handler(p, b)) /\ UNCHANGED hostPc
  /\ UNCHANGED <<handler, callback, sent>> /\ UNCHANGED encl
worker == Touch("memset_data", "data") \/ Touch("copy_data", "data") \/ Touch("copy_code", "code")

-----------------------------------------------------------------------------
host == <<granted, handler, callback, fault_fired, sent>>
(* EENTER needs a free frame for the next interrupt *)
HostEnter(code, next) ==
  IF cssa < NSSA
  THEN within' = Append(within, code) /\ outside' = next /\ UNCHANGED failed
  ELSE failed' = TRUE /\ UNCHANGED <<within, outside>>
Leave == within' = SubSeq(within, 1, Len(within) - 1)

CallAddint ==
  /\ HostAt("addint") /\ within = <<>> /\ outside = "none" /\ HostEnter("addint", "none")
  /\ UNCHANGED <<hostPc, aep_fired, cssa, intr, output>> /\ UNCHANGED host
(* test_attestation has the reporter copy the SSA frame of the thread out *)
CallReporter ==
  /\ (HostAt("report1") \/ HostAt("report2")) /\ within = <<>> /\ outside = "none" /\ HostEnter(Steps[hostPc], "none")
  /\ UNCHANGED <<hostPc, aep_fired, cssa, intr, output>> /\ UNCHANGED host
Top == within[Len(within)]
InEnclave == within # <<>> /\ outside = "none" /\ Len(within) = cssa + 1 /\ ~failed

(* an interrupt of the enclave: asynchronous exit into the next SSA frame *)
Interrupt ==
  /\ InEnclave /\ intr < MaxIntr /\ intr' = intr + 1 /\ cssa' = cssa + 1 /\ outside' = "aep"
  /\ UNCHANGED <<hostPc, failed, aep_fired, within, output>> /\ UNCHANGED host
(* SGX-Step's exit pointer calls the callback; the reporter's own only resumes *)
CallsBack == callback /\ Top = "addint"
Aep ==
  /\ outside = "aep" /\ outside' = IF CallsBack THEN "cb" ELSE "resume"
  /\ UNCHANGED <<hostPc, failed, aep_fired, cssa, within, intr, output>> /\ UNCHANGED host
aep_cb_func ==
  /\ outside \in {"cb", "cb2"} /\ ~failed
  /\ HostEnter(IF outside = "cb" THEN "report1" ELSE "report2", "none")
  /\ UNCHANGED <<hostPc, aep_fired, cssa, intr, output>> /\ UNCHANGED host
ResumedCssa == cssa - 1
Resume ==
  /\ outside = "resume" /\ cssa' = ResumedCssa /\ outside' = "none"
  /\ UNCHANGED <<hostPc, failed, aep_fired, within, intr, output>> /\ UNCHANGED host

(* the code in the enclave returns: addint to main, the reporter to main or to the callback, *)
(* whose second report is followed by the resumption                                         *)
Shows == IF cssa = 0 THEN "idle" ELSE "interrupted"
ReporterReturns ==
  /\ InEnclave /\ Top # "addint" /\ Leave /\ output' = Shows
  /\ IF cssa = 0 THEN HostStep /\ UNCHANGED <<outside, aep_fired>>
     ELSE IF Top = "report1" THEN outside' = "cb2" /\ UNCHANGED <<hostPc, aep_fired>>
     ELSE outside' = "resume" /\ aep_fired' = aep_fired + 1 /\ UNCHANGED hostPc
  /\ UNCHANGED <<failed, cssa, intr>> /\ UNCHANGED host
AddintReturns ==
  /\ InEnclave /\ Top = "addint" /\ Leave /\ HostStep
  /\ UNCHANGED <<failed, aep_fired, cssa, outside, intr, output>> /\ UNCHANGED host

-----------------------------------------------------------------------------
(* main opens the device, writes one page and closes it *)
WriteDevice(c) ==
  /\ HostAt(c) /\ HostStep /\ sent' = Append(sent, c)
  /\ UNCHANGED <<granted, handler, callback, fault_fired, failed>> /\ UNCHANGED encl
Destroy ==
  /\ HostAt("destroy") /\ HostStep
  /\ UNCHANGED <<granted, handler, callback, fault_fired, failed, sent>> /\ UNCHANGED encl

HostNext ==
  \/ Plain \/ (\E p \in HostPages : Revoke(p)) \/ Sigaction \/ RegisterAep \/ worker
  \/ CallAddint \/ CallReporter \/ Interrupt \/ Aep \/ aep_cb_func \/ Resume
  \/ ReporterReturns \/ AddintReturns
  \/ (\E c \in {"0xaa", "0xbb", "0xdd", "0xcc"} : WriteDevice(c)) \/ Destroy
HostSpec == HostInit /\ [][HostNext]_hostVars /\ WF_hostVars(HostNext)

-----------------------------------------------------------------------------
(* Enclave code and SSA frames stay in step: every frame in use belongs to code that waits  *)
(* to be resumed, and no thread has more frames than it was given.                           *)
HostTypeOK ==
  /\ cssa \in 0..NSSA /\ fault_fired \in 0..5 /\ granted \subseteq HostPages
  /\ failed \/ Len(within) \in {cssa, cssa + 1}

(* "ASSERT( fault_fired < 5)" holds whenever the handler runs, no fault comes before it is     *)
(* installed, and no entry finds the enclave's thread without a frame - however the interrupts *)
(* fall, in the callback's own entries as well.                                                *)
NeverFails == ~failed

(* Once the worker has touched the pages, each of them has faulted once and has its rights   *)
(* back, so nothing later in main depends on the handler.                                     *)
RightsComeBack == hostPc > 9 => granted = HostPages /\ fault_fired = 2

(* When the callback lets the enclave go on, what it reported is the interrupted thread, and *)
(* what main reports at the end is a thread that is in no call.                               *)
ReportsTheRightThread ==
  /\ outside = "resume" /\ Top = "addint" => output = "interrupted"
  /\ hostPc > 15 /\ within = <<>> => output = "idle"

\* main.c: the host program never reaches its failure exit, the rights of the
\* pages it took away are back when the enclave runs again, and the state it
\* reports is that of the thread that was interrupted.
HostRestores == HostTypeOK /\ NeverFails /\ RightsComeBack /\ ReportsTheRightThread

(* main gets through: neither the faults nor the interrupts keep it from its last step. *)
Ends == <>(hostPc > Len(Steps))
=============================================================================
