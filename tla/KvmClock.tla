------------------------------ MODULE KvmClock ------------------------------
(***************************************************************************)
(* What guests and user space read as time, in five parts: the copy of the *)
(* timekeeper's data, the clock page, the VM's clock as user space sets    *)
(* it, the wall clock record, and the steal time record.                   *)
(***************************************************************************)
EXTENDS Naturals, Sequences, FiniteSets, Integers

(***************************************************************************)
(* KVM's copy of the host's clock (kvm/x86.c): update_pvclock_gtod writes  *)
(* it field by field when the timekeeper changes; do_monotonic_raw and     *)
(* do_realtime read it on other CPUs, together with the time stamp counter *)
(* (TSC), and start over when the sequence count moved.                    *)
(*                                                                         *)
(* Time is the TSC; a clock is the line through (cycle_last, base) with    *)
(* slope mult, its shift is zero. A CPU's TSC may be a tick behind that of *)
(* the CPU that updated the copy. Differences are modulo W, the word.      *)
(***************************************************************************)

CONSTANTS
  GtodCpus,           \* readers
  MaxTsc,         \* bound on time
  GtodMaxUpdates,     \* bound on the updates of the timekeeper
  GtodW               \* 2^64 in the code

ASSUME GtodAssumption == MaxTsc \in Nat /\ GtodMaxUpdates \in Nat /\ GtodW \in Nat /\ GtodW > 2 * (MaxTsc + 1)

Kinds == {"raw", "real"}      \* raw_clock with offs_boot; clock with wall_time_sec
BasedOnTsc == {"tsc", "hv"}   \* gtod_is_based_on_tsc: the counter itself, or through Hyper-V's TSC page

VARIABLES
  gtodTsc,
  tk,             \* the timekeeper: mode, and per kind its cycle_last, mult, base and offset
  seq, gtod,      \* pvclock_gtod_data: seqcount, and the copy
  gtodWpc,            \* the writer: next field it copies
  published,      \* every state the timekeeper handed over
  updates,
  gtodRpc, kind, snap, stamp, acc, mode,   \* a reader: step, seq, TSC read, sum so far, mode of vgettsc
  result          \* what a reader returned: [ok, kind, ns, tsc]

gtodVars == <<gtodTsc, tk, seq, gtod, gtodWpc, published, updates, gtodRpc, kind, snap, stamp, acc, mode, result>>

Clock(c, m, b, o) == [cycle |-> c, mult |-> m, base |-> b, off |-> o]
First == [mode |-> "tsc", raw |-> Clock(0, 1, 0, 0), real |-> Clock(0, 1, 0, 0)]
NoResult == [ok |-> FALSE, kind |-> "raw", ns |-> 0, tsc |-> 0]
GtodInit ==
  /\ gtodTsc = 1 /\ tk = First /\ seq = 0 /\ gtod = First /\ gtodWpc = "idle" /\ published = {First} /\ updates = 0
  /\ gtodRpc = [c \in GtodCpus |-> "idle"] /\ kind = [c \in GtodCpus |-> "raw"]
  /\ snap = [c \in GtodCpus |-> 0] /\ stamp = [c \in GtodCpus |-> 0] /\ acc = [c \in GtodCpus |-> 0]
  /\ mode = [c \in GtodCpus |-> "none"] /\ result = [c \in GtodCpus |-> NoResult]

GtodTick ==
  /\ gtodTsc < MaxTsc /\ gtodTsc' = gtodTsc + 1
  /\ UNCHANGED <<tk, seq, gtod, gtodWpc, published, updates, gtodRpc, kind, snap, stamp, acc, mode, result>>

-----------------------------------------------------------------------------
(* the timekeeper moves its lines' origin to now, changes the rate, the offset or the clock source *)
Moved(c, m, o) == [cycle |-> gtodTsc, mult |-> m, base |-> c.base + (gtodTsc - c.cycle) * c.mult, off |-> o]
Timekeeper ==
  /\ gtodWpc = "idle" /\ updates < GtodMaxUpdates /\ updates' = updates + 1
  /\ \E m \in BasedOnTsc \cup {"none"}, jump \in 0 .. 1 :
       tk' = [mode |-> m, raw |-> Moved(tk.raw, 1, tk.raw.off + jump), real |-> Moved(tk.real, 1 + jump, tk.real.off)]
  /\ published' = published \cup {tk'} /\ gtodWpc' = "begin"
  /\ UNCHANGED <<gtodTsc, seq, gtod, gtodRpc, kind, snap, stamp, acc, mode, result>>

(* update_pvclock_gtod *)
WriterRest == <<gtodTsc, tk, published, updates, gtodRpc, kind, snap, stamp, acc, mode, result>>
write_seqcount_begin == gtodWpc = "begin" /\ seq' = seq + 1 /\ gtodWpc' = "clock" /\ UNCHANGED gtod /\ UNCHANGED WriterRest
CopyClock ==
  /\ gtodWpc = "clock" /\ gtodWpc' = "raw" /\ gtod' = [gtod EXCEPT !.mode = tk.mode, !.real = [tk.real EXCEPT !.off = gtod.real.off]]
  /\ UNCHANGED seq /\ UNCHANGED WriterRest
CopyRaw ==
  /\ gtodWpc = "raw" /\ gtodWpc' = "rest" /\ gtod' = [gtod EXCEPT !.raw = [tk.raw EXCEPT !.off = gtod.raw.off]]
  /\ UNCHANGED seq /\ UNCHANGED WriterRest
CopyRest ==
  /\ gtodWpc = "rest" /\ gtodWpc' = "end" /\ gtod' = [gtod EXCEPT !.real.off = tk.real.off, !.raw.off = tk.raw.off]
  /\ UNCHANGED seq /\ UNCHANGED WriterRest
write_seqcount_end == gtodWpc = "end" /\ seq' = seq + 1 /\ gtodWpc' = "idle" /\ UNCHANGED gtod /\ UNCHANGED WriterRest

-----------------------------------------------------------------------------
(* kvm_get_time_and_clockread, kvm_get_walltime_and_clockread *)
ReaderRest == <<gtodTsc, tk, seq, gtod, gtodWpc, published, updates>>
At(c, p) == gtodRpc' = [gtodRpc EXCEPT ![c] = p]
Returns(c, r) ==
  /\ result' = [result EXCEPT ![c] = r] /\ At(c, "idle") /\ mode' = [mode EXCEPT ![c] = "none"]
  /\ snap' = [snap EXCEPT ![c] = 0] /\ stamp' = [stamp EXCEPT ![c] = 0] /\ acc' = [acc EXCEPT ![c] = 0]
(* the first look at the mode is not protected by the count *)
Begin(c) ==
  /\ gtodRpc[c] = "idle"
  /\ \E k \in Kinds : kind' = [kind EXCEPT ![c] = k]
  /\ IF gtod.mode \in BasedOnTsc
     THEN At(c, "seq") /\ result' = [result EXCEPT ![c] = NoResult] /\ UNCHANGED <<snap, stamp, acc, mode>>
     ELSE Returns(c, NoResult)
  /\ UNCHANGED ReaderRest
ReadSeq(c) ==
  /\ gtodRpc[c] = "seq" /\ seq % 2 = 0 /\ snap' = [snap EXCEPT ![c] = seq] /\ At(c, "base")
  /\ UNCHANGED <<kind, stamp, acc, mode, result>> /\ UNCHANGED ReaderRest
ReadBase(c) ==
  /\ gtodRpc[c] = "base" /\ acc' = [acc EXCEPT ![c] = gtod[kind[c]].base] /\ At(c, "tsc")
  /\ UNCHANGED <<kind, snap, stamp, mode, result>> /\ UNCHANGED ReaderRest
(* read_tsc: never less than the last update saw *)
read_tsc(t) == IF t >= gtod.real.cycle THEN t ELSE gtod.real.cycle
(* vgettsc.  The TSC page, which shows one counter on all CPUs, may be invalid. *)
GtodReadTsc(c) ==
  /\ gtodRpc[c] = "tsc" /\ At(c, "cycles")
  /\ \/ /\ gtod.mode = "tsc" /\ mode' = [mode EXCEPT ![c] = "tsc"]
        /\ \E skew \in {0, 1} : stamp' = [stamp EXCEPT ![c] = read_tsc(gtodTsc - skew)]
     \/ /\ gtod.mode = "hv" /\ mode' = [mode EXCEPT ![c] = "hv"] /\ stamp' = [stamp EXCEPT ![c] = gtodTsc]
     \/ /\ gtod.mode \in {"hv", "none"}
        /\ mode' = [mode EXCEPT ![c] = "none"] /\ stamp' = [stamp EXCEPT ![c] = 0]
  /\ UNCHANGED <<kind, snap, acc, result>> /\ UNCHANGED ReaderRest
Delta(c) == (GtodW + stamp[c] - gtod[kind[c]].cycle) % GtodW
ReadCycles(c) ==
  /\ gtodRpc[c] = "cycles" /\ At(c, "off")
  /\ acc' = [acc EXCEPT ![c] = IF mode[c] \in BasedOnTsc THEN @ + Delta(c) * gtod[kind[c]].mult ELSE @]
  /\ UNCHANGED <<kind, snap, stamp, mode, result>> /\ UNCHANGED ReaderRest
ReadOffset(c) ==
  /\ gtodRpc[c] = "off" /\ acc' = [acc EXCEPT ![c] = @ + gtod[kind[c]].off] /\ At(c, "retry")
  /\ UNCHANGED <<kind, snap, stamp, mode, result>> /\ UNCHANGED ReaderRest
Answer(c) == [ok |-> mode[c] \in BasedOnTsc, kind |-> kind[c], ns |-> acc[c], tsc |-> stamp[c]]
read_seqcount_retry(c) ==
  /\ gtodRpc[c] = "retry"
  /\ IF seq # snap[c] THEN At(c, "seq") /\ UNCHANGED <<snap, stamp, acc, mode, result>> ELSE Returns(c, Answer(c))
  /\ UNCHANGED kind /\ UNCHANGED ReaderRest

WriterStep == write_seqcount_begin \/ CopyClock \/ CopyRaw \/ CopyRest \/ write_seqcount_end
ReaderStep(c) ==
  \/ ReadSeq(c) \/ ReadBase(c) \/ GtodReadTsc(c) \/ ReadCycles(c) \/ ReadOffset(c) \/ read_seqcount_retry(c)
GtodNext == GtodTick \/ Timekeeper \/ WriterStep \/ \E c \in GtodCpus : Begin(c) \/ ReaderStep(c)
(* the writer runs with interrupts off; a reader spins *)
GtodSpec == GtodInit /\ [][GtodNext]_gtodVars /\ WF_gtodVars(WriterStep) /\ \A c \in GtodCpus : WF_gtodVars(ReaderStep(c))

-----------------------------------------------------------------------------
(* Time and TSC that are returned together are one point of a clock the timekeeper published: never the *)
(* base of one update with the cycles or the offset of another, and never a point before its origin.    *)
OnTheLine ==
  \A c \in GtodCpus : LET r == result[c] IN
    r.ok => \E s \in published : LET l == s[r.kind] IN
              r.tsc >= l.cycle /\ r.ns = l.base + (r.tsc - l.cycle) * l.mult + l.off

(* "returns true if host is using TSC based clocksource": success means that the clock read is one the *)
(* TSC drives, although the mode may change after the first look at it.                                *)
TrueMeansTsc ==
  \A c \in GtodCpus : LET r == result[c] IN
    r.ok => \E s \in published : s.mode \in BasedOnTsc /\ r.ns = s[r.kind].base + s[r.kind].off
                                                          + (r.tsc - s[r.kind].cycle) * s[r.kind].mult

(* A reader that has begun returns: updates make it start over, but they are far apart. *)
GtodReadersReturn == \A c \in GtodCpus : (gtodRpc[c] # "idle") ~> (gtodRpc[c] = "idle")

-----------------------------------------------------------------------------
(***************************************************************************)
(* kvmclock (kvm/x86.c): each virtual CPU has a page in guest memory with  *)
(* a pair (tsc_timestamp, system_time) and a version.  On the master clock *)
(* all pages hold one master copy, which kvm_gen_update_masterclock renews *)
(* while KVM_REQ_MCLOCK_INPROGRESS keeps the virtual CPUs out of the       *)
(* guest.  The clock can be read from another virtual CPU's page.          *)
(*                                                                         *)
(* A copy is a number: how often the pair was taken.                       *)
(***************************************************************************)

CONSTANTS
  ClockVcpus,       \* virtual CPUs
  ClockBudgets      \* how many updates are asked for, how often a page is read and the guest paused

ASSUME ClockAssumption == IsFiniteSet(ClockVcpus)

VARIABLES
  clockMaster,   \* kvm->arch.master_kernel_ns and master_cycle_now
  clockPc,       \* virtual CPU -> where its thread is
  clockRequests, \* virtual CPU -> its requests
  ipi,      \* virtual CPUs being interrupted
  page,     \* virtual CPU -> version, the pair and the flag in guest memory
  clockCopy,     \* virtual CPU -> the copy that kvm_guest_time_update took
  clockPaused,   \* virtual CPU -> pvclock_set_guest_stopped_request
  stopped,  \* ghost: virtual CPU -> the guest has still to see that it was stopped
  reader,   \* a reader of a page in the guest: whose page, and what it has so far
  accepted, \* the last pair a reader accepted
  work,     \* kvmclock_update_work is scheduled
  crowded,  \* history: two virtual CPUs updated at the same time; "mending" in the next update alone
  clockLeft

clockVars == <<clockMaster, clockPc, clockRequests, ipi, page, clockCopy, clockPaused, stopped, reader, accepted, work, crowded, clockLeft>>

ClockInit ==
  /\ clockMaster = 0 /\ clockPc = [c \in ClockVcpus |-> "host"] /\ clockRequests = [c \in ClockVcpus |-> {"CLOCK"}]
  /\ ipi = {}
  \* guest memory, before the first write
  /\ page \in [ClockVcpus -> [version : 0..1, tsc : {0}, time : {0}, stopped : {FALSE}]]
  /\ clockCopy = [c \in ClockVcpus |-> 0]
  /\ clockPaused = [c \in ClockVcpus |-> FALSE] /\ stopped = [c \in ClockVcpus |-> FALSE]
  /\ reader = [state |-> "idle"] /\ accepted = <<0, 0>> /\ work = FALSE /\ crowded = "no"
  /\ clockLeft \in ClockBudgets

ClockRequest(S, q) == [c \in ClockVcpus |-> IF c \in S THEN clockRequests[c] \cup {q} ELSE clockRequests[c]]
Clear(S, q) == [c \in ClockVcpus |-> IF c \in S THEN clockRequests[c] \ {q} ELSE clockRequests[c]]
InGuest == {c \in ClockVcpus : clockPc[c] = "guest"}
Updating == {c \in ClockVcpus : clockPc[c] \in {"inprogress", "copied", "asked"}}

-----------------------------------------------------------------------------
(* someone asks for an update of the master clock: a TSC write, a new old-style MSR, a   *)
(* change of the host's clock source                                                      *)
AskUpdate(c) ==
  /\ clockLeft.updates > 0 /\ "MASTERCLOCK" \notin clockRequests[c]
  /\ clockLeft' = [clockLeft EXCEPT !.updates = @ - 1]
  /\ clockRequests' = ClockRequest({c}, "MASTERCLOCK")
  /\ UNCHANGED <<clockMaster, clockPc, ipi, page, clockCopy, clockPaused, stopped, reader, accepted, work, crowded>>

(* kvm_gen_update_masterclock, first: every virtual CPU is told and brought out of the guest *)
Kicked(c) == InGuest
BeginUpdate(c) ==
  /\ clockPc[c] = "host" /\ "MASTERCLOCK" \in clockRequests[c]
  /\ clockRequests' = [d \in ClockVcpus |-> (clockRequests[d] \cup {"INPROGRESS"})
                                  \ (IF d = c THEN {"MASTERCLOCK"} ELSE {})]
  /\ ipi' = ipi \cup Kicked(c)
  /\ clockPc' = [clockPc EXCEPT ![c] = "inprogress"]
  /\ crowded' = IF Updating # {} THEN "yes" ELSE IF crowded = "yes" THEN "mending" ELSE crowded
  /\ UNCHANGED <<clockMaster, page, clockCopy, clockPaused, stopped, reader, accepted, work, clockLeft>>

(* "no guest entries from this point": pvclock_update_vm_gtod_copy *)
TakeMaster(c) ==
  /\ clockPc[c] = "inprogress" /\ ipi = {}
  /\ clockMaster' = clockMaster + 1
  /\ clockPc' = [clockPc EXCEPT ![c] = "copied"]
  /\ crowded' = IF crowded = "mending" THEN "no" ELSE crowded
  /\ UNCHANGED <<clockRequests, ipi, page, clockCopy, clockPaused, stopped, reader, accepted, work, clockLeft>>

Asked == "CLOCK"
AskClocks(c) ==
  /\ clockPc[c] = "copied"
  /\ clockRequests' = ClockRequest(ClockVcpus, Asked)
  /\ clockPc' = [clockPc EXCEPT ![c] = "asked"]
  /\ UNCHANGED <<clockMaster, ipi, page, clockCopy, clockPaused, stopped, reader, accepted, work, crowded, clockLeft>>

(* "guest entries allowed" *)
EndUpdate(c) ==
  /\ clockPc[c] = "asked"
  /\ clockRequests' = Clear(ClockVcpus, "INPROGRESS")
  /\ clockPc' = [clockPc EXCEPT ![c] = "host"]
  /\ UNCHANGED <<clockMaster, ipi, page, clockCopy, clockPaused, stopped, reader, accepted, work, crowded, clockLeft>>

-----------------------------------------------------------------------------
(* kvm_guest_time_update: the master copy is taken under the lock *)
kvm_guest_time_update_clock(c) ==
  /\ clockPc[c] = "host" /\ "CLOCK" \in clockRequests[c]
  /\ clockRequests' = Clear({c}, "CLOCK")
  /\ clockCopy' = [clockCopy EXCEPT ![c] = clockMaster]
  /\ clockPc' = [clockPc EXCEPT ![c] = "version"]
  /\ UNCHANGED <<clockMaster, ipi, page, clockPaused, stopped, reader, accepted, work, crowded, clockLeft>>

SameVersion(p) == p.version
(* kvm_setup_pvclock_page: the version becomes odd, *)
OddVersion(p) == IF p.version % 2 = 1 THEN p.version + 2 ELSE p.version + 1
ClockWriteVersion(c) ==
  /\ clockPc[c] = "version"
  /\ page' = [page EXCEPT ![c].version = OddVersion(page[c])]
  /\ clockPc' = [clockPc EXCEPT ![c] = "tsc"]
  /\ UNCHANGED <<clockMaster, clockRequests, ipi, clockCopy, clockPaused, stopped, reader, accepted, work, crowded, clockLeft>>

(* the pair is written, in no particular order, with the flag the guest or userspace set, *)
Retained(p) == p.stopped
WritePair(c, first) ==
  /\ clockPc[c] = "tsc"
  /\ IF first = "tsc"
     THEN page' = [page EXCEPT ![c].tsc = clockCopy[c], ![c].stopped = Retained(page[c]) \/ clockPaused[c]]
     ELSE page' = [page EXCEPT ![c].time = clockCopy[c], ![c].stopped = Retained(page[c]) \/ clockPaused[c]]
  /\ clockPaused' = [clockPaused EXCEPT ![c] = FALSE]
  /\ clockPc' = [clockPc EXCEPT ![c] = "second"]
  /\ UNCHANGED <<clockMaster, clockRequests, ipi, clockCopy, stopped, reader, accepted, work, crowded, clockLeft>>

WriteSecond(c) ==
  /\ clockPc[c] = "second"
  /\ page' = [page EXCEPT ![c].tsc = clockCopy[c], ![c].time = clockCopy[c]]
  /\ clockPc' = [clockPc EXCEPT ![c] = "even"]
  /\ UNCHANGED <<clockMaster, clockRequests, ipi, clockCopy, clockPaused, stopped, reader, accepted, work, crowded, clockLeft>>

(* and the version even *)
WriteEven(c) ==
  /\ clockPc[c] = "even"
  /\ page' = [page EXCEPT ![c].version = @ + 1]
  /\ clockPc' = [clockPc EXCEPT ![c] = "host"]
  /\ UNCHANGED <<clockMaster, clockRequests, ipi, clockCopy, clockPaused, stopped, reader, accepted, work, crowded, clockLeft>>

(* into the guest with no request left; out of it at any time *)
MayEnter(c) == clockRequests[c] = {}
ClockEnterGuest(c) ==
  /\ clockPc[c] = "host" /\ MayEnter(c)
  /\ clockPc' = [clockPc EXCEPT ![c] = "guest"]
  /\ UNCHANGED <<clockMaster, clockRequests, ipi, page, clockCopy, clockPaused, stopped, reader, accepted, work, crowded, clockLeft>>

ClockExitGuest(c) ==
  /\ clockPc[c] = "guest"
  /\ clockPc' = [clockPc EXCEPT ![c] = "host"] /\ ipi' = ipi \ {c}
  /\ UNCHANGED <<clockMaster, clockRequests, page, clockCopy, clockPaused, stopped, reader, accepted, work, crowded, clockLeft>>

-----------------------------------------------------------------------------
(* kvm_gen_kvmclock_update: this clock now, all the others a little later *)
kvm_gen_kvmclock_update(c) ==
  /\ clockPc[c] = "host" /\ clockLeft.updates > 0
  /\ clockLeft' = [clockLeft EXCEPT !.updates = @ - 1]
  /\ clockRequests' = ClockRequest({c}, "CLOCK") /\ work' = TRUE
  /\ UNCHANGED <<clockMaster, clockPc, ipi, page, clockCopy, clockPaused, stopped, reader, accepted, crowded>>

(* the periodic synchronisation *)
kvmclock_sync_fn ==
  /\ ~work /\ clockLeft.updates > 0
  /\ clockLeft' = [clockLeft EXCEPT !.updates = @ - 1] /\ work' = TRUE
  /\ UNCHANGED <<clockMaster, clockPc, clockRequests, ipi, page, clockCopy, clockPaused, stopped, reader, accepted, crowded>>

kvmclock_update_fn ==
  /\ work /\ work' = FALSE
  /\ clockRequests' = ClockRequest(ClockVcpus, "CLOCK") /\ ipi' = ipi \cup InGuest
  /\ UNCHANGED <<clockMaster, clockPc, page, clockCopy, clockPaused, stopped, reader, accepted, crowded, clockLeft>>

(* kvm_set_guest_paused: KVM_KVMCLOCK_CTRL, and the suspend notifier *)
kvm_set_guest_paused_clock(c) ==
  /\ clockLeft.pauses > 0 /\ clockPc[c] = "host"
  /\ clockLeft' = [clockLeft EXCEPT !.pauses = @ - 1]
  /\ clockPaused' = [clockPaused EXCEPT ![c] = TRUE] /\ stopped' = [stopped EXCEPT ![c] = TRUE]
  /\ clockRequests' = ClockRequest({c}, "CLOCK")
  /\ UNCHANGED <<clockMaster, clockPc, ipi, page, clockCopy, reader, accepted, work, crowded>>

(* the guest sees the flag and clears it *)
SeeStopped(c) ==
  /\ clockPc[c] = "guest" /\ page[c].stopped
  /\ page' = [page EXCEPT ![c].stopped = FALSE] /\ stopped' = [stopped EXCEPT ![c] = FALSE]
  /\ UNCHANGED <<clockMaster, clockPc, clockRequests, ipi, clockCopy, clockPaused, reader, accepted, work, crowded, clockLeft>>

(* A guest reads a page, its own or another's: version, pair, version. *)
ClockReadVersion(c) ==
  /\ reader.state = "idle" /\ clockLeft.reads > 0 /\ page[c].version % 2 = 0
  /\ clockLeft' = [clockLeft EXCEPT !.reads = @ - 1]
  /\ reader' = [state |-> "tsc", of |-> c, version |-> page[c].version]
  /\ UNCHANGED <<clockMaster, clockPc, clockRequests, ipi, page, clockCopy, clockPaused, stopped, accepted, work, crowded>>
ClockReadTsc ==
  /\ reader.state = "tsc"
  /\ reader' = [state |-> "time", of |-> reader.of, version |-> reader.version,
                tsc |-> page[reader.of].tsc]
  /\ UNCHANGED <<clockMaster, clockPc, clockRequests, ipi, page, clockCopy, clockPaused, stopped, accepted, work, crowded, clockLeft>>
ReadTime ==
  /\ reader.state = "time"
  /\ reader' = [state |-> "again", of |-> reader.of, version |-> reader.version,
                tsc |-> reader.tsc, time |-> page[reader.of].time]
  /\ UNCHANGED <<clockMaster, clockPc, clockRequests, ipi, page, clockCopy, clockPaused, stopped, accepted, work, crowded, clockLeft>>
ClockReadAgain ==
  /\ reader.state = "again"
  /\ accepted' = IF page[reader.of].version = reader.version
                 THEN <<reader.tsc, reader.time>> ELSE accepted
  /\ reader' = [state |-> "idle"]
  /\ UNCHANGED <<clockMaster, clockPc, clockRequests, ipi, page, clockCopy, clockPaused, stopped, work, crowded, clockLeft>>

-----------------------------------------------------------------------------
ClockNext ==
  \/ \E c \in ClockVcpus : \/ AskUpdate(c) \/ BeginUpdate(c) \/ TakeMaster(c) \/ AskClocks(c)
                           \/ EndUpdate(c) \/ kvm_guest_time_update_clock(c) \/ ClockWriteVersion(c)
                           \/ WritePair(c, "tsc") \/ WritePair(c, "time") \/ WriteSecond(c)
                           \/ WriteEven(c) \/ ClockEnterGuest(c) \/ ClockExitGuest(c)
                           \/ kvm_gen_kvmclock_update(c) \/ kvm_set_guest_paused_clock(c) \/ SeeStopped(c)
                           \/ ClockReadVersion(c)
  \/ kvmclock_update_fn \/ kvmclock_sync_fn \/ ClockReadTsc \/ ReadTime \/ ClockReadAgain
ClockSpec == ClockInit /\ [][ClockNext]_clockVars

-----------------------------------------------------------------------------
(* The state has its types, and a page's version is odd exactly while it is being written, *)
(* after the first write.                                                                   *)
ClockTypeOK ==
  /\ \A c \in ClockVcpus : /\ clockRequests[c] \subseteq {"CLOCK", "MASTERCLOCK", "INPROGRESS"}
                           /\ clockPc[c] = "guest" => page[c].version % 2 = 0
                           /\ clockPc[c] \in {"tsc", "second", "even"} => page[c].version % 2 = 1
  /\ ipi \subseteq ClockVcpus

(* Virtual CPUs that run at the same time have the same master copy in their pages, unless two *)
(* of them were updating it at the same time and none has done so alone since.                 *)
SameCopy(c, d) == page[c].tsc = page[d].tsc /\ page[c].time = page[d].time
OneCopyVisible == crowded = "no" => \A c, d \in InGuest : SameCopy(c, d)

(* "version is odd if data is being modified, and even after it is consistent": a pair that a *)
(* reader accepts was written together, from whichever page it reads.                           *)
ReadersConsistent == accepted[1] = accepted[2]

(* The guest is told that it was stopped, even when the page is written again before it looks: *)
(* "retain PVCLOCK_GUEST_STOPPED if set in guest copy".                                         *)
StoppedIsTold ==
  \A c \in ClockVcpus : stopped[c] => page[c].stopped \/ clockPaused[c]

-----------------------------------------------------------------------------
(***************************************************************************)
(* KVM_SET_CLOCK and KVM_GET_CLOCK (kvm/x86.c): user space sets the clock  *)
(* of a virtual machine while the host's clock source comes and goes, and  *)
(* each VCPU learns of it when it next enters the guest. The suspend       *)
(* notifier marks the VCPUs that use the clock.                            *)
(*                                                                         *)
(* Host time and TSC advance together. User space stops the VCPUs while it *)
(* sets the clock, as the comment in KVM_SET_CLOCK demands.                *)
(***************************************************************************)

CONSTANTS
  SetClockVcpus,
  SetClockMaxTime,        \* bound on time
  Clocks          \* values user space may set

ASSUME SetClockAssumption == SetClockMaxTime \in Nat /\ Clocks \subseteq Nat

VARIABLES
  setClockNow,            \* host time: get_kvmclock_base_ns and the TSC
  tscsource,      \* the host's clock source is the TSC
  setClockMaster,         \* use_master_clock, master_kernel_ns = master_cycle_now
  setClockOffset,         \* kvmclock_offset
  spc, user,      \* the ioctl: its step, and user_ns.clock
  set,            \* ghost: the last value set, when its call began and where its clock starts
  setClockGot,            \* what KVM_GET_CLOCK returned, or -1
  setClockRequests,       \* VCPUs with KVM_REQ_CLOCK_UPDATE
  hv,             \* vcpu->arch.hv_clock: tsc_timestamp, system_time
  running,        \* VCPUs in KVM_RUN
  enabled, setClockPaused, told   \* pv_time_enabled; pvclock_set_guest_stopped_request; ghost: who was marked

setClockVars == <<setClockNow, tscsource, setClockMaster, setClockOffset, spc, user, set, setClockGot, setClockRequests, hv, running, enabled, setClockPaused, told>>

SetClockInit ==
  /\ setClockNow = 1 /\ tscsource \in BOOLEAN /\ setClockMaster = [use |-> FALSE, ns |-> 0] /\ setClockOffset = -1
  /\ spc = "idle" /\ user = 0 /\ set = [clock |-> 0, from |-> 1, to |-> 1] /\ setClockGot = -1
  /\ setClockRequests = SetClockVcpus /\ hv = [v \in SetClockVcpus |-> [tsc |-> 0, time |-> 0]] /\ running = {}
  /\ enabled \in SUBSET SetClockVcpus /\ setClockPaused = {} /\ told = {}

SetClockTick ==
  /\ setClockNow < SetClockMaxTime /\ setClockNow' = setClockNow + 1 /\ setClockGot' = -1
  /\ UNCHANGED <<tscsource, setClockMaster, setClockOffset, spc, user, set, setClockRequests, hv, running, enabled, setClockPaused, told>>
ClockSource ==
  /\ tscsource' = ~tscsource /\ setClockGot' = -1
  /\ UNCHANGED <<setClockNow, setClockMaster, setClockOffset, spc, user, set, setClockRequests, hv, running, enabled, setClockPaused, told>>

-----------------------------------------------------------------------------
(* kvm_gen_update_masterclock: a snapshot of time, and every VCPU updates its clock *)
Snapshot == setClockMaster' = IF tscsource THEN [use |-> TRUE, ns |-> setClockNow] ELSE [use |-> FALSE, ns |-> setClockMaster.ns]
kvm_gen_update_masterclock ==
  /\ running = {} /\ Snapshot /\ setClockRequests' = SetClockVcpus /\ setClockGot' = -1
  /\ UNCHANGED <<setClockNow, tscsource, setClockOffset, spc, user, set, hv, running, enabled, setClockPaused, told>>

(* KVM_SET_CLOCK *)
SetClock ==
  /\ spc = "idle" /\ running = {} /\ setClockGot' = -1
  /\ \E c \in Clocks : user' = c /\ set' = [clock |-> c, from |-> setClockNow, to |-> setClockNow]
  /\ Snapshot /\ setClockRequests' = SetClockVcpus /\ spc' = "offset"
  /\ UNCHANGED <<setClockNow, tscsource, setClockOffset, hv, running, enabled, setClockPaused, told>>
NowNs == IF setClockMaster.use THEN setClockMaster.ns ELSE setClockNow
SetOffset ==
  /\ spc = "offset" /\ setClockOffset' = user - NowNs /\ spc' = "request" /\ setClockGot' = -1
  /\ set' = [set EXCEPT !.to = setClockNow]
  /\ UNCHANGED <<setClockNow, tscsource, setClockMaster, user, setClockRequests, hv, running, enabled, setClockPaused, told>>
SetClockRequest ==
  /\ spc = "request" /\ setClockRequests' = SetClockVcpus /\ spc' = "idle" /\ setClockGot' = -1
  /\ UNCHANGED <<setClockNow, tscsource, setClockMaster, setClockOffset, user, set, hv, running, enabled, setClockPaused, told>>

(* get_kvmclock_ns *)
get_kvmclock_ns == IF setClockMaster.use THEN (setClockMaster.ns + setClockOffset) + (setClockNow - setClockMaster.ns) ELSE setClockNow + setClockOffset
GetClock ==
  /\ spc = "idle" /\ setClockGot' = get_kvmclock_ns
  /\ UNCHANGED <<setClockNow, tscsource, setClockMaster, setClockOffset, spc, user, set, setClockRequests, hv, running, enabled, setClockPaused, told>>

-----------------------------------------------------------------------------
(* KVM_RUN: kvm_guest_time_update, then the guest *)
kvm_guest_time_update_setClock(v) ==
  /\ spc = "idle" /\ v \in setClockRequests /\ setClockRequests' = setClockRequests \ {v} /\ setClockGot' = -1
  /\ LET ns == IF setClockMaster.use THEN setClockMaster.ns ELSE setClockNow IN
     hv' = [hv EXCEPT ![v] = [tsc |-> ns, time |-> ns + setClockOffset]]
  /\ setClockPaused' = IF v \in enabled THEN setClockPaused \ {v} ELSE setClockPaused
  /\ told' = told \ {v}
  /\ UNCHANGED <<setClockNow, tscsource, setClockMaster, setClockOffset, spc, user, set, running, enabled>>
Run(v) ==
  /\ spc = "idle" /\ v \notin running /\ v \notin setClockRequests /\ running' = running \cup {v} /\ setClockGot' = -1
  /\ UNCHANGED <<setClockNow, tscsource, setClockMaster, setClockOffset, spc, user, set, setClockRequests, hv, enabled, setClockPaused, told>>
Leave(v) ==
  /\ v \in running /\ running' = running \ {v} /\ setClockGot' = -1
  /\ UNCHANGED <<setClockNow, tscsource, setClockMaster, setClockOffset, spc, user, set, setClockRequests, hv, enabled, setClockPaused, told>>
GuestTime(v) == hv[v].time + (setClockNow - hv[v].tsc)

-----------------------------------------------------------------------------
(* kvm_arch_suspend_notifier: every VCPU whose guest uses the clock is told that it was stopped *)
kvm_set_guest_paused_setClock(v) == v \in enabled
kvm_arch_suspend_notifier ==
  /\ spc = "idle" /\ running = {} /\ setClockGot' = -1 /\ enabled # {}
  /\ LET S == {v \in SetClockVcpus : kvm_set_guest_paused_setClock(v)} IN
     setClockPaused' = setClockPaused \cup S /\ setClockRequests' = setClockRequests \cup S /\ told' = S
  /\ UNCHANGED <<setClockNow, tscsource, setClockMaster, setClockOffset, spc, user, set, hv, running, enabled>>

SetClockNext ==
  \/ SetClockTick \/ ClockSource \/ kvm_gen_update_masterclock \/ SetClock \/ SetOffset \/ SetClockRequest \/ GetClock
  \/ kvm_arch_suspend_notifier
  \/ \E v \in SetClockVcpus : kvm_guest_time_update_setClock(v) \/ Run(v) \/ Leave(v)
SetClockSpec == SetClockInit /\ [][SetClockNext]_setClockVars

-----------------------------------------------------------------------------
(* The time a VCPU's page starts from is unsigned and never below zero, however small the clock that was *)
(* set ("we risk going negative on unsigned 'system_time' when 'user_ns.clock' is very small").           *)
NeverNegative == \A v \in SetClockVcpus : hv[v].time >= 0

(* KVM_GET_CLOCK counts from the value that was set, and from a moment during that call: setting the   *)
(* clock, reading it and setting it again elsewhere never turns it back nor gains more than the call   *)
(* took. It holds across changes of the clock source.                                                 *)
GetFollowsSet ==
  setClockGot # -1 => /\ setClockGot >= set.clock + (setClockNow - set.to)
                      /\ setClockGot <= set.clock + (setClockNow - set.from)

(* A VCPU in the guest reads the time KVM_GET_CLOCK returns: all VCPUs agree with it and each other. *)
GuestAgrees == spc = "idle" => \A v \in running : GuestTime(v) = get_kvmclock_ns

(* Each VCPU whose guest uses the clock has its mark after a suspend, until it is passed on. *)
AllAreTold == told \subseteq setClockPaused

-----------------------------------------------------------------------------
(***************************************************************************)
(* The wall clock page (kvm_write_wall_clock, kvm/x86.c): a VCPU writes the *)
(* MSR, the host stores the wall time at which the guest's clock started   *)
(* field by field, between two increments of a version, and other VCPUs    *)
(* read it (pvclock_read_wallclock of the guest, external) meanwhile.      *)
(*                                                                         *)
(* A second has NsPerSec nanoseconds and the low word of the seconds wraps *)
(* at SecMod; the version wraps at WallVersionMod. The memory of a new page    *)
(* holds anything. The guest reads once the MSR was written and does not   *)
(* write it on two VCPUs at once.                                          *)
(***************************************************************************)

CONSTANTS
  Walls,          \* the times host wall clock minus guest clock may take
  NsPerSec, SecMod, WallVersionMod,
  WallMaxWrites       \* bound on the writes of the MSR

ASSUME WallClockAssumption ==
  /\ Walls \subseteq Nat /\ NsPerSec \in Nat \ {0} /\ SecMod \in Nat \ {0}
  /\ WallVersionMod % 2 = 0 /\ WallMaxWrites \in Nat

VARIABLES
  sec_hi_ofs,     \* the page has the high word of the seconds
  wall,           \* ktime_get_real_ns() - get_kvmclock_ns(kvm)
  mem,            \* the page
  wallWpc, version, wc,       \* the writer: its step, its version and the time it computed
  wallRpc, seen, wallCopy, wallGot,   \* the reader: its step, the version and the fields it read, its answer
  hist, stored, since     \* ghosts: the times computed, how many were stored, that number when the reader began

wallVars == <<sec_hi_ofs, wall, mem, wallWpc, version, wc, wallRpc, seen, wallCopy, wallGot, hist, stored, since>>
host == <<wall, wallWpc, version, wc, hist, stored>>
guest == <<wallRpc, seen, wallCopy, wallGot, since>>

Time(w) == [sec |-> (w \div NsPerSec) % SecMod, nsec |-> w % NsPerSec, hi |-> (w \div NsPerSec) \div SecMod]
NoTime == [sec |-> 0, nsec |-> 0, hi |-> 0]

WallInit ==
  /\ sec_hi_ofs \in BOOLEAN /\ wall \in Walls
  /\ \E v \in 0..(WallVersionMod - 1) : mem = [version |-> v, sec |-> 0, nsec |-> 0, hi |-> 0]
  /\ wallWpc = "idle" /\ version = 0 /\ wc = NoTime
  /\ wallRpc = "idle" /\ seen = 0 /\ wallCopy = NoTime /\ wallGot = NoTime
  /\ hist = <<>> /\ stored = 0 /\ since = 0

(* The host's clock or the guest's is set. *)
SetTime ==
  /\ \E w \in Walls \ {wall} : wall' = w
  /\ UNCHANGED <<sec_hi_ofs, mem, wallWpc, version, wc, hist, stored, guest>>

-----------------------------------------------------------------------------
(* The writer; kvm_read_guest or the first kvm_write_guest may find no memory, and then nothing is written. *)
WallWriteMsr ==
  /\ wallWpc = "idle" /\ Len(hist) < WallMaxWrites
  /\ version' = mem.version /\ wallWpc' = "version"
  /\ UNCHANGED <<sec_hi_ofs, wall, mem, wc, hist, stored, guest>>
FirstVersionJunk(v) == (v + 1) % WallVersionMod
FirstVersion(v) == ((IF v % 2 = 1 THEN v + 1 ELSE v) + 1) % WallVersionMod
WallWriteVersion ==
  /\ wallWpc = "version"
  /\ version' = FirstVersion(version)
  /\ \/ mem' = [mem EXCEPT !.version = version'] /\ wallWpc' = "time"
     \/ wallWpc' = "idle" /\ UNCHANGED mem
  /\ UNCHANGED <<sec_hi_ofs, wall, wc, hist, stored, guest>>
ComputeTime ==
  /\ wallWpc = "time" /\ wc' = Time(wall) /\ hist' = Append(hist, wc') /\ wallWpc' = "sec"
  /\ UNCHANGED <<sec_hi_ofs, wall, mem, version, stored, guest>>
WriteSec ==
  /\ wallWpc = "sec" /\ mem' = [mem EXCEPT !.version = version, !.sec = wc.sec] /\ wallWpc' = "nsec"
  /\ UNCHANGED <<sec_hi_ofs, wall, version, wc, hist, stored, guest>>
WriteNsec ==
  /\ wallWpc = "nsec" /\ mem' = [mem EXCEPT !.nsec = wc.nsec] /\ wallWpc' = IF sec_hi_ofs THEN "hi" ELSE "last"
  /\ UNCHANGED <<sec_hi_ofs, wall, version, wc, hist, stored, guest>>
WriteHi ==
  /\ wallWpc = "hi" /\ mem' = [mem EXCEPT !.hi = wc.hi] /\ wallWpc' = "last"
  /\ UNCHANGED <<sec_hi_ofs, wall, version, wc, hist, stored, guest>>
LastVersion(v) == (v + 1) % WallVersionMod
WriteLast ==
  /\ wallWpc = "last" /\ version' = LastVersion(version) /\ mem' = [mem EXCEPT !.version = version']
  /\ wallWpc' = "idle" /\ stored' = Len(hist)
  /\ UNCHANGED <<sec_hi_ofs, wall, wc, hist, guest>>

-----------------------------------------------------------------------------
(* The reader of the guest *)
WallReadVersion ==
  /\ wallRpc = "idle" \/ wallRpc = "version"
  /\ stored > 0
  /\ seen' = mem.version /\ wallRpc' = IF mem.version % 2 = 1 THEN "version" ELSE "sec"
  /\ since' = IF wallRpc = "idle" THEN stored ELSE since
  /\ UNCHANGED <<sec_hi_ofs, mem, wallCopy, wallGot, host>>
ReadField(f, from, to) ==
  /\ wallRpc = from /\ wallCopy' = [wallCopy EXCEPT ![f] = mem[f]] /\ wallRpc' = to
  /\ UNCHANGED <<sec_hi_ofs, mem, seen, wallGot, since, host>>
WallReadAgain ==
  /\ wallRpc = "again"
  /\ IF seen = mem.version THEN wallRpc' = "idle" /\ wallGot' = wallCopy ELSE wallRpc' = "version" /\ UNCHANGED wallGot
  /\ UNCHANGED <<sec_hi_ofs, mem, seen, wallCopy, since, host>>

Host == WallWriteVersion \/ ComputeTime \/ WriteSec \/ WriteNsec \/ WriteHi \/ WriteLast
Guest == WallReadVersion \/ ReadField("sec", "sec", "nsec") \/ ReadField("nsec", "nsec", "hi")
         \/ ReadField("hi", "hi", "again") \/ WallReadAgain
WallNext == SetTime \/ WallWriteMsr \/ Host \/ Guest
WallFairness == WF_wallVars(Host) /\ WF_wallVars(wallRpc # "idle" /\ Guest)
WallSpec == WallInit /\ [][WallNext]_wallVars /\ WallFairness

-----------------------------------------------------------------------------
(* What a VCPU reads is one whole time the host computed, none of it from another write, and no older *)
(* than the page held when the VCPU began, whatever junk the version started from.                    *)
Same(t) == /\ wallGot'.sec = t.sec /\ wallGot'.nsec = t.nsec
           /\ sec_hi_ofs => wallGot'.hi = t.hi
ReadsOneTime == [][WallReadAgain /\ wallRpc' = "idle" => \E i \in since..Len(hist) : Same(hist[i])]_wallVars

(* A VCPU that reads the page gets its time, however often another one has the clock stored anew. *)
WallReadersReturn == wallRpc = "version" ~> wallRpc = "idle"

-----------------------------------------------------------------------------
(***************************************************************************)
(* Steal time of one virtual CPU (kvm/x86.c): a record in guest memory     *)
(* says whether the virtual CPU is preempted and how long it waited.  A    *)
(* guest that has changed page tables need not interrupt a preempted       *)
(* virtual CPU: it leaves KVM_VCPU_FLUSH_TLB in the record, and            *)
(* record_steal_time flushes before the virtual CPU runs again.            *)
(*                                                                         *)
(* The other virtual CPU, which flushes, is guest code and external.       *)
(***************************************************************************)

CONSTANTS
  Areas,      \* where the guest may place the record
  MaxFlushes, \* how many flushes the guest asks for
  StealMaxWrites,  \* how often it writes MSR_KVM_STEAL_TIME
  StealVersionMod  \* st->version wraps

ASSUME StealAssumption == StealVersionMod \in Nat /\ StealVersionMod > 1 /\ StealVersionMod % 2 = 0

VARIABLES
  where,     \* the virtual CPU: "out", "loaded", "ready", "guest"
  recording, \* where record_steal_time is: "no", "version", "steal", "last", "even"
  msr,       \* vcpu->arch.st.msr_val: an area, or "off"
  st,        \* area -> the record: flags, version, steal
  preempted, \* vcpu->arch.st.preempted
  stealUpdate,    \* KVM_REQ_STEAL_UPDATE
  delay,     \* current->sched_info.run_delay
  last,      \* vcpu->arch.st.last_steal
  stale,     \* the virtual CPU's TLB holds entries the guest has removed
  flusher,   \* the other virtual CPU: "idle", "changed", "read", "ipi"
  sawOut,    \* it read the record as preempted
  stealLeft       \* flushes and MSR writes left

stealVars == <<where, recording, msr, st, preempted, stealUpdate, delay, last, stale, flusher, sawOut, stealLeft>>

StealInit ==
  /\ where = "out" /\ recording = "no" /\ msr = "off"
  \* memory of the guest: the version is junk before the first write
  /\ st \in [Areas -> [flags : {{}}, version : 0..1, steal : {0}]]
  /\ preempted = FALSE /\ stealUpdate = FALSE /\ delay = 0 /\ last = 0 /\ stale = FALSE
  /\ flusher = "idle" /\ sawOut = FALSE
  /\ stealLeft = [flushes |-> MaxFlushes, writes |-> StealMaxWrites]

(* kvm_arch_vcpu_load *)
kvm_arch_vcpu_load_steal ==
  /\ where = "out"
  /\ where' = "loaded" /\ stealUpdate' = TRUE
  /\ UNCHANGED <<recording, msr, st, preempted, delay, last, stale, flusher, sawOut, stealLeft>>

(* kvm_arch_vcpu_put, kvm_steal_time_set_preempted: the record is written once, so that a *)
(* flag the guest has added since survives; in atomic context it may not be reachable     *)
SkipPreempted == msr = "off" \/ preempted
kvm_arch_vcpu_put ==
  /\ where \in {"loaded", "ready", "guest"}
  /\ \/ /\ ~SkipPreempted
        /\ st' = [st EXCEPT ![msr].flags = {"PREEMPTED"}] /\ preempted' = TRUE
     \/ UNCHANGED <<st, preempted>>
  /\ where' = "out"
  /\ delay' = IF delay < 2 THEN delay + 1 ELSE delay
  /\ UNCHANGED <<recording, msr, stealUpdate, last, stale, flusher, sawOut, stealLeft>>

OddSteal(v) == (IF v % 2 = 1 THEN v + 2 ELSE v + 1) % StealVersionMod
EvenSteal(v) == (v + 1) % StealVersionMod

RecordFlags(flags) == {}
FlushAsked(flags) == "FLUSH" \in flags
Accrued(s) == s + (delay - last)

(* record_steal_time: the flags are exchanged and a flush that was asked for is made, *)
record_steal_time ==
  /\ where = "loaded" /\ recording = "no" /\ stealUpdate
  /\ stealUpdate' = FALSE
  /\ IF msr = "off" THEN where' = "ready" /\ UNCHANGED <<recording, st, preempted, stale>>
     ELSE /\ stale' = (stale /\ ~FlushAsked(st[msr].flags))
          /\ preempted' = FALSE
          /\ st' = [st EXCEPT ![msr].flags = RecordFlags(@)]
          /\ recording' = "version" /\ UNCHANGED where
  /\ UNCHANGED <<msr, delay, last, flusher, sawOut, stealLeft>>

(* the version becomes odd, the time since the last record is added and remembered, and the *)
(* version becomes even; the thread may be preempted in between.                             *)
StealVersionOdd ==
  /\ where = "loaded" /\ recording = "version" /\ recording' = "steal"
  /\ st' = [st EXCEPT ![msr].version = OddSteal(@)]
  /\ UNCHANGED <<where, msr, preempted, stealUpdate, delay, last, stale, flusher, sawOut, stealLeft>>
AddSteal ==
  /\ where = "loaded" /\ recording = "steal" /\ recording' = "last"
  /\ st' = [st EXCEPT ![msr].steal = Accrued(@)]
  /\ UNCHANGED <<where, msr, preempted, stealUpdate, delay, last, stale, flusher, sawOut, stealLeft>>
RememberDelay ==
  /\ where = "loaded" /\ recording = "last" /\ recording' = "even"
  /\ last' = delay
  /\ UNCHANGED <<where, msr, st, preempted, stealUpdate, delay, stale, flusher, sawOut, stealLeft>>
StealVersionEven ==
  /\ where = "loaded" /\ recording = "even" /\ recording' = "no" /\ where' = "ready"
  /\ st' = [st EXCEPT ![msr].version = EvenSteal(@)]
  /\ UNCHANGED <<msr, preempted, stealUpdate, delay, last, stale, flusher, sawOut, stealLeft>>

(* into the guest, unless an update was asked for since; an interrupt that waited is taken *)
Enter ==
  /\ where = "ready"
  /\ IF stealUpdate THEN where' = "loaded" ELSE where' = "guest"
  /\ UNCHANGED <<recording, msr, st, preempted, stealUpdate, delay, last, stale, flusher, sawOut, stealLeft>>

(* MSR_KVM_STEAL_TIME *)
StealWriteMsr(a) ==
  /\ where = "guest" /\ stealLeft.writes > 0 /\ a # msr
  /\ stealLeft' = [stealLeft EXCEPT !.writes = @ - 1]
  /\ msr' = a /\ stealUpdate' = (stealUpdate \/ a # "off") /\ where' = "loaded"
  /\ UNCHANGED <<recording, st, preempted, delay, last, stale, flusher, sawOut>>

(* without an update to do the loop enters again *)
Loaded ==
  /\ where = "loaded" /\ recording = "no" /\ ~stealUpdate
  /\ where' = "ready"
  /\ UNCHANGED <<recording, msr, st, preempted, stealUpdate, delay, last, stale, flusher, sawOut, stealLeft>>

-----------------------------------------------------------------------------
(* The other virtual CPU: it changes a page table, reads the record, and marks a preempted *)
(* virtual CPU with one compare-and-exchange or interrupts it.                              *)
ChangeTable ==
  /\ flusher = "idle" /\ stealLeft.flushes > 0
  /\ stealLeft' = [stealLeft EXCEPT !.flushes = @ - 1]
  /\ stale' = TRUE /\ flusher' = "changed"
  /\ UNCHANGED <<where, recording, msr, st, preempted, stealUpdate, delay, last, sawOut>>

ReadRecord ==
  /\ flusher = "changed"
  /\ sawOut' = (msr # "off" /\ "PREEMPTED" \in st[msr].flags)
  /\ flusher' = "read"
  /\ UNCHANGED <<where, recording, msr, st, preempted, stealUpdate, delay, last, stale, stealLeft>>

MarkRecord ==
  /\ flusher = "read"
  /\ IF sawOut /\ msr # "off" /\ st[msr].flags = {"PREEMPTED"}
     THEN st' = [st EXCEPT ![msr].flags = @ \cup {"FLUSH"}] /\ flusher' = "idle"
     ELSE flusher' = "ipi" /\ UNCHANGED st
  /\ UNCHANGED <<where, recording, msr, preempted, stealUpdate, delay, last, stale, sawOut, stealLeft>>

TakeIpi ==
  /\ flusher = "ipi" /\ where = "guest"
  /\ stale' = FALSE /\ flusher' = "idle"
  /\ UNCHANGED <<where, recording, msr, st, preempted, stealUpdate, delay, last, sawOut, stealLeft>>

-----------------------------------------------------------------------------
StealNext == \/ kvm_arch_vcpu_load_steal \/ kvm_arch_vcpu_put \/ record_steal_time
             \/ StealVersionOdd \/ AddSteal \/ RememberDelay \/ StealVersionEven \/ Enter \/ Loaded
             \/ \E a \in Areas \cup {"off"} : StealWriteMsr(a)
             \/ ChangeTable \/ ReadRecord \/ MarkRecord \/ TakeIpi

StealSpec == StealInit /\ [][StealNext]_stealVars

-----------------------------------------------------------------------------
(* The state has its types. *)
StealTypeOK ==
  /\ where \in {"out", "loaded", "ready", "guest"} /\ msr \in Areas \cup {"off"}
  /\ st \in [Areas -> [flags : SUBSET {"PREEMPTED", "FLUSH"}, version : 0..(StealVersionMod - 1),
                       steal : 0..2]]

(* After a flush is finished, the virtual CPU never runs on a translation the guest has     *)
(* removed, whether it was marked or interrupted: "Doing a TLB flush here, on the guest's   *)
(* behalf, can avoid expensive IPIs."                                                        *)
NoStaleRun == where = "guest" /\ flusher = "idle" => ~stale

(* The record never says preempted of a virtual CPU that runs: a flush left there would not *)
(* be seen.                                                                                  *)
RunningNotPreempted == where = "guest" /\ msr # "off" => st[msr].flags = {}

(* The version is odd while the steal time is written, also when the thread is preempted there, *)
(* and even whenever the virtual CPU runs, whatever the memory held at first.                    *)
VersionSteady ==
  /\ recording \in {"steal", "last", "even"} => st[msr].version % 2 = 1
  /\ where = "guest" /\ msr # "off" => st[msr].version % 2 = 0

(* No record ever shows more stolen time than the scheduler counted: moving the record does not count time twice. *)
StealCountedOnce ==
  \A a \in Areas : st[a].steal <= IF recording = "last" /\ a = msr THEN delay ELSE last
=============================================================================
