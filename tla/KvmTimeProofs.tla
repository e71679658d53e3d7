--------------------------- MODULE KvmTimeProofs ----------------------------
(***************************************************************************)
(* Proofs about time in kvm/x86.c: the steal time record, the clock page,  *)
(* KVM_SET_CLOCK and the copy of the timekeeper.                           *)
(***************************************************************************)
EXTENDS MCKvmTime, FiniteSetTheorems, TLAPS

-----------------------------------------------------------------------------
(* Steal time.  A record in use carries a mark only while the virtual CPU  *)
(* is held to be preempted, a record not in use carries none, and a        *)
(* translation that may be stale after a finished flush is marked.         *)

Flags(a) == st[a].flags
Even(a) == st[a].version % 2 = 0
Odd(a) == st[a].version % 2 = 1
UpToDate == where = "guest" \/ (where \in {"loaded", "ready"} /\ recording = "no" /\ ~stealUpdate)
Cleared == UpToDate \/ (where = "loaded" /\ ~stealUpdate)
Writing == {"steal", "last", "even"}

StealTypes ==
    /\ StealTypeOK
    /\ preempted \in BOOLEAN /\ stealUpdate \in BOOLEAN /\ stale \in BOOLEAN
    /\ flusher \in {"idle", "changed", "read", "ipi"}
    /\ recording \in {"no", "version"} \cup Writing
    /\ recording # "no" => msr \in Areas /\ msr # "off" /\ where \in {"out", "loaded"}
StealCounts == delay \in 0..2 /\ last \in 0..2 /\ last <= delay /\ StealCountedOnce
StealMarks ==
    /\ where = "guest" => ~stealUpdate
    /\ Cleared /\ msr # "off" => Flags(msr) = {}
    /\ \A a \in Areas : a # msr \/ msr = "off" => Flags(a) = {}
    /\ msr # "off" /\ Flags(msr) # {} => preempted
    /\ flusher = "idle" /\ stale => msr # "off" /\ "FLUSH" \in Flags(msr)
StealVersions ==
    /\ UpToDate /\ msr # "off" => Even(msr)
    /\ recording \in Writing => Odd(msr)
StealInv == StealTypes /\ StealCounts /\ StealMarks /\ StealVersions

(* The invariant implies the properties of the record that record_steal_time and the flush rely on. *)
LEMMA StealInvExact ==
    StealInv => StealTypeOK /\ NoStaleRun /\ RunningNotPreempted /\ VersionSteady /\ StealCountedOnce
BY DEF StealInv, StealTypes, StealCounts, StealMarks, StealVersions, UpToDate, Cleared, Writing, Flags, Even, Odd,
       NoStaleRun, RunningNotPreempted, VersionSteady

(* A virtual CPU starts without a record. *)
LEMMA StealInitInv == StealInit => StealInv
<1> SUFFICES ASSUME StealInit PROVE StealInv
    OBVIOUS
<1>1. StealTypeOK
    BY StealAssumption DEF StealInit, StealTypeOK
<1>2. StealTypes
    BY <1>1 DEF StealInit, StealTypes
<1>3. StealCounts
    BY DEF StealInit, StealCounts, StealCountedOnce
<1>4. StealMarks
    BY DEF StealInit, StealMarks, UpToDate, Cleared, Flags
<1>5. StealVersions
    BY DEF StealInit, StealVersions, Writing
<1> QED
    BY <1>2, <1>3, <1>4, <1>5 DEF StealInv

(* The remainder of an even number by an even number is even. *)
LEMMA EvenRemainder ==
    ASSUME NEW x \in Nat, NEW m \in Nat, m > 0, x % 2 = 0, m % 2 = 0
    PROVE  x % m \in 0..(m - 1) /\ (x % m) % 2 = 0
<1>1. PICK j \in Nat : x = 2 * j
    BY Z3
<1>2. PICK k \in Nat : m = 2 * k
    BY Z3
<1>3. PICK q \in Nat, r \in Nat : x = m * q + r /\ r < m /\ r = x % m
    BY Z3
<1>4. (2 * k) * q = 2 * (k * q) /\ k * q \in Nat
    BY Z3
<1>5. r = 2 * (j - k * q) /\ j - k * q \in Int
    <2> DEFINE p == k * q
    <2>1. p \in Nat /\ m * q = 2 * p
        BY <1>2, <1>4
    <2> HIDE DEF p
    <2>2. 2 * j = 2 * p + r
        BY <1>1, <1>3, <2>1
    <2>3. r = 2 * (j - p)
        BY <2>1, <2>2
    <2> QED
        BY <2>1, <2>3 DEF p
<1> DEFINE d == j - k * q
<1>6. d \in Int /\ r = 2 * d
    BY <1>5
<1> HIDE DEF d
<1>7. r % 2 = 0
    BY <1>6, <1>3, Z3
<1> QED
    BY <1>3, <1>7

(* A number is its quotient times the divisor and the remainder. *)
LEMMA QuotientRemainder ==
    ASSUME NEW x \in Nat, NEW m \in Nat, m > 0
    PROVE  \E q \in Nat, r \in Nat : x = m * q + r /\ r < m /\ r = x % m
BY Z3

(* The odd number record_steal_time and kvm_setup_pvclock_page store next. *)
LEMMA NextOdd == \A n \in Nat : (n % 2 = 1 => (n + 2) % 2 = 1) /\ (n % 2 # 1 => (n + 1) % 2 = 1)
BY Z3

(* The remainder of an odd number by an even number is odd. *)
LEMMA OddRemainder ==
    ASSUME NEW x \in Nat, NEW m \in Nat, m > 0, x % 2 = 1, m % 2 = 0
    PROVE  x % m \in 0..(m - 1) /\ (x % m) % 2 = 1
<1>1. PICK j \in Nat : x = 2 * j + 1
    BY Z3
<1>2. PICK k \in Nat : m = 2 * k
    BY Z3
<1>3. PICK q \in Nat, r \in Nat : x = m * q + r /\ r < m /\ r = x % m
    BY QuotientRemainder
<1>4. (2 * k) * q = 2 * (k * q) /\ k * q \in Nat
    BY Z3
<1> DEFINE p == k * q
<1>5. p \in Nat /\ m * q = 2 * p
    BY <1>2, <1>4
<1> HIDE DEF p
<1>6. 2 * j + 1 = 2 * p + r
    BY <1>1, <1>3, <1>5
<1>7. r = 2 * (j - p) + 1 /\ j - p \in Int
    BY <1>5, <1>6
<1> DEFINE d == j - p
<1>8. d \in Int /\ r = 2 * d + 1
    BY <1>7
<1> HIDE DEF d
<1>9. r % 2 = 1
    BY <1>8, <1>3, Z3
<1> QED
    BY <1>3, <1>9

(* record_steal_time makes the version odd, whatever it found, and then even. *)
LEMMA SteppedOdd ==
    ASSUME NEW n \in 0..(StealVersionMod - 1)
    PROVE  OddSteal(n) \in 0..(StealVersionMod - 1) /\ OddSteal(n) % 2 = 1
<1> DEFINE w == IF n % 2 = 1 THEN n + 2 ELSE n + 1
<1>1. n \in Nat
    BY StealAssumption
<1>2. w \in Nat /\ w % 2 = 1
    BY <1>1, Z3
<1>3. OddSteal(n) = w % StealVersionMod
    BY DEF OddSteal
<1> HIDE DEF w
<1> QED
    BY <1>2, <1>3, OddRemainder, StealAssumption
LEMMA SteppedEven ==
    ASSUME NEW n \in 0..(StealVersionMod - 1), n % 2 = 1
    PROVE  EvenSteal(n) \in 0..(StealVersionMod - 1) /\ EvenSteal(n) % 2 = 0
<1> DEFINE w == n + 1
<1>1. n \in Nat
    BY StealAssumption
<1>2. w \in Nat /\ w % 2 = 0
    BY <1>1, Z3
<1>3. EvenSteal(n) = w % StealVersionMod
    BY DEF EvenSteal
<1> HIDE DEF w
<1> QED
    BY <1>2, <1>3, EvenRemainder, StealAssumption

(* Every step of the virtual CPU and of the one that flushes keeps the invariant. *)
LEMMA StealStepInv == StealInv /\ [StealNext]_stealVars => StealInv'
<1> SUFFICES ASSUME StealInv, [StealNext]_stealVars PROVE StealInv'
    OBVIOUS
<1> USE DEF StealInv, StealTypes, StealTypeOK, StealCounts, StealCountedOnce, StealMarks,
            StealVersions, UpToDate, Cleared, Writing, Flags, Even, Odd
<1>1. CASE kvm_arch_vcpu_load_steal
    BY <1>1 DEF kvm_arch_vcpu_load_steal
<1>2. CASE kvm_arch_vcpu_put
    <2> USE <1>2 DEF kvm_arch_vcpu_put
    <2>1. delay' \in 0..2 /\ last' \in 0..2 /\ last' <= delay' /\ last' = last
        OBVIOUS
    <2>2. CASE UNCHANGED <<st, preempted>>
        BY <2>1, <2>2
    <2>3. CASE ~SkipPreempted /\ st' = [st EXCEPT ![msr].flags = {"PREEMPTED"}] /\ preempted' = TRUE
        <3>1. msr \in Areas /\ Flags(msr) = {} /\ msr # "off"
            BY <2>3 DEF SkipPreempted
        <3>2. st'[msr] = [st[msr] EXCEPT !.flags = {"PREEMPTED"}] /\ \A b \in Areas : b # msr => st'[b] = st[b]
            BY <2>3, <3>1
        <3>3. StealTypeOK'
            BY <2>3, <3>1
        <3>4. StealCounts'
            BY <2>1, <3>1, <3>2
        <3> QED
            BY <2>1, <2>3, <3>1, <3>2, <3>3, <3>4
    <2> QED
        BY <2>2, <2>3
<1>3. CASE record_steal_time
    <2> USE <1>3 DEF record_steal_time
    <2>1. CASE msr = "off"
        BY <2>1
    <2>2. CASE msr # "off"
        <3>1. msr \in Areas /\ st' = [st EXCEPT ![msr].flags = {}] /\ msr' = msr /\ preempted' = FALSE
            BY <2>2 DEF RecordFlags
        <3>2. st'[msr] = [st[msr] EXCEPT !.flags = {}] /\ \A b \in Areas : b # msr => st'[b] = st[b]
            BY <3>1
        <3>3. StealTypeOK'
            BY <2>2, <3>1
        <3>4. StealCounts'
            BY <2>2, <3>1, <3>2
        <3>5. stale' = (stale /\ "FLUSH" \notin Flags(msr)) /\ stale' \in BOOLEAN
            BY <2>2 DEF FlushAsked
        <3>6. ~(flusher = "idle" /\ stale')
            BY <3>5
        <3> QED
            BY <2>2, <3>1, <3>2, <3>3, <3>4, <3>5, <3>6
    <2> QED
        BY <2>1, <2>2
<1>12. CASE StealVersionOdd
    <2> DEFINE n == OddSteal(st[msr].version)
    <2>1. msr \in Areas /\ st[msr].version \in 0..(StealVersionMod - 1)
        BY <1>12 DEF StealVersionOdd
    <2>2. n \in 0..(StealVersionMod - 1) /\ n % 2 = 1
        BY <2>1, SteppedOdd
    <2>3. st' = [st EXCEPT ![msr].version = n]
        BY <1>12 DEF StealVersionOdd
    <2> HIDE DEF n
    <2>4. st'[msr] = [st[msr] EXCEPT !.version = n] /\ \A b \in Areas : b # msr => st'[b] = st[b]
        BY <2>1, <2>3
    <2>5. StealTypeOK' /\ StealCounts'
        BY <1>12, <2>1, <2>2, <2>3, <2>4 DEF StealVersionOdd
    <2> QED
        BY <1>12, <2>1, <2>2, <2>4, <2>5 DEF StealVersionOdd
<1>13. CASE AddSteal
    <2> DEFINE n == st[msr].steal + (delay - last)
    <2>1. msr \in Areas /\ st[msr].steal \in 0..2 /\ st[msr].steal <= last
        BY <1>13 DEF AddSteal
    <2>2. n \in 0..2 /\ n <= delay
        BY <2>1
    <2>3. st' = [st EXCEPT ![msr].steal = n]
        BY <1>13 DEF AddSteal, Accrued
    <2> HIDE DEF n
    <2>4. st'[msr] = [st[msr] EXCEPT !.steal = n] /\ \A b \in Areas : b # msr => st'[b] = st[b]
        BY <2>1, <2>3
    <2>5. StealTypeOK' /\ StealCounts'
        BY <1>13, <2>1, <2>2, <2>3, <2>4 DEF AddSteal
    <2> QED
        BY <1>13, <2>1, <2>2, <2>4, <2>5 DEF AddSteal
<1>14. CASE RememberDelay
    BY <1>14 DEF RememberDelay
<1>15. CASE StealVersionEven
    <2> DEFINE n == EvenSteal(st[msr].version)
    <2>1. msr \in Areas /\ st[msr].version \in 0..(StealVersionMod - 1) /\ st[msr].version % 2 = 1
        BY <1>15 DEF StealVersionEven
    <2>2. n \in 0..(StealVersionMod - 1) /\ n % 2 = 0
        BY <2>1, SteppedEven
    <2>3. st' = [st EXCEPT ![msr].version = n]
        BY <1>15 DEF StealVersionEven
    <2> HIDE DEF n
    <2>4. st'[msr] = [st[msr] EXCEPT !.version = n] /\ \A b \in Areas : b # msr => st'[b] = st[b]
        BY <2>1, <2>3
    <2>5. StealTypeOK' /\ StealCounts'
        BY <1>15, <2>1, <2>2, <2>3, <2>4 DEF StealVersionEven
    <2> QED
        BY <1>15, <2>1, <2>2, <2>4, <2>5 DEF StealVersionEven
<1>4. CASE Enter
    BY <1>4 DEF Enter
<1>5. CASE Loaded
    BY <1>5 DEF Loaded
<1>6. ASSUME NEW b \in Areas \cup {"off"}, StealWriteMsr(b) PROVE StealInv'
    BY <1>6 DEF StealWriteMsr
<1>7. CASE ChangeTable
    BY <1>7 DEF ChangeTable
<1>8. CASE ReadRecord
    BY <1>8 DEF ReadRecord
<1>9. CASE MarkRecord
    BY <1>9 DEF MarkRecord
<1>10. CASE TakeIpi
    BY <1>10 DEF TakeIpi
<1>11. CASE UNCHANGED stealVars
    BY <1>11 DEF stealVars
<1> QED
    BY <1>1, <1>2, <1>3, <1>4, <1>5, <1>6, <1>7, <1>8, <1>9, <1>10, <1>11, <1>12, <1>13, <1>14, <1>15 DEF StealNext

-----------------------------------------------------------------------------
(* The clock page.  An update by one virtual CPU alone keeps every other   *)
(* out of the guest from the moment the master copy changes until each was *)
(* asked to renew its page; so a page is current, or a request or the      *)
(* update itself stands for it.  Two updates at once break this, and the   *)
(* next one alone restores it.                                             *)

Threads == {"host", "inprogress", "copied", "asked", "version", "tsc", "second", "even", "guest"}
UpdateSteps == {"inprogress", "copied", "asked"}
PageRecord == [version : Nat, tsc : Nat, time : Nat, stopped : BOOLEAN]
EvenPage(c) == page[c].version % 2 = 0
Holds(c, n) == page[c].tsc = n /\ page[c].time = n
Outstanding(c) == "CLOCK" \in clockRequests[c]
Renewed == \E d \in ClockVcpus : clockPc[d] = "copied"

ClockTypes ==
    /\ clockMaster \in Nat /\ clockPc \in [ClockVcpus -> Threads]
    /\ clockRequests \in [ClockVcpus -> SUBSET {"CLOCK", "MASTERCLOCK", "INPROGRESS"}]
    /\ ipi \subseteq ClockVcpus
    /\ page \in [ClockVcpus -> PageRecord] /\ clockCopy \in [ClockVcpus -> Nat]
UpdateExcludes ==
    crowded # "yes" => \A c \in ClockVcpus : clockPc[c] \in UpdateSteps =>
        \A d \in ClockVcpus :
            /\ clockPc[d] \in UpdateSteps => c = d
            /\ "INPROGRESS" \in clockRequests[d]
            /\ clockPc[c] = "inprogress" /\ clockPc[d] = "guest" => d \in ipi
            /\ clockPc[c] # "inprogress" => clockPc[d] # "guest"
PageCurrent(c) ==
    crowded = "no" =>
    /\ clockPc[c] = "guest" => Holds(c, clockMaster)
    /\ clockPc[c] \in UpdateSteps \cup {"host"} =>
         Outstanding(c) \/ Holds(c, clockMaster) \/ Renewed
    /\ clockPc[c] \in {"version", "tsc", "second", "even"} =>
         Outstanding(c) \/ clockCopy[c] = clockMaster \/ Renewed
PageSequence(c) ==
    /\ clockPc[c] \in {"tsc", "second", "even"} => page[c].version % 2 = 1
    /\ clockPc[c] = "guest" => EvenPage(c)
    /\ clockPc[c] \in UpdateSteps \cup {"host"} => Outstanding(c) \/ EvenPage(c)
    /\ clockPc[c] = "even" => Holds(c, clockCopy[c])
    /\ clockPc[c] # "second" => page[c].tsc = page[c].time
ReaderFollows ==
    /\ reader.state # "idle" =>
         /\ reader.of \in ClockVcpus /\ reader.version \in Nat /\ reader.version % 2 = 0
         /\ reader.version <= page[reader.of].version
    /\ reader.state \in {"time", "again"} /\ reader.version = page[reader.of].version =>
         reader.tsc = page[reader.of].tsc
    /\ reader.state = "again" /\ reader.version = page[reader.of].version =>
         reader.time = page[reader.of].time
    /\ ReadersConsistent
PauseTold ==
    /\ clockPaused \in [ClockVcpus -> BOOLEAN] /\ stopped \in [ClockVcpus -> BOOLEAN]
    /\ StoppedIsTold
ClockInv ==
    /\ ClockTypes /\ UpdateExcludes /\ ReaderFollows /\ PauseTold
    /\ \A c \in ClockVcpus : PageCurrent(c) /\ PageSequence(c)

(* Every step keeps the types. *)
LEMMA ClockStepTypes == ClockInv /\ [ClockNext]_clockVars => ClockTypes'
<1> SUFFICES ASSUME ClockInv, [ClockNext]_clockVars PROVE ClockTypes'
    OBVIOUS
<1> USE DEF ClockInv, ClockTypes, Threads, PageRecord
<1>1. ASSUME NEW e \in ClockVcpus, AskUpdate(e) PROVE ClockTypes'
    BY <1>1 DEF AskUpdate, ClockRequest
<1>2. ASSUME NEW e \in ClockVcpus, BeginUpdate(e) PROVE ClockTypes'
    BY <1>2 DEF BeginUpdate, Kicked, InGuest
<1>3. ASSUME NEW e \in ClockVcpus, TakeMaster(e) PROVE ClockTypes'
    BY <1>3 DEF TakeMaster
<1>4. ASSUME NEW e \in ClockVcpus, AskClocks(e) PROVE ClockTypes'
    BY <1>4 DEF AskClocks, ClockRequest, Asked
<1>5. ASSUME NEW e \in ClockVcpus, EndUpdate(e) PROVE ClockTypes'
    BY <1>5 DEF EndUpdate, Clear
<1>6. ASSUME NEW e \in ClockVcpus, kvm_guest_time_update_clock(e) PROVE ClockTypes'
    BY <1>6 DEF kvm_guest_time_update_clock, Clear
<1>7. ASSUME NEW e \in ClockVcpus, ClockWriteVersion(e) PROVE ClockTypes'
    BY <1>7 DEF ClockWriteVersion, OddVersion
<1>8. ASSUME NEW e \in ClockVcpus, NEW f \in {"tsc", "time"}, WritePair(e, f) PROVE ClockTypes'
    BY <1>8 DEF WritePair, Retained
<1>9. ASSUME NEW e \in ClockVcpus, WriteSecond(e) PROVE ClockTypes'
    BY <1>9 DEF WriteSecond
<1>10. ASSUME NEW e \in ClockVcpus, WriteEven(e) PROVE ClockTypes'
    BY <1>10 DEF WriteEven
<1>11. ASSUME NEW e \in ClockVcpus, ClockEnterGuest(e) PROVE ClockTypes'
    BY <1>11 DEF ClockEnterGuest, MayEnter
<1>12. ASSUME NEW e \in ClockVcpus, ClockExitGuest(e) PROVE ClockTypes'
    BY <1>12 DEF ClockExitGuest
<1>13. ASSUME NEW e \in ClockVcpus, kvm_gen_kvmclock_update(e) PROVE ClockTypes'
    BY <1>13 DEF kvm_gen_kvmclock_update, ClockRequest
<1>14. ASSUME NEW e \in ClockVcpus, kvm_set_guest_paused_clock(e) PROVE ClockTypes'
    BY <1>14 DEF kvm_set_guest_paused_clock, ClockRequest
<1>15. ASSUME NEW e \in ClockVcpus, SeeStopped(e) PROVE ClockTypes'
    BY <1>15 DEF SeeStopped
<1>16. ASSUME NEW e \in ClockVcpus, ClockReadVersion(e) PROVE ClockTypes'
    BY <1>16 DEF ClockReadVersion
<1>17. CASE kvmclock_update_fn
    BY <1>17 DEF kvmclock_update_fn, ClockRequest, InGuest
<1>18. CASE kvmclock_sync_fn
    BY <1>18 DEF kvmclock_sync_fn
<1>19. CASE ClockReadTsc
    BY <1>19 DEF ClockReadTsc
<1>20. CASE ReadTime
    BY <1>20 DEF ReadTime
<1>21. CASE ClockReadAgain
    BY <1>21 DEF ClockReadAgain
<1>22. CASE UNCHANGED clockVars
    BY <1>22 DEF clockVars
<1> QED
    BY <1>1, <1>2, <1>3, <1>4, <1>5, <1>6, <1>7, <1>8, <1>9, <1>10, <1>11, <1>12, <1>13, <1>14, <1>15, <1>16, <1>17, <1>18, <1>19, <1>20, <1>21, <1>22 DEF ClockNext

(* Every step keeps the virtual CPUs out of the guest while the master clock is being updated. *)
LEMMA ClockStepExcludes == ClockInv /\ [ClockNext]_clockVars => UpdateExcludes'
<1> SUFFICES ASSUME ClockInv, [ClockNext]_clockVars PROVE UpdateExcludes'
    OBVIOUS
<1> USE DEF ClockInv, ClockTypes, Threads, UpdateExcludes, UpdateSteps
<1>1. ASSUME NEW e \in ClockVcpus, AskUpdate(e) PROVE UpdateExcludes'
    BY <1>1 DEF AskUpdate, ClockRequest
<1>2. ASSUME NEW e \in ClockVcpus, BeginUpdate(e) PROVE UpdateExcludes'
    <2>1. CASE Updating # {}
        BY <1>2, <2>1 DEF BeginUpdate
    <2>2. CASE Updating = {}
        <3>1. \A d \in ClockVcpus : clockPc[d] \notin UpdateSteps
            BY <2>2 DEF Updating
        <3> QED
            BY <1>2, <3>1 DEF BeginUpdate, Kicked, InGuest
    <2> QED
        BY <2>1, <2>2
<1>3. ASSUME NEW e \in ClockVcpus, TakeMaster(e) PROVE UpdateExcludes'
    BY <1>3 DEF TakeMaster
<1>4. ASSUME NEW e \in ClockVcpus, AskClocks(e) PROVE UpdateExcludes'
    BY <1>4 DEF AskClocks, ClockRequest, Asked
<1>5. ASSUME NEW e \in ClockVcpus, EndUpdate(e) PROVE UpdateExcludes'
    BY <1>5 DEF EndUpdate, Clear
<1>6. ASSUME NEW e \in ClockVcpus, kvm_guest_time_update_clock(e) PROVE UpdateExcludes'
    BY <1>6 DEF kvm_guest_time_update_clock, Clear
<1>7. ASSUME NEW e \in ClockVcpus, ClockWriteVersion(e) PROVE UpdateExcludes'
    BY <1>7 DEF ClockWriteVersion, OddVersion
<1>8. ASSUME NEW e \in ClockVcpus, NEW f \in {"tsc", "time"}, WritePair(e, f) PROVE UpdateExcludes'
    BY <1>8 DEF WritePair, Retained
<1>9. ASSUME NEW e \in ClockVcpus, WriteSecond(e) PROVE UpdateExcludes'
    BY <1>9 DEF WriteSecond
<1>10. ASSUME NEW e \in ClockVcpus, WriteEven(e) PROVE UpdateExcludes'
    BY <1>10 DEF WriteEven
<1>11. ASSUME NEW e \in ClockVcpus, ClockEnterGuest(e) PROVE UpdateExcludes'
    BY <1>11 DEF ClockEnterGuest, MayEnter
<1>12. ASSUME NEW e \in ClockVcpus, ClockExitGuest(e) PROVE UpdateExcludes'
    BY <1>12 DEF ClockExitGuest
<1>13. ASSUME NEW e \in ClockVcpus, kvm_gen_kvmclock_update(e) PROVE UpdateExcludes'
    BY <1>13 DEF kvm_gen_kvmclock_update, ClockRequest
<1>14. ASSUME NEW e \in ClockVcpus, kvm_set_guest_paused_clock(e) PROVE UpdateExcludes'
    BY <1>14 DEF kvm_set_guest_paused_clock, ClockRequest
<1>15. ASSUME NEW e \in ClockVcpus, SeeStopped(e) PROVE UpdateExcludes'
    BY <1>15 DEF SeeStopped
<1>16. ASSUME NEW e \in ClockVcpus, ClockReadVersion(e) PROVE UpdateExcludes'
    BY <1>16 DEF ClockReadVersion
<1>17. CASE kvmclock_update_fn
    BY <1>17 DEF kvmclock_update_fn, ClockRequest, InGuest
<1>18. CASE kvmclock_sync_fn
    BY <1>18 DEF kvmclock_sync_fn
<1>19. CASE ClockReadTsc
    BY <1>19 DEF ClockReadTsc
<1>20. CASE ReadTime
    BY <1>20 DEF ReadTime
<1>21. CASE ClockReadAgain
    BY <1>21 DEF ClockReadAgain
<1>22. CASE UNCHANGED clockVars
    BY <1>22 DEF clockVars
<1> QED
    BY <1>1, <1>2, <1>3, <1>4, <1>5, <1>6, <1>7, <1>8, <1>9, <1>10, <1>11, <1>12, <1>13, <1>14, <1>15, <1>16, <1>17, <1>18, <1>19, <1>20, <1>21, <1>22 DEF ClockNext

(* Every step keeps what a reader holds on the page while the version stands. *)
LEMMA ClockStepReader == ClockInv /\ [ClockNext]_clockVars => ReaderFollows'
<1> SUFFICES ASSUME ClockInv, [ClockNext]_clockVars PROVE ReaderFollows'
    OBVIOUS
<1> USE DEF ClockInv, ClockTypes, PageRecord, PageSequence, ReaderFollows, ReadersConsistent
<1>1. ASSUME NEW e \in ClockVcpus, AskUpdate(e) PROVE ReaderFollows'
    BY <1>1 DEF AskUpdate, ClockRequest
<1>2. ASSUME NEW e \in ClockVcpus, BeginUpdate(e) PROVE ReaderFollows'
    BY <1>2 DEF BeginUpdate, Kicked, InGuest
<1>3. ASSUME NEW e \in ClockVcpus, TakeMaster(e) PROVE ReaderFollows'
    BY <1>3 DEF TakeMaster
<1>4. ASSUME NEW e \in ClockVcpus, AskClocks(e) PROVE ReaderFollows'
    BY <1>4 DEF AskClocks, ClockRequest, Asked
<1>5. ASSUME NEW e \in ClockVcpus, EndUpdate(e) PROVE ReaderFollows'
    BY <1>5 DEF EndUpdate, Clear
<1>6. ASSUME NEW e \in ClockVcpus, kvm_guest_time_update_clock(e) PROVE ReaderFollows'
    BY <1>6 DEF kvm_guest_time_update_clock, Clear
<1>7. ASSUME NEW e \in ClockVcpus, ClockWriteVersion(e) PROVE ReaderFollows'
    BY <1>7 DEF ClockWriteVersion, OddVersion
<1>8. ASSUME NEW e \in ClockVcpus, NEW f \in {"tsc", "time"}, WritePair(e, f) PROVE ReaderFollows'
    <2>1. page'[e].version = page[e].version /\ page[e].version % 2 = 1
        BY <1>8 DEF WritePair
    <2>2. reader' = reader /\ accepted' = accepted /\ \A d \in ClockVcpus : d # e => page'[d] = page[d]
        BY <1>8 DEF WritePair
    <2>3. CASE reader.state = "idle"
        BY <2>2, <2>3
    <2>4. CASE reader.state # "idle" /\ reader.of # e
        BY <2>2, <2>4
    <2>5. CASE reader.state # "idle" /\ reader.of = e
        BY <2>1, <2>2, <2>5
    <2> QED
        BY <2>3, <2>4, <2>5
<1>9. ASSUME NEW e \in ClockVcpus, WriteSecond(e) PROVE ReaderFollows'
    BY <1>9 DEF WriteSecond
<1>10. ASSUME NEW e \in ClockVcpus, WriteEven(e) PROVE ReaderFollows'
    BY <1>10 DEF WriteEven
<1>11. ASSUME NEW e \in ClockVcpus, ClockEnterGuest(e) PROVE ReaderFollows'
    BY <1>11 DEF ClockEnterGuest, MayEnter
<1>12. ASSUME NEW e \in ClockVcpus, ClockExitGuest(e) PROVE ReaderFollows'
    BY <1>12 DEF ClockExitGuest
<1>13. ASSUME NEW e \in ClockVcpus, kvm_gen_kvmclock_update(e) PROVE ReaderFollows'
    BY <1>13 DEF kvm_gen_kvmclock_update, ClockRequest
<1>14. ASSUME NEW e \in ClockVcpus, kvm_set_guest_paused_clock(e) PROVE ReaderFollows'
    BY <1>14 DEF kvm_set_guest_paused_clock, ClockRequest
<1>15. ASSUME NEW e \in ClockVcpus, SeeStopped(e) PROVE ReaderFollows'
    BY <1>15 DEF SeeStopped
<1>16. ASSUME NEW e \in ClockVcpus, ClockReadVersion(e) PROVE ReaderFollows'
    BY <1>16 DEF ClockReadVersion
<1>17. CASE kvmclock_update_fn
    BY <1>17 DEF kvmclock_update_fn, ClockRequest, InGuest
<1>18. CASE kvmclock_sync_fn
    BY <1>18 DEF kvmclock_sync_fn
<1>19. CASE ClockReadTsc
    BY <1>19 DEF ClockReadTsc
<1>20. CASE ReadTime
    BY <1>20 DEF ReadTime
<1>21. CASE ClockReadAgain
    BY <1>21 DEF ClockReadAgain
<1>22. CASE UNCHANGED clockVars
    BY <1>22 DEF clockVars
<1> QED
    BY <1>1, <1>2, <1>3, <1>4, <1>5, <1>6, <1>7, <1>8, <1>9, <1>10, <1>11, <1>12, <1>13, <1>14, <1>15, <1>16, <1>17, <1>18, <1>19, <1>20, <1>21, <1>22 DEF ClockNext

(* Every step keeps a stop on its way to the guest. *)
LEMMA ClockStepTold == ClockInv /\ [ClockNext]_clockVars => PauseTold'
<1> SUFFICES ASSUME ClockInv, [ClockNext]_clockVars PROVE PauseTold'
    OBVIOUS
<1> USE DEF ClockInv, ClockTypes, PageRecord, PauseTold, StoppedIsTold
<1>1. ASSUME NEW e \in ClockVcpus, AskUpdate(e) PROVE PauseTold'
    BY <1>1 DEF AskUpdate, ClockRequest
<1>2. ASSUME NEW e \in ClockVcpus, BeginUpdate(e) PROVE PauseTold'
    BY <1>2 DEF BeginUpdate, Kicked, InGuest
<1>3. ASSUME NEW e \in ClockVcpus, TakeMaster(e) PROVE PauseTold'
    BY <1>3 DEF TakeMaster
<1>4. ASSUME NEW e \in ClockVcpus, AskClocks(e) PROVE PauseTold'
    BY <1>4 DEF AskClocks, ClockRequest, Asked
<1>5. ASSUME NEW e \in ClockVcpus, EndUpdate(e) PROVE PauseTold'
    BY <1>5 DEF EndUpdate, Clear
<1>6. ASSUME NEW e \in ClockVcpus, kvm_guest_time_update_clock(e) PROVE PauseTold'
    BY <1>6 DEF kvm_guest_time_update_clock, Clear
<1>7. ASSUME NEW e \in ClockVcpus, ClockWriteVersion(e) PROVE PauseTold'
    BY <1>7 DEF ClockWriteVersion, OddVersion
<1>8. ASSUME NEW e \in ClockVcpus, NEW f \in {"tsc", "time"}, WritePair(e, f) PROVE PauseTold'
    BY <1>8 DEF WritePair, Retained
<1>9. ASSUME NEW e \in ClockVcpus, WriteSecond(e) PROVE PauseTold'
    BY <1>9 DEF WriteSecond
<1>10. ASSUME NEW e \in ClockVcpus, WriteEven(e) PROVE PauseTold'
    BY <1>10 DEF WriteEven
<1>11. ASSUME NEW e \in ClockVcpus, ClockEnterGuest(e) PROVE PauseTold'
    BY <1>11 DEF ClockEnterGuest, MayEnter
<1>12. ASSUME NEW e \in ClockVcpus, ClockExitGuest(e) PROVE PauseTold'
    BY <1>12 DEF ClockExitGuest
<1>13. ASSUME NEW e \in ClockVcpus, kvm_gen_kvmclock_update(e) PROVE PauseTold'
    BY <1>13 DEF kvm_gen_kvmclock_update, ClockRequest
<1>14. ASSUME NEW e \in ClockVcpus, kvm_set_guest_paused_clock(e) PROVE PauseTold'
    BY <1>14 DEF kvm_set_guest_paused_clock, ClockRequest
<1>15. ASSUME NEW e \in ClockVcpus, SeeStopped(e) PROVE PauseTold'
    BY <1>15 DEF SeeStopped
<1>16. ASSUME NEW e \in ClockVcpus, ClockReadVersion(e) PROVE PauseTold'
    BY <1>16 DEF ClockReadVersion
<1>17. CASE kvmclock_update_fn
    BY <1>17 DEF kvmclock_update_fn, ClockRequest, InGuest
<1>18. CASE kvmclock_sync_fn
    BY <1>18 DEF kvmclock_sync_fn
<1>19. CASE ClockReadTsc
    BY <1>19 DEF ClockReadTsc
<1>20. CASE ReadTime
    BY <1>20 DEF ReadTime
<1>21. CASE ClockReadAgain
    BY <1>21 DEF ClockReadAgain
<1>22. CASE UNCHANGED clockVars
    BY <1>22 DEF clockVars
<1> QED
    BY <1>1, <1>2, <1>3, <1>4, <1>5, <1>6, <1>7, <1>8, <1>9, <1>10, <1>11, <1>12, <1>13, <1>14, <1>15, <1>16, <1>17, <1>18, <1>19, <1>20, <1>21, <1>22 DEF ClockNext


(* Every step keeps the order in which a page is written. *)
LEMMA ClockStepSequence ==
    ASSUME NEW c \in ClockVcpus PROVE ClockInv /\ [ClockNext]_clockVars => PageSequence(c)'
<1> SUFFICES ASSUME ClockInv, [ClockNext]_clockVars PROVE PageSequence(c)'
    OBVIOUS
<1> USE DEF ClockInv, ClockTypes, Threads, PageRecord, PageSequence, Holds, EvenPage, Outstanding, UpdateSteps
<1>1. ASSUME NEW e \in ClockVcpus, AskUpdate(e) PROVE PageSequence(c)'
    BY <1>1 DEF AskUpdate, ClockRequest
<1>2. ASSUME NEW e \in ClockVcpus, BeginUpdate(e) PROVE PageSequence(c)'
    BY <1>2 DEF BeginUpdate, Kicked, InGuest
<1>3. ASSUME NEW e \in ClockVcpus, TakeMaster(e) PROVE PageSequence(c)'
    BY <1>3 DEF TakeMaster
<1>4. ASSUME NEW e \in ClockVcpus, AskClocks(e) PROVE PageSequence(c)'
    BY <1>4 DEF AskClocks, ClockRequest, Asked
<1>5. ASSUME NEW e \in ClockVcpus, EndUpdate(e) PROVE PageSequence(c)'
    BY <1>5 DEF EndUpdate, Clear
<1>6. ASSUME NEW e \in ClockVcpus, kvm_guest_time_update_clock(e) PROVE PageSequence(c)'
    BY <1>6 DEF kvm_guest_time_update_clock, Clear
<1>7. ASSUME NEW e \in ClockVcpus, ClockWriteVersion(e) PROVE PageSequence(c)'
    <2>2. OddVersion(page[e]) % 2 = 1
        BY NextOdd DEF OddVersion
    <2> QED
        BY <1>7, <2>2 DEF ClockWriteVersion
<1>8. ASSUME NEW e \in ClockVcpus, NEW f \in {"tsc", "time"}, WritePair(e, f) PROVE PageSequence(c)'
    BY <1>8 DEF WritePair, Retained
<1>9. ASSUME NEW e \in ClockVcpus, WriteSecond(e) PROVE PageSequence(c)'
    BY <1>9 DEF WriteSecond
<1>10. ASSUME NEW e \in ClockVcpus, WriteEven(e) PROVE PageSequence(c)'
    BY <1>10 DEF WriteEven
<1>11. ASSUME NEW e \in ClockVcpus, ClockEnterGuest(e) PROVE PageSequence(c)'
    BY <1>11 DEF ClockEnterGuest, MayEnter
<1>12. ASSUME NEW e \in ClockVcpus, ClockExitGuest(e) PROVE PageSequence(c)'
    BY <1>12 DEF ClockExitGuest
<1>13. ASSUME NEW e \in ClockVcpus, kvm_gen_kvmclock_update(e) PROVE PageSequence(c)'
    BY <1>13 DEF kvm_gen_kvmclock_update, ClockRequest
<1>14. ASSUME NEW e \in ClockVcpus, kvm_set_guest_paused_clock(e) PROVE PageSequence(c)'
    BY <1>14 DEF kvm_set_guest_paused_clock, ClockRequest
<1>15. ASSUME NEW e \in ClockVcpus, SeeStopped(e) PROVE PageSequence(c)'
    BY <1>15 DEF SeeStopped
<1>16. ASSUME NEW e \in ClockVcpus, ClockReadVersion(e) PROVE PageSequence(c)'
    BY <1>16 DEF ClockReadVersion
<1>17. CASE kvmclock_update_fn
    BY <1>17 DEF kvmclock_update_fn, ClockRequest, InGuest
<1>18. CASE kvmclock_sync_fn
    BY <1>18 DEF kvmclock_sync_fn
<1>19. CASE ClockReadTsc
    BY <1>19 DEF ClockReadTsc
<1>20. CASE ReadTime
    BY <1>20 DEF ReadTime
<1>21. CASE ClockReadAgain
    BY <1>21 DEF ClockReadAgain
<1>22. CASE UNCHANGED clockVars
    BY <1>22 DEF clockVars
<1> QED
    BY <1>1, <1>2, <1>3, <1>4, <1>5, <1>6, <1>7, <1>8, <1>9, <1>10, <1>11, <1>12, <1>13, <1>14, <1>15, <1>16, <1>17, <1>18, <1>19, <1>20, <1>21, <1>22 DEF ClockNext

(* Every step leaves a page current, or a request or an update behind that renews it. *)
LEMMA ClockStepCurrent ==
    ASSUME NEW c \in ClockVcpus PROVE ClockInv /\ [ClockNext]_clockVars => PageCurrent(c)'
<1> SUFFICES ASSUME ClockInv, [ClockNext]_clockVars PROVE PageCurrent(c)'
    OBVIOUS
<1> USE DEF ClockInv, ClockTypes, Threads, PageRecord, UpdateExcludes, UpdateSteps, PageCurrent, PageSequence, EvenPage, Holds, Outstanding, Renewed
<1>1. ASSUME NEW e \in ClockVcpus, AskUpdate(e) PROVE PageCurrent(c)'
    BY <1>1 DEF AskUpdate, ClockRequest
<1>2. ASSUME NEW e \in ClockVcpus, BeginUpdate(e) PROVE PageCurrent(c)'
    BY <1>2 DEF BeginUpdate, Kicked, InGuest
<1>3. ASSUME NEW e \in ClockVcpus, TakeMaster(e) PROVE PageCurrent(c)'
    <2> SUFFICES ASSUME crowded' = "no" PROVE PageCurrent(c)'
        OBVIOUS
    <2>1. crowded # "yes" /\ clockPc[e] = "inprogress" /\ ipi = {}
        BY <1>3 DEF TakeMaster
    <2>2. clockPc[c] # "guest"
        BY <2>1
    <2> QED
        BY <1>3, <2>2 DEF TakeMaster
<1>4. ASSUME NEW e \in ClockVcpus, AskClocks(e) PROVE PageCurrent(c)'
    BY <1>4 DEF AskClocks, ClockRequest, Asked
<1>5. ASSUME NEW e \in ClockVcpus, EndUpdate(e) PROVE PageCurrent(c)'
    BY <1>5 DEF EndUpdate, Clear
<1>6. ASSUME NEW e \in ClockVcpus, kvm_guest_time_update_clock(e) PROVE PageCurrent(c)'
    BY <1>6 DEF kvm_guest_time_update_clock, Clear
<1>7. ASSUME NEW e \in ClockVcpus, ClockWriteVersion(e) PROVE PageCurrent(c)'
    BY <1>7 DEF ClockWriteVersion, OddVersion
<1>8. ASSUME NEW e \in ClockVcpus, NEW f \in {"tsc", "time"}, WritePair(e, f) PROVE PageCurrent(c)'
    BY <1>8 DEF WritePair, Retained
<1>9. ASSUME NEW e \in ClockVcpus, WriteSecond(e) PROVE PageCurrent(c)'
    BY <1>9 DEF WriteSecond
<1>10. ASSUME NEW e \in ClockVcpus, WriteEven(e) PROVE PageCurrent(c)'
    BY <1>10 DEF WriteEven
<1>11. ASSUME NEW e \in ClockVcpus, ClockEnterGuest(e) PROVE PageCurrent(c)'
    BY <1>11 DEF ClockEnterGuest, MayEnter
<1>12. ASSUME NEW e \in ClockVcpus, ClockExitGuest(e) PROVE PageCurrent(c)'
    BY <1>12 DEF ClockExitGuest
<1>13. ASSUME NEW e \in ClockVcpus, kvm_gen_kvmclock_update(e) PROVE PageCurrent(c)'
    BY <1>13 DEF kvm_gen_kvmclock_update, ClockRequest
<1>14. ASSUME NEW e \in ClockVcpus, kvm_set_guest_paused_clock(e) PROVE PageCurrent(c)'
    BY <1>14 DEF kvm_set_guest_paused_clock, ClockRequest
<1>15. ASSUME NEW e \in ClockVcpus, SeeStopped(e) PROVE PageCurrent(c)'
    BY <1>15 DEF SeeStopped
<1>16. ASSUME NEW e \in ClockVcpus, ClockReadVersion(e) PROVE PageCurrent(c)'
    BY <1>16 DEF ClockReadVersion
<1>17. CASE kvmclock_update_fn
    BY <1>17 DEF kvmclock_update_fn, ClockRequest, InGuest
<1>18. CASE kvmclock_sync_fn
    BY <1>18 DEF kvmclock_sync_fn
<1>19. CASE ClockReadTsc
    BY <1>19 DEF ClockReadTsc
<1>20. CASE ReadTime
    BY <1>20 DEF ReadTime
<1>21. CASE ClockReadAgain
    BY <1>21 DEF ClockReadAgain
<1>22. CASE UNCHANGED clockVars
    BY <1>22 DEF clockVars
<1> QED
    BY <1>1, <1>2, <1>3, <1>4, <1>5, <1>6, <1>7, <1>8, <1>9, <1>10, <1>11, <1>12, <1>13, <1>14, <1>15, <1>16, <1>17, <1>18, <1>19, <1>20, <1>21, <1>22 DEF ClockNext

(* Guest memory starts with any version; every page has its first update outstanding. *)
LEMMA ClockInitInv == ClockInit => ClockInv
<1> SUFFICES ASSUME ClockInit PROVE ClockInv
    OBVIOUS
<1> USE DEF ClockInit
<1>1. ClockTypes
    <2>1. page \in [ClockVcpus -> PageRecord]
        <3>1. ASSUME NEW p \in [version : 0..1, tsc : {0}, time : {0}, stopped : {FALSE}] PROVE p \in PageRecord
            <4>1. p.version \in Nat /\ p.tsc \in Nat /\ p.time \in Nat
                BY SMT
            <4>2. p.stopped \in {FALSE}
                OBVIOUS
            <4>3. p.stopped \in BOOLEAN
                BY <4>2, Zenon
            <4>4. p = [version |-> p.version, tsc |-> p.tsc, time |-> p.time, stopped |-> p.stopped]
                OBVIOUS
            <4> QED
                BY <4>1, <4>3, <4>4 DEF PageRecord
        <3> QED
            BY <3>1
    <2> QED
        BY <2>1 DEF ClockTypes, Threads
<1>2. UpdateExcludes /\ ReaderFollows /\ PauseTold
    BY DEF UpdateExcludes, UpdateSteps, ReaderFollows, ReadersConsistent, PauseTold, StoppedIsTold
<1>3. \A c \in ClockVcpus : PageCurrent(c) /\ PageSequence(c)
    BY DEF PageCurrent, PageSequence, Outstanding, UpdateSteps
<1> QED
    BY <1>1, <1>2, <1>3 DEF ClockInv

(* Every step keeps the invariant. *)
LEMMA ClockStepInv == ClockInv /\ [ClockNext]_clockVars => ClockInv'
<1> SUFFICES ASSUME ClockInv, [ClockNext]_clockVars PROVE ClockInv'
    OBVIOUS
<1>1. ClockTypes' /\ UpdateExcludes' /\ ReaderFollows' /\ PauseTold'
    BY ClockStepTypes, ClockStepExcludes, ClockStepReader, ClockStepTold
<1>2. ASSUME NEW c \in ClockVcpus PROVE PageCurrent(c)' /\ PageSequence(c)'
    BY ClockStepCurrent, ClockStepSequence
<1> QED
    BY <1>1, <1>2 DEF ClockInv

(* The invariant implies what the guests rely on. *)
LEMMA ClockInvExact ==
    ClockInv => ClockTypeOK /\ OneCopyVisible /\ ReadersConsistent /\ StoppedIsTold
<1> SUFFICES ASSUME ClockInv PROVE ClockTypeOK /\ OneCopyVisible /\ ReadersConsistent /\ StoppedIsTold
    OBVIOUS
<1>1. ClockTypeOK
    BY DEF ClockInv, ClockTypes, PageCurrent, PageSequence, EvenPage, ClockTypeOK
<1>2. OneCopyVisible
    BY DEF ClockInv, PageCurrent, Holds, OneCopyVisible, SameCopy, InGuest
<1> QED
    BY <1>1, <1>2 DEF ClockInv, ReaderFollows, PauseTold

-----------------------------------------------------------------------------
(* KVM_SET_CLOCK.  The clock starts at a moment of the call that set it,   *)
(* a clock page is on the line of the present offset unless its virtual    *)
(* CPU has an update outstanding, and while the offset is being set every  *)
(* virtual CPU has one.                                                    *)

SetClockTypes ==
    /\ setClockNow \in Nat /\ setClockMaster \in [use : BOOLEAN, ns : Nat] /\ setClockOffset \in Int
    /\ spc \in {"idle", "offset", "request"} /\ user \in Nat /\ set \in [clock : Nat, from : Nat, to : Nat]
    /\ setClockRequests \subseteq SetClockVcpus /\ running \subseteq SetClockVcpus
    /\ hv \in [SetClockVcpus -> [tsc : Nat, time : Int]]
StartsInCall ==
    /\ setClockMaster.ns <= setClockNow /\ set.from <= setClockNow /\ set.to <= setClockNow
    /\ spc = "offset" => user = set.clock /\ (setClockMaster.use => set.from <= setClockMaster.ns)
    /\ spc # "offset" => set.from <= set.clock - setClockOffset /\ set.clock - setClockOffset <= set.to
NotBeforeZero ==
    /\ setClockNow + setClockOffset >= 0
    /\ setClockMaster.use => setClockMaster.ns + setClockOffset >= 0
    /\ NeverNegative
PagesOnLine ==
    /\ spc # "idle" => running = {} /\ setClockRequests = SetClockVcpus
    /\ \A w \in SetClockVcpus : w \notin setClockRequests => hv[w].time - hv[w].tsc = setClockOffset
    /\ \A w \in running : w \notin setClockRequests
GotOnLine == setClockGot = -1 \/ (spc = "idle" /\ setClockGot = setClockNow + setClockOffset)
SetClockInv ==
    SetClockTypes /\ StartsInCall /\ NotBeforeZero /\ PagesOnLine /\ GotOnLine /\ AllAreTold

(* The clock of a new virtual machine starts where the host's does. *)
LEMMA SetClockInitInv == SetClockInit => SetClockInv
BY DEF SetClockInit, SetClockInv, SetClockTypes, StartsInCall, NotBeforeZero, NeverNegative, PagesOnLine,
       GotOnLine, AllAreTold

(* Every step keeps the types. *)
LEMMA SetClockStepTypes == SetClockInv /\ [SetClockNext]_setClockVars => SetClockTypes'
<1> SUFFICES ASSUME SetClockInv, [SetClockNext]_setClockVars PROVE SetClockTypes'
    OBVIOUS
<1> USE SetClockAssumption DEF SetClockInv, SetClockTypes, StartsInCall
<1>1. CASE SetClockTick
    BY <1>1 DEF SetClockTick
<1>2. CASE ClockSource
    BY <1>2 DEF ClockSource
<1>3. CASE kvm_gen_update_masterclock
    BY <1>3 DEF kvm_gen_update_masterclock, Snapshot
<1>4. CASE SetClock
    BY <1>4 DEF SetClock, Snapshot
<1>5. CASE SetOffset
    BY <1>5 DEF SetOffset, NowNs
<1>6. CASE SetClockRequest
    BY <1>6 DEF SetClockRequest
<1>7. CASE GetClock
    BY <1>7 DEF GetClock, get_kvmclock_ns
<1>8. CASE kvm_arch_suspend_notifier
    BY <1>8 DEF kvm_arch_suspend_notifier, kvm_set_guest_paused_setClock
<1>9. ASSUME NEW w \in SetClockVcpus, kvm_guest_time_update_setClock(w) PROVE SetClockTypes'
    BY <1>9 DEF kvm_guest_time_update_setClock
<1>10. ASSUME NEW w \in SetClockVcpus, Run(w) PROVE SetClockTypes'
    BY <1>10 DEF Run
<1>11. ASSUME NEW w \in SetClockVcpus, Leave(w) PROVE SetClockTypes'
    BY <1>11 DEF Leave
<1>12. CASE UNCHANGED setClockVars
    BY <1>12 DEF setClockVars
<1> QED
    BY <1>1, <1>2, <1>3, <1>4, <1>5, <1>6, <1>7, <1>8, <1>9, <1>10, <1>11, <1>12 DEF SetClockNext

(* Every step keeps the start of the clock within the call that set it. *)
LEMMA SetClockStepStarts == SetClockInv /\ [SetClockNext]_setClockVars => StartsInCall'
<1> SUFFICES ASSUME SetClockInv, [SetClockNext]_setClockVars PROVE StartsInCall'
    OBVIOUS
<1> USE DEF SetClockInv, SetClockTypes, StartsInCall
<1>1. CASE SetClockTick
    BY <1>1 DEF SetClockTick
<1>2. CASE ClockSource
    BY <1>2 DEF ClockSource
<1>3. CASE kvm_gen_update_masterclock
    BY <1>3 DEF kvm_gen_update_masterclock, Snapshot
<1>4. CASE SetClock
    BY <1>4 DEF SetClock, Snapshot
<1>5. CASE SetOffset
    BY <1>5 DEF SetOffset, NowNs
<1>6. CASE SetClockRequest
    BY <1>6 DEF SetClockRequest
<1>7. CASE GetClock
    BY <1>7 DEF GetClock, get_kvmclock_ns
<1>8. CASE kvm_arch_suspend_notifier
    BY <1>8 DEF kvm_arch_suspend_notifier, kvm_set_guest_paused_setClock
<1>9. ASSUME NEW w \in SetClockVcpus, kvm_guest_time_update_setClock(w) PROVE StartsInCall'
    BY <1>9 DEF kvm_guest_time_update_setClock
<1>10. ASSUME NEW w \in SetClockVcpus, Run(w) PROVE StartsInCall'
    BY <1>10 DEF Run
<1>11. ASSUME NEW w \in SetClockVcpus, Leave(w) PROVE StartsInCall'
    BY <1>11 DEF Leave
<1>12. CASE UNCHANGED setClockVars
    BY <1>12 DEF setClockVars
<1> QED
    BY <1>1, <1>2, <1>3, <1>4, <1>5, <1>6, <1>7, <1>8, <1>9, <1>10, <1>11, <1>12 DEF SetClockNext

(* Every step keeps the time a page starts from at or above zero. *)
LEMMA SetClockStepZero == SetClockInv /\ [SetClockNext]_setClockVars => NotBeforeZero'
<1> SUFFICES ASSUME SetClockInv, [SetClockNext]_setClockVars PROVE NotBeforeZero'
    OBVIOUS
<1> USE DEF SetClockInv, SetClockTypes, StartsInCall, NotBeforeZero, NeverNegative
<1>1. CASE SetClockTick
    BY <1>1 DEF SetClockTick
<1>2. CASE ClockSource
    BY <1>2 DEF ClockSource
<1>3. CASE kvm_gen_update_masterclock
    BY <1>3 DEF kvm_gen_update_masterclock, Snapshot
<1>4. CASE SetClock
    BY <1>4 DEF SetClock, Snapshot
<1>5. CASE SetOffset
    BY <1>5 DEF SetOffset, NowNs
<1>6. CASE SetClockRequest
    BY <1>6 DEF SetClockRequest
<1>7. CASE GetClock
    BY <1>7 DEF GetClock, get_kvmclock_ns
<1>8. CASE kvm_arch_suspend_notifier
    BY <1>8 DEF kvm_arch_suspend_notifier, kvm_set_guest_paused_setClock
<1>9. ASSUME NEW w \in SetClockVcpus, kvm_guest_time_update_setClock(w) PROVE NotBeforeZero'
    BY <1>9 DEF kvm_guest_time_update_setClock
<1>10. ASSUME NEW w \in SetClockVcpus, Run(w) PROVE NotBeforeZero'
    BY <1>10 DEF Run
<1>11. ASSUME NEW w \in SetClockVcpus, Leave(w) PROVE NotBeforeZero'
    BY <1>11 DEF Leave
<1>12. CASE UNCHANGED setClockVars
    BY <1>12 DEF setClockVars
<1> QED
    BY <1>1, <1>2, <1>3, <1>4, <1>5, <1>6, <1>7, <1>8, <1>9, <1>10, <1>11, <1>12 DEF SetClockNext

(* Every step keeps the pages without an outstanding update on the line of the offset. *)
LEMMA SetClockStepPages == SetClockInv /\ [SetClockNext]_setClockVars => PagesOnLine'
<1> SUFFICES ASSUME SetClockInv, [SetClockNext]_setClockVars PROVE PagesOnLine'
    OBVIOUS
<1> USE DEF SetClockInv, SetClockTypes, PagesOnLine
<1>1. CASE SetClockTick
    BY <1>1 DEF SetClockTick
<1>2. CASE ClockSource
    BY <1>2 DEF ClockSource
<1>3. CASE kvm_gen_update_masterclock
    BY <1>3 DEF kvm_gen_update_masterclock, Snapshot
<1>4. CASE SetClock
    BY <1>4 DEF SetClock, Snapshot
<1>5. CASE SetOffset
    BY <1>5 DEF SetOffset, NowNs
<1>6. CASE SetClockRequest
    BY <1>6 DEF SetClockRequest
<1>7. CASE GetClock
    BY <1>7 DEF GetClock, get_kvmclock_ns
<1>8. CASE kvm_arch_suspend_notifier
    BY <1>8 DEF kvm_arch_suspend_notifier, kvm_set_guest_paused_setClock
<1>9. ASSUME NEW w \in SetClockVcpus, kvm_guest_time_update_setClock(w) PROVE PagesOnLine'
    BY <1>9 DEF kvm_guest_time_update_setClock
<1>10. ASSUME NEW w \in SetClockVcpus, Run(w) PROVE PagesOnLine'
    BY <1>10 DEF Run
<1>11. ASSUME NEW w \in SetClockVcpus, Leave(w) PROVE PagesOnLine'
    BY <1>11 DEF Leave
<1>12. CASE UNCHANGED setClockVars
    BY <1>12 DEF setClockVars
<1> QED
    BY <1>1, <1>2, <1>3, <1>4, <1>5, <1>6, <1>7, <1>8, <1>9, <1>10, <1>11, <1>12 DEF SetClockNext

(* Every step keeps what KVM_GET_CLOCK returned and the marks of the suspend notifier. *)
LEMMA SetClockStepRest == SetClockInv /\ [SetClockNext]_setClockVars => (GotOnLine /\ AllAreTold)'
<1> SUFFICES ASSUME SetClockInv, [SetClockNext]_setClockVars PROVE (GotOnLine /\ AllAreTold)'
    OBVIOUS
<1> USE DEF SetClockInv, SetClockTypes, GotOnLine, AllAreTold
<1>1. CASE SetClockTick
    BY <1>1 DEF SetClockTick
<1>2. CASE ClockSource
    BY <1>2 DEF ClockSource
<1>3. CASE kvm_gen_update_masterclock
    BY <1>3 DEF kvm_gen_update_masterclock, Snapshot
<1>4. CASE SetClock
    BY <1>4 DEF SetClock, Snapshot
<1>5. CASE SetOffset
    BY <1>5 DEF SetOffset, NowNs
<1>6. CASE SetClockRequest
    BY <1>6 DEF SetClockRequest
<1>7. CASE GetClock
    BY <1>7 DEF GetClock, get_kvmclock_ns
<1>8. CASE kvm_arch_suspend_notifier
    BY <1>8 DEF kvm_arch_suspend_notifier, kvm_set_guest_paused_setClock
<1>9. ASSUME NEW w \in SetClockVcpus, kvm_guest_time_update_setClock(w) PROVE (GotOnLine /\ AllAreTold)'
    BY <1>9 DEF kvm_guest_time_update_setClock
<1>10. ASSUME NEW w \in SetClockVcpus, Run(w) PROVE (GotOnLine /\ AllAreTold)'
    BY <1>10 DEF Run
<1>11. ASSUME NEW w \in SetClockVcpus, Leave(w) PROVE (GotOnLine /\ AllAreTold)'
    BY <1>11 DEF Leave
<1>12. CASE UNCHANGED setClockVars
    BY <1>12 DEF setClockVars
<1> QED
    BY <1>1, <1>2, <1>3, <1>4, <1>5, <1>6, <1>7, <1>8, <1>9, <1>10, <1>11, <1>12 DEF SetClockNext

(* Every step keeps the invariant. *)
LEMMA SetClockStepInv == SetClockInv /\ [SetClockNext]_setClockVars => SetClockInv'
BY SetClockStepTypes, SetClockStepStarts, SetClockStepZero, SetClockStepPages, SetClockStepRest DEF SetClockInv

(* The invariant implies what user space and the guests rely on. *)
LEMMA SetClockInvExact == SetClockInv => NeverNegative /\ GetFollowsSet /\ GuestAgrees /\ AllAreTold
<1> SUFFICES ASSUME SetClockInv PROVE NeverNegative /\ GetFollowsSet /\ GuestAgrees /\ AllAreTold
    OBVIOUS
<1>1. GetFollowsSet
    BY DEF SetClockInv, SetClockTypes, StartsInCall, GotOnLine, GetFollowsSet
<1>2. GuestAgrees
    BY DEF SetClockInv, SetClockTypes, PagesOnLine, GuestAgrees, GuestTime, get_kvmclock_ns
<1> QED
    BY <1>1, <1>2 DEF SetClockInv, NotBeforeZero

-----------------------------------------------------------------------------
(* The copy of the timekeeper.  While the count is even the copy is a      *)
(* state the timekeeper published; what a reader has computed is a point   *)
(* of the copy's clock for as long as the count is the one it started      *)
(* from, and the count never returns to an earlier value.                  *)

ClockLines == [cycle : Nat, mult : Nat, base : Nat, off : Nat]
TimekeeperStates == [mode : {"tsc", "hv", "none"}, raw : ClockLines, real : ClockLines]
Results == [ok : BOOLEAN, kind : Kinds, ns : Int, tsc : Nat]
WriterSteps == {"idle", "begin", "clock", "raw", "rest", "end"}
ReaderSteps == {"idle", "seq", "base", "tsc", "cycles", "off", "retry"}

GtodTypes ==
    /\ gtodTsc \in 0..(MaxTsc + 1) /\ tk \in TimekeeperStates /\ seq \in Nat /\ gtod \in TimekeeperStates
    /\ gtodWpc \in WriterSteps /\ published \subseteq TimekeeperStates
ReaderTypes ==
    /\ gtodRpc \in [GtodCpus -> ReaderSteps] /\ kind \in [GtodCpus -> Kinds] /\ snap \in [GtodCpus -> Nat]
    /\ stamp \in [GtodCpus -> 0..(MaxTsc + 1)] /\ acc \in [GtodCpus -> Int]
    /\ mode \in [GtodCpus -> {"tsc", "hv", "none"}] /\ result \in [GtodCpus -> Results]
OneOrigin(s) == s.raw.cycle = s.real.cycle /\ s.real.cycle <= gtodTsc
SameLine(l, m) == l.cycle = m.cycle /\ l.mult = m.mult /\ l.base = m.base
CopyFollows ==
    /\ tk \in published /\ gtod.real.cycle <= gtodTsc
    /\ \A s \in published : OneOrigin(s)
    /\ seq % 2 = 0 <=> gtodWpc \in {"idle", "begin"}
    /\ gtodWpc \in {"idle", "begin"} => gtod \in published
    /\ gtodWpc \in {"raw", "rest"} => gtod.mode = tk.mode /\ SameLine(gtod.real, tk.real)
    /\ gtodWpc = "rest" => SameLine(gtod.raw, tk.raw)
    /\ gtodWpc \in {"end", "idle"} => gtod = tk
Fresh(c) == snap[c] = seq
Driven(c) == mode[c] \in BasedOnTsc
PointOf(l, t) == l.base + (t - l.cycle) * l.mult
ReaderOnCopy(c) ==
    LET l == gtod[kind[c]] IN
    /\ gtodRpc[c] \in {"base", "tsc", "cycles", "off", "retry"} => snap[c] % 2 = 0 /\ snap[c] <= seq
    /\ gtodRpc[c] \in {"tsc", "cycles"} /\ Fresh(c) => acc[c] = l.base
    /\ gtodRpc[c] \in {"cycles", "off", "retry"} /\ Fresh(c) /\ Driven(c) =>
         gtod.mode \in BasedOnTsc /\ stamp[c] >= gtod.real.cycle
    /\ gtodRpc[c] = "off" /\ Fresh(c) /\ Driven(c) => acc[c] = PointOf(l, stamp[c])
    /\ gtodRpc[c] = "retry" /\ Fresh(c) /\ Driven(c) => acc[c] = PointOf(l, stamp[c]) + l.off
ReturnedPoint(c) ==
    result[c].ok => \E s \in published :
        LET l == s[result[c].kind] IN
        s.mode \in BasedOnTsc /\ result[c].tsc >= l.cycle /\ result[c].ns = PointOf(l, result[c].tsc) + l.off
GtodInv ==
    /\ GtodTypes /\ ReaderTypes /\ CopyFollows
    /\ \A c \in GtodCpus : ReaderOnCopy(c) /\ ReturnedPoint(c)

(* A difference taken modulo the word is the difference while it is below the word. *)
LEMMA WrapOnce ==
    ASSUME NEW a \in 0..(MaxTsc + 1), NEW b \in Nat, a >= b
    PROVE  (GtodW + a - b) % GtodW = a - b
<1>1. ASSUME NEW m \in Nat, NEW d \in Nat, d < m PROVE (m + d) % m = d
    BY <1>1, Z3
<1>2. a - b \in Nat /\ a - b < GtodW /\ GtodW + a - b = GtodW + (a - b) /\ GtodW \in Nat
    BY GtodAssumption
<1> QED
    BY <1>1, <1>2

(* The copy starts as the timekeeper's first state. *)
LEMMA GtodInitInv == GtodInit => GtodInv
<1> SUFFICES ASSUME GtodInit PROVE GtodInv
    OBVIOUS
<1> USE GtodAssumption DEF GtodInit, First, Clock, NoResult, Kinds
<1>1. GtodTypes
    BY DEF GtodTypes, ClockLines, TimekeeperStates, WriterSteps
<1>2. ReaderTypes
    BY DEF ReaderTypes, ReaderSteps, Results
<1>3. CopyFollows
    BY DEF CopyFollows, OneOrigin
<1>4. ASSUME NEW c \in GtodCpus PROVE ReaderOnCopy(c) /\ ReturnedPoint(c)
    BY DEF ReaderOnCopy, ReturnedPoint
<1> QED
    BY <1>1, <1>2, <1>3, <1>4 DEF GtodInv

(* Every step keeps the types of the timekeeper and of its copy. *)
LEMMA GtodStepTypes ==
    GtodInv /\ [GtodNext]_gtodVars => GtodTypes'
<1> SUFFICES ASSUME GtodInv, [GtodNext]_gtodVars PROVE GtodTypes'
    OBVIOUS
<1> USE GtodAssumption DEF GtodInv, GtodTypes, CopyFollows, OneOrigin, ClockLines, TimekeeperStates, WriterSteps, Kinds
<1>1. CASE GtodTick
    BY <1>1 DEF GtodTick
<1>2. CASE Timekeeper
    BY <1>2 DEF Timekeeper, Moved, BasedOnTsc
<1>3. CASE write_seqcount_begin
    BY <1>3 DEF write_seqcount_begin, WriterRest
<1>4. CASE CopyClock
    BY <1>4 DEF CopyClock, WriterRest
<1>5. CASE CopyRaw
    BY <1>5 DEF CopyRaw, WriterRest
<1>6. CASE CopyRest
    BY <1>6 DEF CopyRest, WriterRest
<1>7. CASE write_seqcount_end
    BY <1>7 DEF write_seqcount_end, WriterRest
<1>8. ASSUME NEW e \in GtodCpus, Begin(e) PROVE GtodTypes'
    BY <1>8 DEF Begin, ReaderRest, At, Returns, NoResult
<1>9. ASSUME NEW e \in GtodCpus, ReadSeq(e) PROVE GtodTypes'
    BY <1>9 DEF ReadSeq, ReaderRest, At
<1>10. ASSUME NEW e \in GtodCpus, ReadBase(e) PROVE GtodTypes'
    BY <1>10 DEF ReadBase, ReaderRest, At
<1>11. ASSUME NEW e \in GtodCpus, GtodReadTsc(e) PROVE GtodTypes'
    BY <1>11 DEF GtodReadTsc, BasedOnTsc, ReaderRest, At, read_tsc
<1>12. ASSUME NEW e \in GtodCpus, ReadCycles(e) PROVE GtodTypes'
    BY <1>12 DEF ReadCycles, BasedOnTsc, ReaderRest, At, Delta
<1>13. ASSUME NEW e \in GtodCpus, ReadOffset(e) PROVE GtodTypes'
    BY <1>13 DEF ReadOffset, ReaderRest, At
<1>14. ASSUME NEW e \in GtodCpus, read_seqcount_retry(e) PROVE GtodTypes'
    BY <1>14 DEF read_seqcount_retry, ReaderRest, At, Returns, Answer
<1>15. CASE UNCHANGED gtodVars
    BY <1>15 DEF gtodVars
<1> QED
    BY <1>1, <1>2, <1>3, <1>4, <1>5, <1>6, <1>7, <1>8, <1>9, <1>10, <1>11, <1>12, <1>13, <1>14, <1>15 DEF GtodNext, WriterStep, ReaderStep

(* Every step keeps the types of the readers. *)
LEMMA GtodStepReaderTypes ==
    GtodInv /\ [GtodNext]_gtodVars => ReaderTypes'
<1> SUFFICES ASSUME GtodInv, [GtodNext]_gtodVars PROVE ReaderTypes'
    OBVIOUS
<1> USE GtodAssumption DEF GtodInv, GtodTypes, ReaderTypes, ReaderSteps, Results, CopyFollows, ClockLines, TimekeeperStates, WriterSteps, Kinds
<1>1. CASE GtodTick
    BY <1>1 DEF GtodTick
<1>2. CASE Timekeeper
    BY <1>2 DEF Timekeeper, Moved, BasedOnTsc
<1>3. CASE write_seqcount_begin
    BY <1>3 DEF write_seqcount_begin, WriterRest
<1>4. CASE CopyClock
    BY <1>4 DEF CopyClock, WriterRest
<1>5. CASE CopyRaw
    BY <1>5 DEF CopyRaw, WriterRest
<1>6. CASE CopyRest
    BY <1>6 DEF CopyRest, WriterRest
<1>7. CASE write_seqcount_end
    BY <1>7 DEF write_seqcount_end, WriterRest
<1>8. ASSUME NEW e \in GtodCpus, Begin(e) PROVE ReaderTypes'
    <2>1. NoResult \in Results
        BY DEF NoResult
    <2>2. result' \in [GtodCpus -> Results]
        <3>1. result' = [result EXCEPT ![e] = NoResult]
            BY <1>8, Zenon DEF Begin, Returns
        <3> HIDE DEF Results
        <3> QED
            BY <2>1, <3>1
    <2>3. kind' \in [GtodCpus -> Kinds]
        BY <1>8 DEF Begin
    <2>4. CASE gtod.mode \in BasedOnTsc
        BY <1>8, <2>2, <2>3, <2>4 DEF Begin, At
    <2>5. CASE gtod.mode \notin BasedOnTsc
        <3> HIDE DEF Results
        <3>1. Returns(e, NoResult)
            BY <1>8, <2>5 DEF Begin
        <3>2. mode' \in [GtodCpus -> {"tsc", "hv", "none"}] /\ gtodRpc' \in [GtodCpus -> ReaderSteps]
            BY <3>1 DEF Returns, At
        <3>3. snap' \in [GtodCpus -> Nat] /\ stamp' \in [GtodCpus -> 0..(MaxTsc + 1)] /\ acc' \in [GtodCpus -> Int]
            BY <3>1 DEF Returns
        <3> QED
            BY <2>2, <2>3, <3>2, <3>3
    <2> QED
        BY <2>4, <2>5
<1>9. ASSUME NEW e \in GtodCpus, ReadSeq(e) PROVE ReaderTypes'
    BY <1>9 DEF ReadSeq, ReaderRest, At
<1>10. ASSUME NEW e \in GtodCpus, ReadBase(e) PROVE ReaderTypes'
    BY <1>10 DEF ReadBase, ReaderRest, At
<1>11. ASSUME NEW e \in GtodCpus, GtodReadTsc(e) PROVE ReaderTypes'
    <2>1. \A skew \in {0, 1} : read_tsc(gtodTsc - skew) \in 0..(MaxTsc + 1)
        BY DEF read_tsc
    <2>2. stamp' \in [GtodCpus -> 0..(MaxTsc + 1)]
        <3>1. CASE \E skew \in {0, 1} : stamp' = [stamp EXCEPT ![e] = read_tsc(gtodTsc - skew)]
            <4>1. PICK t \in 0..(MaxTsc + 1) : stamp' = [stamp EXCEPT ![e] = t]
                BY <2>1, <3>1, Zenon
            <4> QED
                BY <4>1
        <3>2. CASE stamp' = [stamp EXCEPT ![e] = gtodTsc] \/ stamp' = [stamp EXCEPT ![e] = 0]
            BY <3>2
        <3> QED
            BY <1>11, <3>1, <3>2, Zenon DEF GtodReadTsc
    <2>3. mode' \in [GtodCpus -> {"tsc", "hv", "none"}]
        <3>1. \/ mode' = [mode EXCEPT ![e] = "tsc"] \/ mode' = [mode EXCEPT ![e] = "hv"]
              \/ mode' = [mode EXCEPT ![e] = "none"]
            BY <1>11, Zenon DEF GtodReadTsc
        <3> QED
            BY <3>1
    <2>4. gtodRpc' = [gtodRpc EXCEPT ![e] = "cycles"] /\ UNCHANGED <<kind, snap, acc, result>>
        BY <1>11, Zenon DEF GtodReadTsc, At
    <2>5. gtodRpc' \in [GtodCpus -> ReaderSteps]
        BY <2>4
    <2> HIDE DEF Results, ReaderSteps
    <2> QED
        BY <2>2, <2>3, <2>4, <2>5
<1>12. ASSUME NEW e \in GtodCpus, ReadCycles(e) PROVE ReaderTypes'
    <2> DEFINE a == IF mode[e] \in BasedOnTsc THEN acc[e] + Delta(e) * gtod[kind[e]].mult ELSE acc[e]
    <2>1. gtod[kind[e]].mult \in Nat /\ gtod[kind[e]].cycle \in Nat /\ stamp[e] \in Nat /\ acc[e] \in Int
        OBVIOUS
    <2>2. Delta(e) \in Int
        BY <2>1 DEF Delta
    <2>3. a \in Int
        BY <2>1, <2>2
    <2>4. /\ gtodRpc' = [gtodRpc EXCEPT ![e] = "off"] /\ acc' = [acc EXCEPT ![e] = a]
          /\ UNCHANGED <<kind, snap, stamp, mode, result>>
        BY <1>12 DEF ReadCycles, At
    <2> HIDE DEF a
    <2>5. gtodRpc' \in [GtodCpus -> ReaderSteps] /\ acc' \in [GtodCpus -> Int]
        BY <2>3, <2>4
    <2> HIDE DEF Results, ReaderSteps
    <2> QED
        BY <2>4, <2>5
<1>13. ASSUME NEW e \in GtodCpus, ReadOffset(e) PROVE ReaderTypes'
    BY <1>13 DEF ReadOffset, ReaderRest, At
<1>14. ASSUME NEW e \in GtodCpus, read_seqcount_retry(e) PROVE ReaderTypes'
    <2>1. (mode[e] \in BasedOnTsc) \in BOOLEAN
        OBVIOUS
    <2>2. kind[e] \in Kinds /\ acc[e] \in Int /\ stamp[e] \in Nat
        OBVIOUS
    <2>3. Answer(e) \in Results
        BY <2>1, <2>2, Zenon DEF Answer
    <2>4. CASE seq # snap[e]
        BY <1>14, <2>4 DEF read_seqcount_retry, At
    <2>5. CASE seq = snap[e]
        <3>1. result' = [result EXCEPT ![e] = Answer(e)]
            BY <1>14, <2>5, Zenon DEF read_seqcount_retry, Returns
        <3>2. result' \in [GtodCpus -> Results]
            BY <2>3, <3>1
        <3> HIDE DEF Results
        <3>3. Returns(e, Answer(e)) /\ kind' = kind
            BY <1>14, <2>5 DEF read_seqcount_retry
        <3>4. mode' \in [GtodCpus -> {"tsc", "hv", "none"}] /\ gtodRpc' \in [GtodCpus -> ReaderSteps]
            BY <3>3 DEF Returns, At
        <3>5. snap' \in [GtodCpus -> Nat] /\ stamp' \in [GtodCpus -> 0..(MaxTsc + 1)] /\ acc' \in [GtodCpus -> Int]
            BY <3>3 DEF Returns
        <3> QED
            BY <3>2, <3>3, <3>4, <3>5
    <2> QED
        BY <2>4, <2>5
<1>15. CASE UNCHANGED gtodVars
    BY <1>15 DEF gtodVars
<1> QED
    BY <1>1, <1>2, <1>3, <1>4, <1>5, <1>6, <1>7, <1>8, <1>9, <1>10, <1>11, <1>12, <1>13, <1>14, <1>15 DEF GtodNext, WriterStep, ReaderStep

(* Every step keeps the copy behind the timekeeper, field by field. *)
LEMMA GtodStepCopy ==
    GtodInv /\ [GtodNext]_gtodVars => CopyFollows'
<1> SUFFICES ASSUME GtodInv, [GtodNext]_gtodVars PROVE CopyFollows'
    OBVIOUS
<1> USE GtodAssumption DEF GtodInv, GtodTypes, CopyFollows, OneOrigin, SameLine, ClockLines, TimekeeperStates, WriterSteps, Kinds
<1>1. CASE GtodTick
    BY <1>1 DEF GtodTick
<1>2. CASE Timekeeper
    BY <1>2 DEF Timekeeper, Moved, BasedOnTsc
<1>3. CASE write_seqcount_begin
    BY <1>3 DEF write_seqcount_begin, WriterRest
<1>4. CASE CopyClock
    BY <1>4 DEF CopyClock, WriterRest
<1>5. CASE CopyRaw
    BY <1>5 DEF CopyRaw, WriterRest
<1>6. CASE CopyRest
    <2>1. gtod'.mode = tk.mode
        BY <1>6 DEF CopyRest
    <2>2. gtod'.real = tk.real
        BY <1>6 DEF CopyRest
    <2>3. gtod'.raw = tk.raw
        BY <1>6 DEF CopyRest
    <2>4. gtod' \in TimekeeperStates
        BY <1>6, GtodStepTypes
    <2>5. gtod' = tk
        BY <2>1, <2>2, <2>3, <2>4
    <2> QED
        BY <1>6, <2>5 DEF CopyRest, WriterRest
<1>7. CASE write_seqcount_end
    BY <1>7 DEF write_seqcount_end, WriterRest
<1>8. ASSUME NEW e \in GtodCpus, Begin(e) PROVE CopyFollows'
    BY <1>8 DEF Begin, ReaderRest, At, Returns, NoResult
<1>9. ASSUME NEW e \in GtodCpus, ReadSeq(e) PROVE CopyFollows'
    BY <1>9 DEF ReadSeq, ReaderRest, At
<1>10. ASSUME NEW e \in GtodCpus, ReadBase(e) PROVE CopyFollows'
    BY <1>10 DEF ReadBase, ReaderRest, At
<1>11. ASSUME NEW e \in GtodCpus, GtodReadTsc(e) PROVE CopyFollows'
    BY <1>11 DEF GtodReadTsc, BasedOnTsc, ReaderRest, At, read_tsc
<1>12. ASSUME NEW e \in GtodCpus, ReadCycles(e) PROVE CopyFollows'
    BY <1>12 DEF ReadCycles, BasedOnTsc, ReaderRest, At, Delta
<1>13. ASSUME NEW e \in GtodCpus, ReadOffset(e) PROVE CopyFollows'
    BY <1>13 DEF ReadOffset, ReaderRest, At
<1>14. ASSUME NEW e \in GtodCpus, read_seqcount_retry(e) PROVE CopyFollows'
    BY <1>14 DEF read_seqcount_retry, ReaderRest, At, Returns, Answer
<1>15. CASE UNCHANGED gtodVars
    BY <1>15 DEF gtodVars
<1> QED
    BY <1>1, <1>2, <1>3, <1>4, <1>5, <1>6, <1>7, <1>8, <1>9, <1>10, <1>11, <1>12, <1>13, <1>14, <1>15 DEF GtodNext, WriterStep, ReaderStep

(* Every step keeps a reader on the copy it started from, or has moved the count. *)
LEMMA GtodStepReader ==
    ASSUME NEW c \in GtodCpus PROVE GtodInv /\ [GtodNext]_gtodVars => ReaderOnCopy(c)'
<1> SUFFICES ASSUME GtodInv, [GtodNext]_gtodVars PROVE ReaderOnCopy(c)'
    OBVIOUS
<1> USE GtodAssumption DEF GtodInv, GtodTypes, ReaderTypes, CopyFollows, OneOrigin, ReaderOnCopy, Fresh, Driven, PointOf, ReaderSteps, ClockLines, TimekeeperStates, WriterSteps, Kinds
<1>1. CASE GtodTick
    BY <1>1 DEF GtodTick
<1>2. CASE Timekeeper
    BY <1>2 DEF Timekeeper, Moved, BasedOnTsc
<1>3. CASE write_seqcount_begin
    BY <1>3 DEF write_seqcount_begin, WriterRest
<1>4. CASE CopyClock
    BY <1>4 DEF CopyClock, WriterRest
<1>5. CASE CopyRaw
    BY <1>5 DEF CopyRaw, WriterRest
<1>6. CASE CopyRest
    BY <1>6 DEF CopyRest, WriterRest
<1>7. CASE write_seqcount_end
    BY <1>7 DEF write_seqcount_end, WriterRest
<1>8. ASSUME NEW e \in GtodCpus, Begin(e) PROVE ReaderOnCopy(c)'
    BY <1>8 DEF Begin, ReaderRest, At, Returns, NoResult
<1>9. ASSUME NEW e \in GtodCpus, ReadSeq(e) PROVE ReaderOnCopy(c)'
    BY <1>9 DEF ReadSeq, ReaderRest, At
<1>10. ASSUME NEW e \in GtodCpus, ReadBase(e) PROVE ReaderOnCopy(c)'
    BY <1>10 DEF ReadBase, ReaderRest, At
<1>11. ASSUME NEW e \in GtodCpus, GtodReadTsc(e) PROVE ReaderOnCopy(c)'
    BY <1>11 DEF GtodReadTsc, BasedOnTsc, ReaderRest, At, read_tsc
<1>12. ASSUME NEW e \in GtodCpus, ReadCycles(e) PROVE ReaderOnCopy(c)'
    <2>1. CASE Fresh(e) /\ Driven(e)
        <3>1. gtod \in published
            BY <1>12, <2>1 DEF ReadCycles
        <3>2. gtod[kind[e]].cycle = gtod.real.cycle
            BY <3>1
        <3>3. stamp[e] >= gtod[kind[e]].cycle
            BY <1>12, <2>1, <3>2 DEF ReadCycles
        <3>4. Delta(e) = stamp[e] - gtod[kind[e]].cycle
            <4>1. stamp[e] \in 0..(MaxTsc + 1) /\ gtod[kind[e]].cycle \in Nat
                BY <1>12
            <4> QED
                BY <3>3, <4>1, WrapOnce DEF Delta
        <3> HIDE DEF PointOf
        <3>5. acc'[e] = PointOf(gtod[kind[e]], stamp[e])
            BY <1>12, <2>1, <3>4 DEF ReadCycles, PointOf
        <3> QED
            BY <1>12, <2>1, <3>5 DEF ReadCycles, BasedOnTsc, ReaderRest, At
    <2>2. CASE ~(Fresh(e) /\ Driven(e))
        BY <1>12, <2>2 DEF ReadCycles, BasedOnTsc, ReaderRest, At
    <2> QED
        BY <2>1, <2>2
<1>13. ASSUME NEW e \in GtodCpus, ReadOffset(e) PROVE ReaderOnCopy(c)'
    BY <1>13 DEF ReadOffset, ReaderRest, At
<1>14. ASSUME NEW e \in GtodCpus, read_seqcount_retry(e) PROVE ReaderOnCopy(c)'
    BY <1>14 DEF read_seqcount_retry, ReaderRest, At, Returns, Answer
<1>15. CASE UNCHANGED gtodVars
    BY <1>15 DEF gtodVars
<1> QED
    BY <1>1, <1>2, <1>3, <1>4, <1>5, <1>6, <1>7, <1>8, <1>9, <1>10, <1>11, <1>12, <1>13, <1>14, <1>15 DEF GtodNext, WriterStep, ReaderStep

(* Every result is a point of a published clock. *)
LEMMA GtodStepResult ==
    ASSUME NEW c \in GtodCpus PROVE GtodInv /\ [GtodNext]_gtodVars => ReturnedPoint(c)'
<1> SUFFICES ASSUME GtodInv, [GtodNext]_gtodVars PROVE ReturnedPoint(c)'
    OBVIOUS
<1> USE GtodAssumption DEF GtodInv, GtodTypes, ReaderTypes, CopyFollows, OneOrigin, ReaderOnCopy, ReturnedPoint, Fresh, Driven, ReaderSteps, Results, ClockLines, TimekeeperStates, WriterSteps, Kinds
<1>1. CASE GtodTick
    BY <1>1 DEF GtodTick
<1>2. CASE Timekeeper
    BY <1>2 DEF Timekeeper, Moved, BasedOnTsc
<1>3. CASE write_seqcount_begin
    BY <1>3 DEF write_seqcount_begin, WriterRest
<1>4. CASE CopyClock
    BY <1>4 DEF CopyClock, WriterRest
<1>5. CASE CopyRaw
    BY <1>5 DEF CopyRaw, WriterRest
<1>6. CASE CopyRest
    BY <1>6 DEF CopyRest, WriterRest
<1>7. CASE write_seqcount_end
    BY <1>7 DEF write_seqcount_end, WriterRest
<1>8. ASSUME NEW e \in GtodCpus, Begin(e) PROVE ReturnedPoint(c)'
    <2>1. result' = [result EXCEPT ![e] = NoResult] /\ published' = published
        BY <1>8, Zenon DEF Begin, Returns, ReaderRest
    <2>2. CASE c = e
        <3>1. result'[c] = NoResult
            BY <2>1, <2>2
        <3>2. ~result'[c].ok
            BY <3>1 DEF NoResult
        <3> QED
            BY <3>2
    <2>3. CASE c # e
        BY <2>1, <2>3
    <2> QED
        BY <2>2, <2>3
<1>9. ASSUME NEW e \in GtodCpus, ReadSeq(e) PROVE ReturnedPoint(c)'
    BY <1>9 DEF ReadSeq, ReaderRest, At
<1>10. ASSUME NEW e \in GtodCpus, ReadBase(e) PROVE ReturnedPoint(c)'
    BY <1>10 DEF ReadBase, ReaderRest, At
<1>11. ASSUME NEW e \in GtodCpus, GtodReadTsc(e) PROVE ReturnedPoint(c)'
    BY <1>11 DEF GtodReadTsc, BasedOnTsc, ReaderRest, At, read_tsc
<1>12. ASSUME NEW e \in GtodCpus, ReadCycles(e) PROVE ReturnedPoint(c)'
    BY <1>12 DEF ReadCycles, BasedOnTsc, ReaderRest, At, Delta
<1>13. ASSUME NEW e \in GtodCpus, ReadOffset(e) PROVE ReturnedPoint(c)'
    BY <1>13 DEF ReadOffset, ReaderRest, At
<1>14. ASSUME NEW e \in GtodCpus, read_seqcount_retry(e) PROVE ReturnedPoint(c)'
    <2>1. published' = published
        BY <1>14 DEF read_seqcount_retry, ReaderRest
    <2>2. CASE seq # snap[e]
        BY <1>14, <2>1, <2>2 DEF read_seqcount_retry
    <2>3. CASE seq = snap[e]
        <3>1. result' = [result EXCEPT ![e] = Answer(e)]
            BY <1>14, <2>3, Zenon DEF read_seqcount_retry, Returns
        <3>2. CASE c # e
            BY <2>1, <3>1, <3>2
        <3>3. CASE c = e /\ ~Driven(e)
            <4>1. result'[c] = Answer(c)
                BY <3>1, <3>3
            <4>2. Answer(c).ok = (mode[c] \in BasedOnTsc)
                BY DEF Answer
            <4>3. result'[c].ok = (mode[c] \in BasedOnTsc) /\ mode[c] \notin BasedOnTsc
                BY <3>3, <4>1, <4>2
            <4>4. ~result'[c].ok
                BY <4>3
            <4> QED
                BY <4>4
        <3>4. CASE c = e /\ Driven(e)
            <4>1. gtod \in published /\ gtod.mode \in BasedOnTsc
                BY <1>14, <2>3, <3>4 DEF read_seqcount_retry
            <4>2. stamp[c] >= gtod[kind[c]].cycle
                BY <1>14, <2>3, <3>4, <4>1 DEF read_seqcount_retry
            <4>3. acc[c] = PointOf(gtod[kind[c]], stamp[c]) + gtod[kind[c]].off
                BY <1>14, <2>3, <3>4 DEF read_seqcount_retry
            <4>4. result'[c] = Answer(c)
                BY <3>1, <3>4
            <4>5. result'[c].tsc = stamp[c] /\ result'[c].ns = acc[c] /\ result'[c].kind = kind[c]
                BY <4>4 DEF Answer
            <4> QED
                BY <2>1, <4>1, <4>2, <4>3, <4>5
        <3> QED
            BY <3>2, <3>3, <3>4
    <2> QED
        BY <2>2, <2>3
<1>15. CASE UNCHANGED gtodVars
    BY <1>15 DEF gtodVars
<1> QED
    BY <1>1, <1>2, <1>3, <1>4, <1>5, <1>6, <1>7, <1>8, <1>9, <1>10, <1>11, <1>12, <1>13, <1>14, <1>15 DEF GtodNext, WriterStep, ReaderStep

(* Every step keeps the invariant. *)
LEMMA GtodStepInv == GtodInv /\ [GtodNext]_gtodVars => GtodInv'
<1> SUFFICES ASSUME GtodInv, [GtodNext]_gtodVars PROVE GtodInv'
    OBVIOUS
<1>1. GtodTypes' /\ ReaderTypes' /\ CopyFollows'
    BY GtodStepTypes, GtodStepReaderTypes, GtodStepCopy
<1>2. ASSUME NEW c \in GtodCpus PROVE ReaderOnCopy(c)' /\ ReturnedPoint(c)'
    BY GtodStepReader, GtodStepResult
<1> QED
    BY <1>1, <1>2 DEF GtodInv

(* The invariant implies that time and counter are returned from one clock, and that the TSC drives it. *)
LEMMA GtodInvExact == GtodInv => OnTheLine /\ TrueMeansTsc
BY DEF BasedOnTsc, GtodInv, ReturnedPoint, PointOf, OnTheLine, TrueMeansTsc, GtodTypes, ReaderTypes, ClockLines, TimekeeperStates, Results, Kinds

-----------------------------------------------------------------------------
(* Writes of the TSC.  From the write that begins a generation alone until *)
(* two writes overlap, the count of matched virtual CPUs is the number of  *)
(* the others in the current generation, but for the write that has not    *)
(* reached kvm_track_tsc_matching.  Each generation has one offset until   *)
(* the host is suspended, whatever overlaps.                               *)

Pending(c) == tscPc[c] \in {"unmatched", "matched", "already"}
InGeneration == {c \in tscOnline : v[c].gen = kvm.gen}
TscFields == {"offset", "gen", "adjust", "hostTsc", "guestTsc", "read", "own"}
KvmFields == {"nsec", "write", "khz", "gen", "offset", "matched", "backwards", "old"}
TscShapes ==
    /\ v = [c \in TscVcpus |-> v[c]] /\ \A c \in TscVcpus : DOMAIN v[c] = TscFields
    /\ DOMAIN kvm = KvmFields /\ guestTsc \in Nat
MatchTypes ==
    /\ tscOnline \subseteq TscVcpus /\ tscUpdate \subseteq TscVcpus /\ tscMaster \in BOOLEAN /\ tscRaced \in BOOLEAN
    /\ tscPc \in [TscVcpus -> {"none", "idle", "unmatched", "matched", "already"}]
    /\ kvm.gen \in Nat /\ kvm.matched \in Nat
Generations ==
    /\ \A c \in TscVcpus : /\ v[c].gen \in Nat /\ v[c].gen <= kvm.gen
                           /\ c \notin tscOnline => v[c].gen = 0 /\ tscPc[c] = "none"
    /\ kvm.gen = 0 => kvm.khz = 0
    /\ kvm.gen = 0 <=> tscOnline = {}
OneWrite == ~tscRaced => \A c, d \in TscVcpus : Pending(c) /\ Pending(d) => c = d
MatchedCount ==
    /\ tscOnline = {} => kvm.matched = 0
    /\ ~tscRaced /\ tscOnline # {} /\ (\A c \in TscVcpus : ~Pending(c)) => Cardinality(InGeneration) = kvm.matched + 1
    /\ ~tscRaced => \A c \in TscVcpus :
         /\ tscPc[c] = "unmatched" => InGeneration = {c}
         /\ tscPc[c] = "matched" => Cardinality(InGeneration) = kvm.matched + 2
         /\ tscPc[c] = "already" => Cardinality(InGeneration) = kvm.matched + 1
MasterMatched ==
    tscMaster => tscOnline # {} /\ (Settled => based /\ ~kvm.backwards /\ ~kvm.old /\ (~tscRaced => InGeneration = tscOnline))
MatchInv == TscShapes /\ MatchTypes /\ Generations /\ OneWrite /\ MatchedCount /\ MasterMatched
OneOffset ==
    ~kvm.backwards =>
        /\ kvm.offset \in Int
        /\ \A c \in TscVcpus : /\ v[c].adjust = 0 /\ v[c].offset \in Int
                               /\ c \in InGeneration /\ ~v[c].own => v[c].offset = kvm.offset
        /\ \A c, d \in tscOnline : v[c].gen = v[d].gen /\ ~v[c].own /\ ~v[d].own => v[c].offset = v[d].offset

(* What a write of the TSC, its count, a request, a notice, a suspend and anything else do to the generations. *)
WriteStep(c) ==
    /\ tscRaced' \in BOOLEAN /\ (~tscRaced' => \A d \in TscVcpus : ~Pending(d))
    /\ ~tscRaced' /\ tscRaced => kvm'.gen # kvm.gen
    /\ tscOnline' = tscOnline \cup {c} /\ UNCHANGED <<tscMaster, based, tscUpdate>>
    /\ \A d \in TscVcpus \ {c} : v'[d].gen = v[d].gen
    /\ v'[c].gen = kvm'.gen /\ kvm'.matched = kvm.matched /\ kvm'.khz # 0
    /\ \/ /\ kvm.khz # 0 /\ kvm'.gen = kvm.gen
          /\ tscPc' = [tscPc EXCEPT ![c] = IF v[c].gen = kvm.gen THEN "already" ELSE "matched"]
       \/ kvm'.gen = kvm.gen + 1 /\ tscPc' = [tscPc EXCEPT ![c] = "unmatched"]
SameGens == kvm'.gen = kvm.gen /\ kvm'.khz = kvm.khz /\ \A d \in TscVcpus : v'[d].gen = v[d].gen
CountStep(c) ==
    /\ Pending(c) /\ SameGens /\ UNCHANGED <<tscOnline, tscMaster, based, tscRaced>>
    /\ tscPc[c] = "unmatched" => kvm'.matched = 0
    /\ tscPc[c] = "matched" => kvm'.matched = kvm.matched + 1
    /\ tscPc[c] = "already" => kvm'.matched = kvm.matched
    /\ tscPc' = [tscPc EXCEPT ![c] = "idle"]
    /\ tscUpdate' \in SUBSET TscVcpus /\ (tscMaster => tscUpdate' # {})
RequestStep ==
    /\ SameGens /\ kvm' = kvm /\ UNCHANGED <<tscOnline, tscPc, based, tscRaced>>
    /\ tscUpdate' \subseteq tscUpdate /\ tscMaster' \in BOOLEAN
    /\ tscMaster' => based /\ ~kvm.backwards /\ ~kvm.old /\ kvm.matched + 1 = Cardinality(tscOnline)
NoticeStep ==
    /\ SameGens /\ kvm'.matched = kvm.matched /\ UNCHANGED <<tscOnline, tscPc, tscMaster, tscRaced>>
    /\ tscUpdate' = IF tscMaster THEN tscOnline ELSE tscUpdate
QuietStep ==
    /\ SameGens /\ kvm'.matched = kvm.matched /\ UNCHANGED <<tscOnline, tscPc, tscMaster, based, tscRaced>>
    /\ \/ UNCHANGED tscUpdate /\ kvm'.backwards = kvm.backwards /\ kvm'.old = kvm.old
       \/ tscUpdate' \in SUBSET TscVcpus /\ (tscOnline # {} => tscUpdate' # {})
MatchStep ==
    \/ \E c \in TscVcpus : WriteStep(c) \/ CountStep(c)
    \/ RequestStep \/ NoticeStep \/ QuietStep

(* At the start there is no virtual CPU and no generation. *)
LEMMA TscInitInv == TscInit => MatchInv /\ OneOffset
<1> SUFFICES ASSUME TscInit PROVE MatchInv /\ OneOffset
    OBVIOUS
<1> USE DEF TscInit
<1>1. TscShapes /\ OneOffset
    BY DEF TscShapes, TscFields, KvmFields, OneOffset, InGeneration
<1>5. tscMaster \in BOOLEAN /\ tscRaced \in BOOLEAN
    BY Zenon
<1>2. MatchTypes /\ Generations /\ OneWrite
    BY <1>5 DEF MatchTypes, Generations, OneWrite, Pending
<1>4. MasterMatched
    BY DEF MasterMatched
<1>3. MatchedCount
    BY DEF MatchedCount
<1> QED
    BY <1>1, <1>2, <1>3, <1>4 DEF MatchInv

(* The members of a generation are finitely many, and no more than the virtual CPUs there are. *)
LEMMA GenerationFinite ==
    ASSUME MatchInv
    PROVE  /\ IsFiniteSet(tscOnline) /\ IsFiniteSet(InGeneration)
           /\ Cardinality(tscOnline) \in Nat /\ Cardinality(InGeneration) \in Nat
           /\ Cardinality(InGeneration) <= Cardinality(tscOnline)
           /\ Cardinality(InGeneration) = Cardinality(tscOnline) => InGeneration = tscOnline
           /\ tscOnline # {} => Cardinality(tscOnline) >= 1
<1>1. IsFiniteSet(tscOnline)
    BY TscAssumption, FS_Subset DEF MatchInv, MatchTypes
<1>2. InGeneration \subseteq tscOnline
    BY DEF InGeneration
<1>3. IsFiniteSet(InGeneration) /\ Cardinality(InGeneration) <= Cardinality(tscOnline)
      /\ (Cardinality(InGeneration) = Cardinality(tscOnline) => InGeneration = tscOnline)
    BY <1>1, <1>2, FS_Subset
<1>4. Cardinality(tscOnline) \in Nat /\ Cardinality(InGeneration) \in Nat
    BY <1>1, <1>3, FS_CardinalityType
<1>5. tscOnline # {} => Cardinality(tscOnline) >= 1
    BY <1>1, <1>4, FS_EmptySet
<1> QED
    BY <1>1, <1>3, <1>4, <1>5

(* Every such step keeps the types and the order of the generations. *)
LEMMA MatchStepGenerations ==
    MatchInv /\ MatchStep => MatchTypes' /\ Generations' /\ OneWrite'
<1> SUFFICES ASSUME MatchInv, MatchStep PROVE MatchTypes' /\ Generations' /\ OneWrite'
    OBVIOUS
<1> USE DEF MatchInv, MatchTypes, Generations, OneWrite, Pending, SameGens
<1>1. ASSUME NEW c \in TscVcpus, WriteStep(c) PROVE MatchTypes' /\ Generations' /\ OneWrite'
    BY <1>1 DEF WriteStep
<1>2. ASSUME NEW c \in TscVcpus, CountStep(c) PROVE MatchTypes' /\ Generations' /\ OneWrite'
    BY <1>2 DEF CountStep
<1>3. CASE RequestStep
    BY <1>3 DEF RequestStep
<1>4. CASE NoticeStep
    BY <1>4 DEF NoticeStep
<1>5. CASE QuietStep
    BY <1>5 DEF QuietStep
<1> QED
    BY <1>1, <1>2, <1>3, <1>4, <1>5 DEF MatchStep

(* A step that keeps the virtual CPUs and their generations keeps who is in the current one. *)
LEMMA SameGeneration ==
    ASSUME MatchInv, SameGens, tscOnline' = tscOnline PROVE InGeneration' = InGeneration
BY Zenon DEF MatchInv, MatchTypes, SameGens, InGeneration

(* There is a virtual CPU once a write has set the frequency of the generation. *)
LEMMA OnlineGeneration ==
    ASSUME MatchInv, kvm.khz # 0 PROVE tscOnline # {}
BY DEF MatchInv, Generations

(* Every such step keeps the count of matched virtual CPUs. *)
LEMMA MatchStepCount == MatchInv /\ MatchStep => MatchedCount'
<1> SUFFICES ASSUME MatchInv, MatchStep PROVE MatchedCount'
    OBVIOUS
<1> USE GenerationFinite
<1>1. ASSUME NEW c \in TscVcpus, WriteStep(c) PROVE MatchedCount'
    <2> SUFFICES ASSUME ~tscRaced' PROVE MatchedCount'
        BY <1>1 DEF WriteStep, MatchedCount
    <2>1. tscOnline' = tscOnline \cup {c} /\ tscOnline' # {} /\ kvm'.matched = kvm.matched /\ kvm.matched \in Nat
        BY <1>1 DEF WriteStep, MatchInv, MatchTypes
    <2>2. IsFiniteSet(tscOnline') /\ Cardinality(tscOnline') \in Nat
          /\ Cardinality(tscOnline') = IF c \in tscOnline THEN Cardinality(tscOnline) ELSE Cardinality(tscOnline) + 1
        BY <2>1, FS_AddElement, FS_CardinalityType
    <2>4. \A d \in TscVcpus : ~Pending(d)
        BY <1>1 DEF WriteStep
    <2>5. Pending(c)' /\ \A d \in TscVcpus \ {c} : tscPc'[d] = tscPc[d]
        BY <1>1 DEF WriteStep, Pending, MatchInv, MatchTypes
    <2>6. CASE kvm'.gen = kvm.gen + 1 /\ tscPc' = [tscPc EXCEPT ![c] = "unmatched"]
        <3>1. InGeneration' = {c}
            BY <1>1, <2>1, <2>6 DEF InGeneration, WriteStep, MatchInv, MatchTypes, Generations
        <3>2. tscPc'[c] = "unmatched"
            BY <2>6 DEF MatchInv, MatchTypes
        <3>3. \A d \in TscVcpus : d # c => tscPc'[d] \notin {"unmatched", "matched", "already"}
            BY <2>4, <2>5 DEF Pending
        <3> QED
            BY <2>1, <2>5, <3>1, <3>2, <3>3 DEF MatchedCount
    <2>7. CASE /\ kvm.khz # 0 /\ kvm'.gen = kvm.gen
               /\ tscPc' = [tscPc EXCEPT ![c] = IF v[c].gen = kvm.gen THEN "already" ELSE "matched"]
        <3>1. kvm.gen # 0 /\ kvm.gen \in Nat
            BY <2>7 DEF MatchInv, Generations, MatchTypes
        <3>2. tscOnline # {}
            BY <2>7, OnlineGeneration
        <3>3. Cardinality(InGeneration) = kvm.matched + 1
            BY <1>1, <2>4, <2>7, <3>2 DEF WriteStep, MatchInv, MatchedCount
        <3>4. InGeneration' = InGeneration \cup {c}
            <4>1. ASSUME NEW d \in InGeneration' PROVE d \in InGeneration \cup {c}
                BY <1>1, <2>1, <2>7, <4>1 DEF InGeneration, WriteStep, MatchInv, MatchTypes
            <4>2. ASSUME NEW d \in InGeneration \cup {c} PROVE d \in InGeneration'
                BY <1>1, <2>1, <2>7, <4>2 DEF InGeneration, WriteStep, MatchInv, MatchTypes
            <4> QED
                BY <4>1, <4>2, Zenon
        <3>5. c \in InGeneration <=> v[c].gen = kvm.gen
            BY <3>1 DEF InGeneration, MatchInv, Generations
        <3>6. \A d \in TscVcpus : d # c => tscPc'[d] \notin {"unmatched", "matched", "already"}
            BY <2>4, <2>5 DEF Pending
        <3>7. CASE v[c].gen = kvm.gen
            <4>1. Cardinality(InGeneration') = kvm.matched + 1
                BY <3>3, <3>4, <3>5, <3>7, FS_AddElement
            <4>2. tscPc'[c] = "already"
                BY <2>7, <3>7 DEF MatchInv, MatchTypes
            <4> QED
                BY <2>1, <2>5, <3>6, <4>1, <4>2 DEF MatchedCount
        <3>8. CASE v[c].gen # kvm.gen
            <4>1. Cardinality(InGeneration') = kvm.matched + 2
                <5>1. c \notin InGeneration /\ Cardinality(InGeneration \cup {c}) = Cardinality(InGeneration) + 1
                    BY <3>5, <3>8, FS_AddElement
                <5> QED
                    BY <2>1, <3>3, <3>4, <5>1
            <4>2. tscPc'[c] = "matched"
                BY <2>7, <3>8 DEF MatchInv, MatchTypes
            <4> QED
                BY <2>1, <2>5, <3>6, <4>1, <4>2 DEF MatchedCount
        <3> QED
            BY <3>7, <3>8
    <2> QED
        BY <1>1, <2>6, <2>7 DEF WriteStep
<1>2. ASSUME NEW c \in TscVcpus, CountStep(c) PROVE MatchedCount'
    <2>5. tscRaced' = tscRaced /\ c \in tscOnline'
        BY <1>2 DEF CountStep, Pending, MatchInv, Generations
    <2> SUFFICES ASSUME ~tscRaced PROVE MatchedCount'
        BY <2>5 DEF MatchedCount
    <2>1. InGeneration' = InGeneration /\ tscOnline' = tscOnline
        BY <1>2, SameGeneration DEF CountStep
    <2>2. c \in tscOnline
        BY <1>2 DEF CountStep, Pending, MatchInv, Generations
    <2>3. \A d \in TscVcpus : ~Pending(d)'
        BY <1>2 DEF CountStep, MatchInv, OneWrite, Pending, MatchTypes
    <2>4. Cardinality(InGeneration) = kvm'.matched + 1
        <3>1. CASE tscPc[c] = "unmatched"
            <4>1. InGeneration = {c} /\ kvm'.matched = 0
                BY <1>2, <3>1 DEF CountStep, MatchInv, MatchedCount
            <4> QED
                BY <4>1, FS_Singleton
        <3>2. CASE tscPc[c] = "matched"
            BY <1>2, <3>2 DEF CountStep, MatchInv, MatchedCount, MatchTypes
        <3>3. CASE tscPc[c] = "already"
            BY <1>2, <3>3 DEF CountStep, MatchInv, MatchedCount, MatchTypes
        <3> QED
            BY <1>2, <3>1, <3>2, <3>3 DEF CountStep, Pending
    <2> QED
        BY <2>1, <2>2, <2>3, <2>4, <2>5 DEF MatchedCount, Pending
<1>3. ASSUME SameGens, kvm'.matched = kvm.matched, UNCHANGED <<tscOnline, tscPc, tscRaced>> PROVE MatchedCount'
    <2>1. InGeneration' = InGeneration
        BY <1>3, SameGeneration
    <2> QED
        BY <1>3, <2>1 DEF MatchInv, MatchedCount, Pending
<1> QED
    BY <1>1, <1>2, <1>3 DEF MatchStep, RequestStep, NoticeStep, QuietStep

(* Every such step keeps the master clock to matched virtual CPUs, or has a request outstanding. *)
LEMMA MatchStepMaster == MatchInv /\ MatchStep => MasterMatched'
<1> SUFFICES ASSUME MatchInv, MatchStep PROVE MasterMatched'
    OBVIOUS
<1>1. ASSUME NEW c \in TscVcpus, WriteStep(c) PROVE MasterMatched'
    <2>1. Pending(c)'
        BY <1>1 DEF WriteStep, Pending, MatchInv, MatchTypes
    <2>2. ~Settled'
        BY <2>1 DEF Settled, BetweenLocks, Pending, TscIdle
    <2> QED
        BY <1>1, <2>2 DEF WriteStep, MasterMatched
<1>2. ASSUME NEW c \in TscVcpus, CountStep(c) PROVE MasterMatched'
    BY <1>2 DEF CountStep, MatchInv, MasterMatched, Settled
<1>3. CASE RequestStep
    <2>1. InGeneration' = InGeneration /\ UNCHANGED <<tscOnline, tscPc, based, kvm, tscRaced>>
        BY <1>3, SameGeneration DEF RequestStep
    <2>2. ASSUME tscMaster'
          PROVE  tscOnline # {} /\ based /\ ~kvm.backwards /\ ~kvm.old /\ kvm.matched + 1 = Cardinality(tscOnline)
        <3>1. based /\ ~kvm.backwards /\ ~kvm.old /\ kvm.matched + 1 = Cardinality(tscOnline) /\ kvm.matched \in Nat
            BY <1>3, <2>2 DEF RequestStep, MatchInv, MatchTypes
        <3>2. tscOnline # {}
            BY <3>1, FS_EmptySet
        <3> QED
            BY <3>1, <3>2
    <2>3. ASSUME tscMaster', Settled', ~tscRaced PROVE InGeneration = tscOnline
        <3>1. \A d \in TscVcpus : ~Pending(d)
            BY <2>1, <2>3 DEF Settled, BetweenLocks, TscIdle, Pending
        <3>2. Cardinality(InGeneration) = kvm.matched + 1
            BY <2>2, <2>3, <3>1 DEF MatchInv, MatchedCount
        <3> QED
            BY <2>2, <2>3, <3>2, GenerationFinite
    <2> QED
        BY <2>1, <2>2, <2>3 DEF MasterMatched
<1>4. CASE NoticeStep
    <2>1. tscMaster' = tscMaster /\ tscOnline' = tscOnline
        BY <1>4 DEF NoticeStep
    <2>2. tscMaster => tscOnline # {} /\ tscUpdate' # {}
        BY <1>4 DEF NoticeStep, MatchInv, MasterMatched
    <2> QED
        BY <2>1, <2>2 DEF MasterMatched, Settled
<1>5. CASE QuietStep
    <2>1. InGeneration' = InGeneration
        BY <1>5, SameGeneration DEF QuietStep
    <2>2. UNCHANGED <<tscOnline, tscPc, tscMaster, based, tscRaced>>
        BY <1>5 DEF QuietStep
    <2>3. CASE UNCHANGED tscUpdate /\ kvm'.backwards = kvm.backwards /\ kvm'.old = kvm.old
        <3>1. Settled' <=> Settled
            BY <2>2, <2>3 DEF Settled, BetweenLocks
        <3> QED
            BY <2>1, <2>2, <2>3, <3>1 DEF MatchInv, MasterMatched
    <2>4. CASE tscOnline # {} => tscUpdate' # {}
        BY <2>2, <2>4 DEF MatchInv, MasterMatched, Settled
    <2> QED
        BY <1>5, <2>3, <2>4 DEF QuietStep
<1> QED
    BY <1>1, <1>2, <1>3, <1>4, <1>5 DEF MatchStep

(* What the steps do to the offsets, as long as the host was not suspended. *)
KeepOffsets ==
    /\ kvm'.gen = kvm.gen /\ kvm'.offset = kvm.offset /\ tscOnline' = tscOnline
    /\ \A d \in TscVcpus : /\ v'[d].gen = v[d].gen /\ v'[d].adjust = 0 /\ v'[d].offset \in Int
                           /\ ~v'[d].own => ~v[d].own /\ v'[d].offset = v[d].offset
WriteOffset(c) ==
    /\ v'[c].adjust = 0 /\ v'[c].offset = kvm'.offset /\ kvm'.offset \in Int /\ v'[c].gen = kvm'.gen
    /\ tscOnline' = tscOnline \cup {c} /\ \A d \in TscVcpus \ {c} : v'[d] = v[d]
    /\ (kvm'.gen = kvm.gen /\ kvm'.offset = kvm.offset) \/ kvm'.gen = kvm.gen + 1
OffsetStep ==
    kvm'.backwards \/ (~kvm.backwards /\ (KeepOffsets \/ \E c \in TscVcpus : WriteOffset(c)))

(* Such a step keeps one offset for each generation. *)
LEMMA OffsetStepInv == ASSUME MatchInv, OneOffset, OffsetStep PROVE OneOffset'
<1> SUFFICES ASSUME ~kvm'.backwards PROVE OneOffset'
    BY DEF OneOffset
<1>1. ~kvm.backwards
    BY DEF OffsetStep
<1>2. CASE KeepOffsets
    BY <1>1, <1>2 DEF KeepOffsets, OneOffset, InGeneration, MatchInv, MatchTypes
<1>3. ASSUME NEW e \in TscVcpus, WriteOffset(e) PROVE OneOffset'
    <2>1. kvm'.offset \in Int
        BY <1>3 DEF WriteOffset
    <2>2. ASSUME NEW c \in TscVcpus
          PROVE  /\ v'[c].adjust = 0 /\ v'[c].offset \in Int
                 /\ c \in InGeneration' /\ ~v'[c].own => v'[c].offset = kvm'.offset
        BY <1>1, <1>3 DEF WriteOffset, OneOffset, InGeneration, MatchInv, MatchTypes, Generations
    <2>3. ASSUME NEW c \in tscOnline', NEW d \in tscOnline', v'[c].gen = v'[d].gen, ~v'[c].own, ~v'[d].own
          PROVE  v'[c].offset = v'[d].offset
        <3>1. c \in TscVcpus /\ d \in TscVcpus
            BY <1>3 DEF WriteOffset, MatchInv, MatchTypes
        <3>2. CASE c # e /\ d # e
            BY <1>1, <1>3, <2>3, <3>1, <3>2 DEF WriteOffset, OneOffset
        <3>3. CASE c = e \/ d = e
            <4>1. v'[c].gen = kvm'.gen /\ v'[d].gen = kvm'.gen
                BY <1>3, <2>3, <3>3 DEF WriteOffset
            <4> QED
                BY <2>2, <2>3, <3>1, <4>1 DEF InGeneration
        <3> QED
            BY <3>2, <3>3
    <2> QED
        BY <2>1, <2>2, <2>3 DEF OneOffset
<1> QED
    BY <1>1, <1>2, <1>3 DEF OffsetStep

(* kvm_synchronize_tsc, with any rates, is a write of the TSC in this sense. *)
LEMMA AnyWrite ==
    ASSUME MatchInv, NEW c \in TscVcpus, NEW data \in Nat, kvm_synchronize_tsc(c, data),
           tscOnline' = tscOnline \cup {c}, UNCHANGED <<tscMaster, based, tscUpdate, guestTsc>>
    PROVE  TscShapes' /\ WriteStep(c)
<1> DEFINE m == Matches(c, data)
<1>7. tscRaced' \in BOOLEAN /\ (~tscRaced' => BetweenLocks = {} /\ (tscRaced => ~m))
    BY Zenon DEF kvm_synchronize_tsc, MatchInv, MatchTypes
<1>1. ~tscRaced' => \A d \in TscVcpus : ~Pending(d)
    BY <1>7 DEF BetweenLocks, TscIdle, Pending
<1>8. kvm.gen \in Nat
    BY DEF MatchInv, MatchTypes
<1>2. Khz[c] # 0 /\ (m => kvm.khz = Khz[c])
    BY TscAssumption DEF Matches
<1>3. kvm'.gen = (IF m THEN kvm.gen ELSE kvm.gen + 1) /\ kvm'.matched = kvm.matched /\ kvm'.khz = Khz[c]
    BY DEF kvm_synchronize_tsc, NextGen, MatchInv, TscShapes, TscFields, KvmFields
<1>4. v'[c].gen = (IF m THEN kvm.gen ELSE kvm.gen + 1) /\ \A d \in TscVcpus \ {c} : v'[d] = v[d]
    BY DEF kvm_synchronize_tsc, NextGen, MatchInv, TscShapes, TscFields, KvmFields
<1>5. tscPc' = [tscPc EXCEPT ![c] = IF ~m THEN "unmatched" ELSE IF v[c].gen = kvm.gen THEN "already" ELSE "matched"]
    BY DEF kvm_synchronize_tsc
<1>6. TscShapes'
    BY DEF kvm_synchronize_tsc, MatchInv, TscShapes, TscFields, KvmFields
<1> HIDE DEF m
<1>9. ~tscRaced' /\ tscRaced => kvm'.gen # kvm.gen
    <2> SUFFICES ASSUME ~tscRaced', tscRaced PROVE kvm'.gen # kvm.gen
        OBVIOUS
    <2>1. ~m
        BY <1>7
    <2> QED
        BY <1>3, <1>8, <2>1
<1>10. CASE m
    <2>1. kvm.khz # 0 /\ kvm'.khz # 0 /\ kvm'.gen = kvm.gen /\ v'[c].gen = kvm.gen
        BY <1>2, <1>3, <1>4, <1>10
    <2>2. tscPc' = [tscPc EXCEPT ![c] = IF v[c].gen = kvm.gen THEN "already" ELSE "matched"]
        BY <1>5, <1>10
    <2> QED
        BY <1>1, <1>3, <1>4, <1>6, <1>7, <1>9, <2>1, <2>2 DEF WriteStep
<1>11. CASE ~m
    <2>1. kvm'.khz # 0 /\ kvm'.gen = kvm.gen + 1 /\ v'[c].gen = kvm.gen + 1
        BY <1>2, <1>3, <1>4, <1>11
    <2>2. tscPc' = [tscPc EXCEPT ![c] = "unmatched"]
        BY <1>5, <1>11
    <2> QED
        BY <1>1, <1>3, <1>4, <1>6, <1>7, <1>9, <2>1, <2>2 DEF WriteStep
<1> QED
    BY <1>10, <1>11

(* Each of their steps is a step in this sense. *)
LEMMA AnyMatch ==
    ASSUME MatchInv, [TscNext]_tscVars PROVE TscShapes' /\ MatchStep
<1> USE DEF MatchInv, TscShapes, TscFields, KvmFields
<1>1. ASSUME NEW c \in TscVcpus, kvm_arch_vcpu_postcreate(c) PROVE TscShapes' /\ MatchStep
    BY <1>1, AnyWrite DEF kvm_arch_vcpu_postcreate, MatchStep
<1>2. ASSUME NEW c \in TscVcpus, NEW e \in Data, WriteTsc(c, e) PROVE TscShapes' /\ MatchStep
    <2>1. tscOnline' = tscOnline \cup {c} /\ e \in Nat
        BY <1>2, TscAssumption DEF WriteTsc
    <2> QED
        BY <1>2, <2>1, AnyWrite DEF WriteTsc, MatchStep
<1>3. ASSUME NEW c \in TscVcpus, NEW e \in Data, GuestWriteTsc(c, e) PROVE TscShapes' /\ MatchStep
    BY <1>3 DEF GuestWriteTsc, MatchStep, QuietStep, SameGens
<1>4. ASSUME NEW c \in TscVcpus, CountMatching(c) PROVE TscShapes' /\ MatchStep
    <2>1. TscShapes' /\ SameGens
        BY <1>4 DEF CountMatching, TrackMatching, SameGens
    <2>2. tscUpdate' \in SUBSET TscVcpus /\ (tscMaster => tscUpdate' # {})
        BY <1>4 DEF CountMatching, TrackMatching, MatchTypes
    <2>3. CountStep(c)
        BY <1>4, <2>1, <2>2 DEF CountMatching, TrackMatching, CountStep, Pending
    <2> QED
        BY <2>1, <2>3 DEF MatchStep
<1>5. ASSUME NEW c \in TscVcpus, pvclock_update_vm_gtod_copy(c) PROVE TscShapes' /\ MatchStep
    <2>2. tscMaster' = (based /\ kvm.matched + 1 = Cardinality(tscOnline) /\ ~kvm.backwards /\ ~kvm.old)
        BY <1>5, Zenon DEF pvclock_update_vm_gtod_copy, UseMasterClock, Matched
    <2>3. tscMaster' \in BOOLEAN
        BY <2>2, Zenon
    <2>4. tscMaster' => based /\ ~kvm.backwards /\ ~kvm.old /\ kvm.matched + 1 = Cardinality(tscOnline)
        BY <2>2, Zenon
    <2> QED
        BY <1>5, <2>3, <2>4 DEF pvclock_update_vm_gtod_copy, MatchStep, RequestStep, SameGens
<1>6. ASSUME NEW c \in TscVcpus, RunGuest(c) PROVE TscShapes' /\ MatchStep
    BY <1>6 DEF RunGuest, MatchStep, QuietStep, SameGens
<1>7. CASE pvclock_gtod_notify
    BY <1>7 DEF pvclock_gtod_notify, MatchStep, NoticeStep, SameGens
<1>8. CASE TscTick
    BY <1>8 DEF TscTick, MatchStep, QuietStep, SameGens
<1>9. ASSUME NEW at \in 0..1, kvm_arch_hardware_enable(at) PROVE TscShapes' /\ MatchStep
    <2>1. CASE Backwards(at)
        <3>1. v' = [c \in TscVcpus |-> IF c \in tscOnline
                                      THEN [v[c] EXCEPT !.adjust = AdjustedBy(c, at), !.hostTsc = at]
                                      ELSE v[c]]
            BY <1>9, <2>1 DEF kvm_arch_hardware_enable
        <3>2. \A c \in TscVcpus : v'[c] = IF c \in tscOnline
                                       THEN [v[c] EXCEPT !.adjust = AdjustedBy(c, at), !.hostTsc = at]
                                       ELSE v[c]
            BY <3>1
        <3>3. ASSUME NEW c \in TscVcpus PROVE DOMAIN v'[c] = TscFields /\ v'[c].gen = v[c].gen
            BY <3>2
        <3>4. v' = [c \in TscVcpus |-> v'[c]]
            BY <3>1
        <3>5. DOMAIN kvm' = KvmFields /\ kvm'.gen = kvm.gen /\ kvm'.khz = kvm.khz /\ kvm'.matched = kvm.matched
            BY <1>9, <2>1 DEF kvm_arch_hardware_enable
        <3>9. guestTsc' = at
            BY <1>9, Zenon DEF kvm_arch_hardware_enable
        <3>6. guestTsc' \in Nat
            BY <3>9
        <3>8. tscUpdate' = tscOnline /\ UNCHANGED <<tscOnline, tscPc, tscMaster, based, tscRaced>>
            BY <1>9, <2>1, Zenon DEF kvm_arch_hardware_enable
        <3>7. SameGens
            BY <3>3, <3>5 DEF SameGens
        <3> HIDE DEF TscFields, KvmFields
        <3> QED
            BY <3>3, <3>4, <3>5, <3>6, <3>7, <3>8 DEF MatchStep, QuietStep, MatchTypes
    <2>2. CASE ~Backwards(at)
        BY <1>9, <2>2 DEF kvm_arch_hardware_enable, MatchStep, QuietStep, SameGens
    <2> QED
        BY <2>1, <2>2
<1>10. CASE UNCHANGED tscVars
    BY <1>10 DEF tscVars, MatchStep, QuietStep, SameGens
<1>11. ASSUME NEW c \in TscVcpus, NEW old \in OldMsrs, kvm_write_system_time_tsc(c, old) PROVE TscShapes' /\ MatchStep
    <2>1. TscShapes' /\ SameGens /\ kvm'.matched = kvm.matched /\ kvm'.backwards = kvm.backwards /\ kvm'.old = old
        BY <1>11 DEF kvm_write_system_time_tsc, SameGens
    <2>2. UNCHANGED <<tscOnline, tscPc, tscMaster, based, tscRaced>>
        BY <1>11 DEF kvm_write_system_time_tsc
    <2>3. CASE kvm.old = old
        BY <1>11, <2>1, <2>2, <2>3 DEF kvm_write_system_time_tsc, MatchStep, QuietStep
    <2>4. CASE kvm.old # old
        <3>1. tscUpdate' = tscUpdate \cup {c}
            BY <1>11, <2>4 DEF kvm_write_system_time_tsc
        <3>2. tscUpdate' \in SUBSET TscVcpus /\ tscUpdate' # {}
            BY <3>1 DEF MatchTypes
        <3> QED
            BY <2>1, <2>2, <3>2 DEF MatchStep, QuietStep
    <2> QED
        BY <2>3, <2>4
<1> QED
    BY <1>1, <1>2, <1>3, <1>4, <1>5, <1>6, <1>7, <1>8, <1>9, <1>10, <1>11 DEF TscNext

(* kvm_synchronize_tsc, with virtual CPUs of one rate, is a write of the TSC in this sense. *)
LEMMA OneRateWrite ==
    ASSUME MatchInv, NEW c \in TscVcpus, NEW data \in Nat, OneRate!kvm_synchronize_tsc(c, data),
           tscOnline' = tscOnline \cup {c}, UNCHANGED <<tscMaster, based, tscUpdate, guestTsc>>
    PROVE  TscShapes' /\ WriteStep(c)
<1> DEFINE m == OneRate!Matches(c, data)
<1>7. tscRaced' \in BOOLEAN /\ (~tscRaced' => OneRate!BetweenLocks = {} /\ (tscRaced => ~m))
    BY Zenon DEF OneRate!kvm_synchronize_tsc, MatchInv, MatchTypes
<1>1. ~tscRaced' => \A d \in TscVcpus : ~Pending(d)
    BY <1>7 DEF OneRate!BetweenLocks, OneRate!TscIdle, Pending
<1>8. kvm.gen \in Nat
    BY DEF MatchInv, MatchTypes
<1>2. SameRate[c] # 0 /\ (m => kvm.khz = SameRate[c])
    BY DEF OneRate!Matches, SameRate
<1>3. kvm'.gen = (IF m THEN kvm.gen ELSE kvm.gen + 1) /\ kvm'.matched = kvm.matched /\ kvm'.khz = SameRate[c]
    BY DEF OneRate!kvm_synchronize_tsc, OneRate!NextGen, MatchInv, TscShapes, TscFields, KvmFields
<1>4. v'[c].gen = (IF m THEN kvm.gen ELSE kvm.gen + 1) /\ \A d \in TscVcpus \ {c} : v'[d] = v[d]
    BY DEF OneRate!kvm_synchronize_tsc, OneRate!NextGen, MatchInv, TscShapes, TscFields, KvmFields
<1>5. tscPc' = [tscPc EXCEPT ![c] = IF ~m THEN "unmatched" ELSE IF v[c].gen = kvm.gen THEN "already" ELSE "matched"]
    BY DEF OneRate!kvm_synchronize_tsc
<1>6. TscShapes'
    BY DEF OneRate!kvm_synchronize_tsc, MatchInv, TscShapes, TscFields, KvmFields
<1> HIDE DEF m
<1>9. ~tscRaced' /\ tscRaced => kvm'.gen # kvm.gen
    <2> SUFFICES ASSUME ~tscRaced', tscRaced PROVE kvm'.gen # kvm.gen
        OBVIOUS
    <2>1. ~m
        BY <1>7
    <2> QED
        BY <1>3, <1>8, <2>1
<1>10. CASE m
    <2>1. kvm.khz # 0 /\ kvm'.khz # 0 /\ kvm'.gen = kvm.gen /\ v'[c].gen = kvm.gen
        BY <1>2, <1>3, <1>4, <1>10
    <2>2. tscPc' = [tscPc EXCEPT ![c] = IF v[c].gen = kvm.gen THEN "already" ELSE "matched"]
        BY <1>5, <1>10
    <2> QED
        BY <1>1, <1>3, <1>4, <1>6, <1>7, <1>9, <2>1, <2>2 DEF WriteStep
<1>11. CASE ~m
    <2>1. kvm'.khz # 0 /\ kvm'.gen = kvm.gen + 1 /\ v'[c].gen = kvm.gen + 1
        BY <1>2, <1>3, <1>4, <1>11
    <2>2. tscPc' = [tscPc EXCEPT ![c] = "unmatched"]
        BY <1>5, <1>11
    <2> QED
        BY <1>1, <1>3, <1>4, <1>6, <1>7, <1>9, <2>1, <2>2 DEF WriteStep
<1> QED
    BY <1>10, <1>11

(* Each of their steps is a step in this sense. *)
LEMMA OneRateMatch ==
    ASSUME MatchInv, [OneRate!TscNext]_tscVars PROVE TscShapes' /\ MatchStep
<1> USE DEF MatchInv, TscShapes, TscFields, KvmFields
<1>1. ASSUME NEW c \in TscVcpus, OneRate!kvm_arch_vcpu_postcreate(c) PROVE TscShapes' /\ MatchStep
    BY <1>1, OneRateWrite DEF OneRate!kvm_arch_vcpu_postcreate, MatchStep
<1>2. ASSUME NEW c \in TscVcpus, NEW e \in {4}, OneRate!WriteTsc(c, e) PROVE TscShapes' /\ MatchStep
    <2>1. tscOnline' = tscOnline \cup {c} /\ e \in Nat
        BY <1>2 DEF OneRate!WriteTsc
    <2> QED
        BY <1>2, <2>1, OneRateWrite DEF OneRate!WriteTsc, MatchStep
<1>3. ASSUME NEW c \in TscVcpus, NEW e \in {4}, OneRate!GuestWriteTsc(c, e) PROVE TscShapes' /\ MatchStep
    BY <1>3 DEF OneRate!GuestWriteTsc, MatchStep, QuietStep, SameGens
<1>4. ASSUME NEW c \in TscVcpus, OneRate!CountMatching(c) PROVE TscShapes' /\ MatchStep
    <2>1. TscShapes' /\ SameGens
        BY <1>4 DEF OneRate!CountMatching, OneRate!TrackMatching, SameGens
    <2>2. tscUpdate' \in SUBSET TscVcpus /\ (tscMaster => tscUpdate' # {})
        BY <1>4 DEF OneRate!CountMatching, OneRate!TrackMatching, MatchTypes
    <2>3. CountStep(c)
        BY <1>4, <2>1, <2>2 DEF OneRate!CountMatching, OneRate!TrackMatching, CountStep, Pending
    <2> QED
        BY <2>1, <2>3 DEF MatchStep
<1>5. ASSUME NEW c \in TscVcpus, OneRate!pvclock_update_vm_gtod_copy(c) PROVE TscShapes' /\ MatchStep
    <2>1. OneRate!Cardinality(tscOnline) = Cardinality(tscOnline)
        BY Zenon DEF Cardinality, OneRate!Cardinality
    <2>2. tscMaster' = (based /\ kvm.matched + 1 = Cardinality(tscOnline) /\ ~kvm.backwards /\ ~kvm.old)
        BY <1>5, <2>1, Zenon DEF OneRate!pvclock_update_vm_gtod_copy, OneRate!UseMasterClock, OneRate!Matched
    <2>3. tscMaster' \in BOOLEAN
        BY <2>2, Zenon
    <2>4. tscMaster' => based /\ ~kvm.backwards /\ ~kvm.old /\ kvm.matched + 1 = Cardinality(tscOnline)
        BY <2>2, Zenon
    <2> QED
        BY <1>5, <2>3, <2>4 DEF OneRate!pvclock_update_vm_gtod_copy, MatchStep, RequestStep, SameGens
<1>6. ASSUME NEW c \in TscVcpus, OneRate!RunGuest(c) PROVE TscShapes' /\ MatchStep
    BY <1>6 DEF OneRate!RunGuest, MatchStep, QuietStep, SameGens
<1>7. CASE OneRate!pvclock_gtod_notify
    BY <1>7 DEF OneRate!pvclock_gtod_notify, MatchStep, NoticeStep, SameGens
<1>8. CASE OneRate!TscTick
    BY <1>8 DEF OneRate!TscTick, MatchStep, QuietStep, SameGens
<1>9. ASSUME NEW at \in 0..1, OneRate!kvm_arch_hardware_enable(at) PROVE TscShapes' /\ MatchStep
    <2>1. CASE OneRate!Backwards(at)
        <3>1. v' = [c \in TscVcpus |-> IF c \in tscOnline
                                      THEN [v[c] EXCEPT !.adjust = OneRate!AdjustedBy(c, at), !.hostTsc = at]
                                      ELSE v[c]]
            BY <1>9, <2>1 DEF OneRate!kvm_arch_hardware_enable
        <3>2. \A c \in TscVcpus : v'[c] = IF c \in tscOnline
                                       THEN [v[c] EXCEPT !.adjust = OneRate!AdjustedBy(c, at), !.hostTsc = at]
                                       ELSE v[c]
            BY <3>1
        <3>3. ASSUME NEW c \in TscVcpus PROVE DOMAIN v'[c] = TscFields /\ v'[c].gen = v[c].gen
            BY <3>2
        <3>4. v' = [c \in TscVcpus |-> v'[c]]
            BY <3>1
        <3>5. DOMAIN kvm' = KvmFields /\ kvm'.gen = kvm.gen /\ kvm'.khz = kvm.khz /\ kvm'.matched = kvm.matched
            BY <1>9, <2>1 DEF OneRate!kvm_arch_hardware_enable
        <3>9. guestTsc' = at
            BY <1>9, Zenon DEF OneRate!kvm_arch_hardware_enable
        <3>6. guestTsc' \in Nat
            BY <3>9
        <3>8. tscUpdate' = tscOnline /\ UNCHANGED <<tscOnline, tscPc, tscMaster, based, tscRaced>>
            BY <1>9, <2>1, Zenon DEF OneRate!kvm_arch_hardware_enable
        <3>7. SameGens
            BY <3>3, <3>5 DEF SameGens
        <3> HIDE DEF TscFields, KvmFields
        <3> QED
            BY <3>3, <3>4, <3>5, <3>6, <3>7, <3>8 DEF MatchStep, QuietStep, MatchTypes
    <2>2. CASE ~OneRate!Backwards(at)
        BY <1>9, <2>2 DEF OneRate!kvm_arch_hardware_enable, MatchStep, QuietStep, SameGens
    <2> QED
        BY <2>1, <2>2
<1>10. CASE UNCHANGED tscVars
    BY <1>10 DEF tscVars, MatchStep, QuietStep, SameGens
<1>11. ASSUME NEW c \in TscVcpus, NEW old \in BOOLEAN, OneRate!kvm_write_system_time_tsc(c, old) PROVE TscShapes' /\ MatchStep
    <2>1. TscShapes' /\ SameGens /\ kvm'.matched = kvm.matched /\ kvm'.backwards = kvm.backwards /\ kvm'.old = old
        BY <1>11 DEF OneRate!kvm_write_system_time_tsc, SameGens
    <2>2. UNCHANGED <<tscOnline, tscPc, tscMaster, based, tscRaced>>
        BY <1>11 DEF OneRate!kvm_write_system_time_tsc
    <2>3. CASE kvm.old = old
        BY <1>11, <2>1, <2>2, <2>3 DEF OneRate!kvm_write_system_time_tsc, MatchStep, QuietStep
    <2>4. CASE kvm.old # old
        <3>1. tscUpdate' = tscUpdate \cup {c}
            BY <1>11, <2>4 DEF OneRate!kvm_write_system_time_tsc
        <3>2. tscUpdate' \in SUBSET TscVcpus /\ tscUpdate' # {}
            BY <3>1 DEF MatchTypes
        <3> QED
            BY <2>1, <2>2, <3>2 DEF MatchStep, QuietStep
    <2> QED
        BY <2>3, <2>4
<1> QED
    BY <1>1, <1>2, <1>3, <1>4, <1>5, <1>6, <1>7, <1>8, <1>9, <1>10, <1>11 DEF OneRate!TscNext

(* kvm_synchronize_tsc, with a host whose counters are not synchronised, is a write of the TSC in this sense. *)
LEMMA UnstableWrite ==
    ASSUME MatchInv, NEW c \in TscVcpus, NEW data \in Nat, Unst!kvm_synchronize_tsc(c, data),
           tscOnline' = tscOnline \cup {c}, UNCHANGED <<tscMaster, based, tscUpdate, guestTsc>>
    PROVE  TscShapes' /\ WriteStep(c)
<1> DEFINE m == Unst!Matches(c, data)
<1>7. tscRaced' \in BOOLEAN /\ (~tscRaced' => Unst!BetweenLocks = {} /\ (tscRaced => ~m))
    BY Zenon DEF Unst!kvm_synchronize_tsc, MatchInv, MatchTypes
<1>1. ~tscRaced' => \A d \in TscVcpus : ~Pending(d)
    BY <1>7 DEF Unst!BetweenLocks, Unst!TscIdle, Pending
<1>8. kvm.gen \in Nat
    BY DEF MatchInv, MatchTypes
<1>2. SameRate[c] # 0 /\ (m => kvm.khz = SameRate[c])
    BY DEF Unst!Matches, SameRate
<1>3. kvm'.gen = (IF m THEN kvm.gen ELSE kvm.gen + 1) /\ kvm'.matched = kvm.matched /\ kvm'.khz = SameRate[c]
    BY DEF Unst!kvm_synchronize_tsc, Unst!NextGen, MatchInv, TscShapes, TscFields, KvmFields
<1>4. v'[c].gen = (IF m THEN kvm.gen ELSE kvm.gen + 1) /\ \A d \in TscVcpus \ {c} : v'[d] = v[d]
    BY DEF Unst!kvm_synchronize_tsc, Unst!NextGen, MatchInv, TscShapes, TscFields, KvmFields
<1>5. tscPc' = [tscPc EXCEPT ![c] = IF ~m THEN "unmatched" ELSE IF v[c].gen = kvm.gen THEN "already" ELSE "matched"]
    BY DEF Unst!kvm_synchronize_tsc
<1>6. TscShapes'
    BY DEF Unst!kvm_synchronize_tsc, MatchInv, TscShapes, TscFields, KvmFields
<1> HIDE DEF m
<1>9. ~tscRaced' /\ tscRaced => kvm'.gen # kvm.gen
    <2> SUFFICES ASSUME ~tscRaced', tscRaced PROVE kvm'.gen # kvm.gen
        OBVIOUS
    <2>1. ~m
        BY <1>7
    <2> QED
        BY <1>3, <1>8, <2>1
<1>10. CASE m
    <2>1. kvm.khz # 0 /\ kvm'.khz # 0 /\ kvm'.gen = kvm.gen /\ v'[c].gen = kvm.gen
        BY <1>2, <1>3, <1>4, <1>10
    <2>2. tscPc' = [tscPc EXCEPT ![c] = IF v[c].gen = kvm.gen THEN "already" ELSE "matched"]
        BY <1>5, <1>10
    <2> QED
        BY <1>1, <1>3, <1>4, <1>6, <1>7, <1>9, <2>1, <2>2 DEF WriteStep
<1>11. CASE ~m
    <2>1. kvm'.khz # 0 /\ kvm'.gen = kvm.gen + 1 /\ v'[c].gen = kvm.gen + 1
        BY <1>2, <1>3, <1>4, <1>11
    <2>2. tscPc' = [tscPc EXCEPT ![c] = "unmatched"]
        BY <1>5, <1>11
    <2> QED
        BY <1>1, <1>3, <1>4, <1>6, <1>7, <1>9, <2>1, <2>2 DEF WriteStep
<1> QED
    BY <1>10, <1>11

(* Each of their steps is a step in this sense. *)
LEMMA UnstableMatch ==
    ASSUME MatchInv, [Unst!TscNext]_tscVars PROVE TscShapes' /\ MatchStep
<1> USE DEF MatchInv, TscShapes, TscFields, KvmFields
<1>1. ASSUME NEW c \in TscVcpus, Unst!kvm_arch_vcpu_postcreate(c) PROVE TscShapes' /\ MatchStep
    BY <1>1, UnstableWrite DEF Unst!kvm_arch_vcpu_postcreate, MatchStep
<1>2. ASSUME NEW c \in TscVcpus, NEW e \in Data, Unst!WriteTsc(c, e) PROVE TscShapes' /\ MatchStep
    <2>1. tscOnline' = tscOnline \cup {c} /\ e \in Nat
        BY <1>2, TscAssumption DEF Unst!WriteTsc
    <2> QED
        BY <1>2, <2>1, UnstableWrite DEF Unst!WriteTsc, MatchStep
<1>3. ASSUME NEW c \in TscVcpus, NEW e \in Data, Unst!GuestWriteTsc(c, e) PROVE TscShapes' /\ MatchStep
    BY <1>3 DEF Unst!GuestWriteTsc, MatchStep, QuietStep, SameGens
<1>4. ASSUME NEW c \in TscVcpus, Unst!CountMatching(c) PROVE TscShapes' /\ MatchStep
    <2>1. TscShapes' /\ SameGens
        BY <1>4 DEF Unst!CountMatching, Unst!TrackMatching, SameGens
    <2>2. tscUpdate' \in SUBSET TscVcpus /\ (tscMaster => tscUpdate' # {})
        BY <1>4 DEF Unst!CountMatching, Unst!TrackMatching, MatchTypes
    <2>3. CountStep(c)
        BY <1>4, <2>1, <2>2 DEF Unst!CountMatching, Unst!TrackMatching, CountStep, Pending
    <2> QED
        BY <2>1, <2>3 DEF MatchStep
<1>5. ASSUME NEW c \in TscVcpus, Unst!pvclock_update_vm_gtod_copy(c) PROVE TscShapes' /\ MatchStep
    <2>1. Unst!Cardinality(tscOnline) = Cardinality(tscOnline)
        BY Zenon DEF Cardinality, Unst!Cardinality
    <2>2. tscMaster' = (based /\ kvm.matched + 1 = Cardinality(tscOnline) /\ ~kvm.backwards /\ ~kvm.old)
        BY <1>5, <2>1, Zenon DEF Unst!pvclock_update_vm_gtod_copy, Unst!UseMasterClock, Unst!Matched
    <2>3. tscMaster' \in BOOLEAN
        BY <2>2, Zenon
    <2>4. tscMaster' => based /\ ~kvm.backwards /\ ~kvm.old /\ kvm.matched + 1 = Cardinality(tscOnline)
        BY <2>2, Zenon
    <2> QED
        BY <1>5, <2>3, <2>4 DEF Unst!pvclock_update_vm_gtod_copy, MatchStep, RequestStep, SameGens
<1>6. ASSUME NEW c \in TscVcpus, Unst!RunGuest(c) PROVE TscShapes' /\ MatchStep
    BY <1>6 DEF Unst!RunGuest, MatchStep, QuietStep, SameGens
<1>7. CASE Unst!pvclock_gtod_notify
    BY <1>7 DEF Unst!pvclock_gtod_notify, MatchStep, NoticeStep, SameGens
<1>8. CASE Unst!TscTick
    BY <1>8 DEF Unst!TscTick, MatchStep, QuietStep, SameGens
<1>9. ASSUME NEW at \in 0..1, Unst!kvm_arch_hardware_enable(at) PROVE TscShapes' /\ MatchStep
    <2>1. CASE Unst!Backwards(at)
        <3>1. v' = [c \in TscVcpus |-> IF c \in tscOnline
                                      THEN [v[c] EXCEPT !.adjust = Unst!AdjustedBy(c, at), !.hostTsc = at]
                                      ELSE v[c]]
            BY <1>9, <2>1 DEF Unst!kvm_arch_hardware_enable
        <3>2. \A c \in TscVcpus : v'[c] = IF c \in tscOnline
                                       THEN [v[c] EXCEPT !.adjust = Unst!AdjustedBy(c, at), !.hostTsc = at]
                                       ELSE v[c]
            BY <3>1
        <3>3. ASSUME NEW c \in TscVcpus PROVE DOMAIN v'[c] = TscFields /\ v'[c].gen = v[c].gen
            BY <3>2
        <3>4. v' = [c \in TscVcpus |-> v'[c]]
            BY <3>1
        <3>5. DOMAIN kvm' = KvmFields /\ kvm'.gen = kvm.gen /\ kvm'.khz = kvm.khz /\ kvm'.matched = kvm.matched
            BY <1>9, <2>1 DEF Unst!kvm_arch_hardware_enable
        <3>9. guestTsc' = at
            BY <1>9, Zenon DEF Unst!kvm_arch_hardware_enable
        <3>6. guestTsc' \in Nat
            BY <3>9
        <3>8. tscUpdate' = tscOnline /\ UNCHANGED <<tscOnline, tscPc, tscMaster, based, tscRaced>>
            BY <1>9, <2>1, Zenon DEF Unst!kvm_arch_hardware_enable
        <3>7. SameGens
            BY <3>3, <3>5 DEF SameGens
        <3> HIDE DEF TscFields, KvmFields
        <3> QED
            BY <3>3, <3>4, <3>5, <3>6, <3>7, <3>8 DEF MatchStep, QuietStep, MatchTypes
    <2>2. CASE ~Unst!Backwards(at)
        BY <1>9, <2>2 DEF Unst!kvm_arch_hardware_enable, MatchStep, QuietStep, SameGens
    <2> QED
        BY <2>1, <2>2
<1>10. CASE UNCHANGED tscVars
    BY <1>10 DEF tscVars, MatchStep, QuietStep, SameGens
<1>11. ASSUME NEW c \in TscVcpus, NEW old \in OldMsrs, Unst!kvm_write_system_time_tsc(c, old) PROVE TscShapes' /\ MatchStep
    <2>1. TscShapes' /\ SameGens /\ kvm'.matched = kvm.matched /\ kvm'.backwards = kvm.backwards /\ kvm'.old = old
        BY <1>11 DEF Unst!kvm_write_system_time_tsc, SameGens
    <2>2. UNCHANGED <<tscOnline, tscPc, tscMaster, based, tscRaced>>
        BY <1>11 DEF Unst!kvm_write_system_time_tsc
    <2>3. CASE kvm.old = old
        BY <1>11, <2>1, <2>2, <2>3 DEF Unst!kvm_write_system_time_tsc, MatchStep, QuietStep
    <2>4. CASE kvm.old # old
        <3>1. tscUpdate' = tscUpdate \cup {c}
            BY <1>11, <2>4 DEF Unst!kvm_write_system_time_tsc
        <3>2. tscUpdate' \in SUBSET TscVcpus /\ tscUpdate' # {}
            BY <3>1 DEF MatchTypes
        <3> QED
            BY <2>1, <2>2, <3>2 DEF MatchStep, QuietStep
    <2> QED
        BY <2>3, <2>4
<1> QED
    BY <1>1, <1>2, <1>3, <1>4, <1>5, <1>6, <1>7, <1>8, <1>9, <1>10, <1>11 DEF Unst!TscNext

(* On synchronised counters a write gives the offset of its generation, nothing else but the guest changes one. *)
LEMMA AnyOffset ==
    ASSUME ~Unstable, MatchInv, OneOffset, [TscNext]_tscVars PROVE OffsetStep
<1> SUFFICES ASSUME ~kvm'.backwards PROVE OffsetStep
    BY DEF OffsetStep
<1> USE DEF MatchInv, TscShapes, TscFields, KvmFields
<1>1. \A c \in TscVcpus : Khz[c] \in Nat
    BY TscAssumption
<1>2. ASSUME NEW c \in TscVcpus, NEW data \in Nat, kvm_synchronize_tsc(c, data), tscOnline' = tscOnline \cup {c}
      PROVE  OffsetStep
    <2> DEFINE m == Matches(c, data)
               o == data - guestTsc * Khz[c]
    <2>1. kvm'.backwards = kvm.backwards /\ kvm'.gen = (IF m THEN kvm.gen ELSE kvm.gen + 1)
        BY <1>2 DEF kvm_synchronize_tsc, NextGen
    <2>2. kvm'.offset = IF m THEN kvm.offset ELSE o
        BY <1>2 DEF kvm_synchronize_tsc, kvm_compute_l1_tsc_offset
    <2>3. v'[c].gen = kvm'.gen /\ v'[c].adjust = 0 /\ \A d \in TscVcpus \ {c} : v'[d] = v[d]
        BY <1>2 DEF kvm_synchronize_tsc, NextGen
    <2>4. v'[c].offset = IF m THEN kvm.offset ELSE o
        BY <1>2 DEF kvm_synchronize_tsc, kvm_compute_l1_tsc_offset
    <2>5. o \in Int
        BY <1>1
    <2>6. ~kvm.backwards
        BY <2>1
    <2>7. kvm.offset \in Int
        BY <2>6 DEF OneOffset
    <2> HIDE DEF m, o
    <2>8. WriteOffset(c)
        BY <1>2, <2>1, <2>2, <2>3, <2>4, <2>5, <2>7 DEF WriteOffset
    <2> QED
        BY <2>6, <2>8 DEF OffsetStep
<1>3. ASSUME NEW c \in TscVcpus, kvm_arch_vcpu_postcreate(c) PROVE OffsetStep
    BY <1>2, <1>3 DEF kvm_arch_vcpu_postcreate
<1>4. ASSUME NEW c \in TscVcpus, NEW e \in Data, WriteTsc(c, e) PROVE OffsetStep
    <2>1. tscOnline' = tscOnline \cup {c} /\ e \in Nat
        BY <1>4, TscAssumption DEF WriteTsc
    <2> QED
        BY <1>2, <1>4, <2>1 DEF WriteTsc
<1>5. ASSUME NEW c \in TscVcpus, NEW e \in Data, GuestWriteTsc(c, e) PROVE OffsetStep
    <2> DEFINE o == e - guestTsc * Khz[c]
    <2>1. o \in Int
        BY <1>1, TscAssumption
    <2>2. v'[c].offset = o /\ v'[c].own = TRUE /\ v'[c].adjust = 0 /\ v'[c].gen = v[c].gen
        BY <1>5 DEF GuestWriteTsc, kvm_compute_l1_tsc_offset
    <2>3. kvm' = kvm /\ tscOnline' = tscOnline /\ \A d \in TscVcpus \ {c} : v'[d] = v[d]
        BY <1>5 DEF GuestWriteTsc
    <2> HIDE DEF o
    <2> QED
        BY <2>1, <2>2, <2>3 DEF OffsetStep, KeepOffsets, OneOffset
<1>6. ASSUME NEW c \in TscVcpus, RunGuest(c) PROVE OffsetStep
    <2>1. kvm' = kvm /\ tscOnline' = tscOnline /\ \A d \in TscVcpus \ {c} : v'[d] = v[d]
        BY <1>6 DEF RunGuest
    <2>2. ~kvm.backwards /\ v[c].offset \in Int /\ v[c].adjust = 0
        BY <2>1 DEF OneOffset
    <2>3. Adjusted(c) = v[c].offset
        BY <1>1, <2>2 DEF Adjusted
    <2>4. v'[c].offset = v[c].offset /\ v'[c].own = v[c].own /\ v'[c].adjust = 0 /\ v'[c].gen = v[c].gen
        BY <1>6, <2>3 DEF RunGuest
    <2> QED
        BY <2>1, <2>2, <2>4 DEF OffsetStep, KeepOffsets, OneOffset
<1>7. ASSUME v' = v, tscOnline' = tscOnline, kvm'.gen = kvm.gen, kvm'.offset = kvm.offset, kvm'.backwards = kvm.backwards
      PROVE  OffsetStep
    BY <1>7 DEF OffsetStep, KeepOffsets, OneOffset
<1>8. ASSUME NEW c \in TscVcpus, CountMatching(c) \/ pvclock_update_vm_gtod_copy(c) PROVE OffsetStep
    BY <1>7, <1>8 DEF CountMatching, TrackMatching, pvclock_update_vm_gtod_copy
<1>11. ASSUME NEW c \in TscVcpus, NEW old \in OldMsrs, kvm_write_system_time_tsc(c, old) PROVE OffsetStep
    BY <1>7, <1>11 DEF kvm_write_system_time_tsc
<1>9. CASE pvclock_gtod_notify \/ TscTick \/ UNCHANGED tscVars
    BY <1>7, <1>9 DEF pvclock_gtod_notify, TscTick, tscVars
<1>10. ASSUME NEW at \in 0..1, kvm_arch_hardware_enable(at) PROVE OffsetStep
    <2>1. CASE Backwards(at)
        BY <1>10, <2>1 DEF kvm_arch_hardware_enable
    <2>2. CASE ~Backwards(at)
        BY <1>7, <1>10, <2>2 DEF kvm_arch_hardware_enable
    <2> QED
        BY <2>1, <2>2
<1> QED
    BY <1>3, <1>4, <1>5, <1>6, <1>8, <1>9, <1>10, <1>11 DEF TscNext

(* On synchronised counters a write gives the offset of its generation, nothing else but the guest changes one. *)
LEMMA OneRateOffset ==
    ASSUME ~Unstable, MatchInv, OneOffset, [OneRate!TscNext]_tscVars PROVE OffsetStep
<1> SUFFICES ASSUME ~kvm'.backwards PROVE OffsetStep
    BY DEF OffsetStep
<1> USE DEF MatchInv, TscShapes, TscFields, KvmFields
<1>1. \A c \in TscVcpus : SameRate[c] \in Nat
    BY TscAssumption DEF SameRate
<1>2. ASSUME NEW c \in TscVcpus, NEW data \in Nat, OneRate!kvm_synchronize_tsc(c, data), tscOnline' = tscOnline \cup {c}
      PROVE  OffsetStep
    <2> DEFINE m == OneRate!Matches(c, data)
               o == data - guestTsc * SameRate[c]
    <2>1. kvm'.backwards = kvm.backwards /\ kvm'.gen = (IF m THEN kvm.gen ELSE kvm.gen + 1)
        BY <1>2 DEF OneRate!kvm_synchronize_tsc, OneRate!NextGen
    <2>2. kvm'.offset = IF m THEN kvm.offset ELSE o
        BY <1>2 DEF OneRate!kvm_synchronize_tsc, OneRate!kvm_compute_l1_tsc_offset
    <2>3. v'[c].gen = kvm'.gen /\ v'[c].adjust = 0 /\ \A d \in TscVcpus \ {c} : v'[d] = v[d]
        BY <1>2 DEF OneRate!kvm_synchronize_tsc, OneRate!NextGen
    <2>4. v'[c].offset = IF m THEN kvm.offset ELSE o
        BY <1>2 DEF OneRate!kvm_synchronize_tsc, OneRate!kvm_compute_l1_tsc_offset
    <2>5. o \in Int
        BY <1>1
    <2>6. ~kvm.backwards
        BY <2>1
    <2>7. kvm.offset \in Int
        BY <2>6 DEF OneOffset
    <2> HIDE DEF m, o
    <2>8. WriteOffset(c)
        BY <1>2, <2>1, <2>2, <2>3, <2>4, <2>5, <2>7 DEF WriteOffset
    <2> QED
        BY <2>6, <2>8 DEF OffsetStep
<1>3. ASSUME NEW c \in TscVcpus, OneRate!kvm_arch_vcpu_postcreate(c) PROVE OffsetStep
    BY <1>2, <1>3 DEF OneRate!kvm_arch_vcpu_postcreate
<1>4. ASSUME NEW c \in TscVcpus, NEW e \in {4}, OneRate!WriteTsc(c, e) PROVE OffsetStep
    <2>1. tscOnline' = tscOnline \cup {c} /\ e \in Nat
        BY <1>4, TscAssumption DEF OneRate!WriteTsc
    <2> QED
        BY <1>2, <1>4, <2>1 DEF OneRate!WriteTsc
<1>5. ASSUME NEW c \in TscVcpus, NEW e \in {4}, OneRate!GuestWriteTsc(c, e) PROVE OffsetStep
    <2> DEFINE o == e - guestTsc * SameRate[c]
    <2>1. o \in Int
        BY <1>1, TscAssumption
    <2>2. v'[c].offset = o /\ v'[c].own = TRUE /\ v'[c].adjust = 0 /\ v'[c].gen = v[c].gen
        BY <1>5 DEF OneRate!GuestWriteTsc, OneRate!kvm_compute_l1_tsc_offset
    <2>3. kvm' = kvm /\ tscOnline' = tscOnline /\ \A d \in TscVcpus \ {c} : v'[d] = v[d]
        BY <1>5 DEF OneRate!GuestWriteTsc
    <2> HIDE DEF o
    <2> QED
        BY <2>1, <2>2, <2>3 DEF OffsetStep, KeepOffsets, OneOffset
<1>6. ASSUME NEW c \in TscVcpus, OneRate!RunGuest(c) PROVE OffsetStep
    <2>1. kvm' = kvm /\ tscOnline' = tscOnline /\ \A d \in TscVcpus \ {c} : v'[d] = v[d]
        BY <1>6 DEF OneRate!RunGuest
    <2>2. ~kvm.backwards /\ v[c].offset \in Int /\ v[c].adjust = 0
        BY <2>1 DEF OneOffset
    <2>3. OneRate!Adjusted(c) = v[c].offset
        BY <1>1, <2>2 DEF OneRate!Adjusted
    <2>4. v'[c].offset = v[c].offset /\ v'[c].own = v[c].own /\ v'[c].adjust = 0 /\ v'[c].gen = v[c].gen
        BY <1>6, <2>3 DEF OneRate!RunGuest
    <2> QED
        BY <2>1, <2>2, <2>4 DEF OffsetStep, KeepOffsets, OneOffset
<1>7. ASSUME v' = v, tscOnline' = tscOnline, kvm'.gen = kvm.gen, kvm'.offset = kvm.offset, kvm'.backwards = kvm.backwards
      PROVE  OffsetStep
    BY <1>7 DEF OffsetStep, KeepOffsets, OneOffset
<1>8. ASSUME NEW c \in TscVcpus, OneRate!CountMatching(c) \/ OneRate!pvclock_update_vm_gtod_copy(c) PROVE OffsetStep
    BY <1>7, <1>8 DEF OneRate!CountMatching, OneRate!TrackMatching, OneRate!pvclock_update_vm_gtod_copy
<1>11. ASSUME NEW c \in TscVcpus, NEW old \in BOOLEAN, OneRate!kvm_write_system_time_tsc(c, old) PROVE OffsetStep
    BY <1>7, <1>11 DEF OneRate!kvm_write_system_time_tsc
<1>9. CASE OneRate!pvclock_gtod_notify \/ OneRate!TscTick \/ UNCHANGED tscVars
    BY <1>7, <1>9 DEF OneRate!pvclock_gtod_notify, OneRate!TscTick, tscVars
<1>10. ASSUME NEW at \in 0..1, OneRate!kvm_arch_hardware_enable(at) PROVE OffsetStep
    <2>1. CASE OneRate!Backwards(at)
        BY <1>10, <2>1 DEF OneRate!kvm_arch_hardware_enable
    <2>2. CASE ~OneRate!Backwards(at)
        BY <1>7, <1>10, <2>2 DEF OneRate!kvm_arch_hardware_enable
    <2> QED
        BY <2>1, <2>2
<1> QED
    BY <1>3, <1>4, <1>5, <1>6, <1>8, <1>9, <1>10, <1>11 DEF OneRate!TscNext

(* The steps keep the invariant. *)
LEMMA MatchStepInv == ASSUME MatchInv, TscShapes', MatchStep PROVE MatchInv'
BY MatchStepGenerations, MatchStepCount, MatchStepMaster DEF MatchInv

(* The invariant implies that on the master clock all TSCs have matched. *)
LEMMA MatchInvExact == ASSUME MatchInv PROVE TscTypeOK /\ MasterClockMeansMatched /\ OneRate!MasterClockMeansMatched
<1>1. TscTypeOK
    <2>1. tscOnline = {} => kvm.matched = 0
        BY DEF MatchInv, MatchedCount
    <2>2. ASSUME ~tscRaced, BetweenLocks = {}, tscOnline # {}
          PROVE  kvm.matched + 1 <= Cardinality(tscOnline) /\ Cardinality(tscOnline) \in Nat
        <3>1. \A c \in TscVcpus : ~Pending(c)
            BY <2>2 DEF BetweenLocks, TscIdle, Pending
        <3>2. Cardinality(InGeneration) = kvm.matched + 1
            BY <2>2, <3>1 DEF MatchInv, MatchedCount
        <3> QED
            BY <3>2, GenerationFinite
    <2> QED
        BY <2>1, <2>2 DEF TscTypeOK, MatchInv, MatchTypes
<1>2. MasterClockMeansMatched
    BY DEF MasterClockMeansMatched, MatchInv, MasterMatched, InGeneration
<1>3. OneRate!Settled <=> Settled
    BY DEF OneRate!Settled, Settled, OneRate!BetweenLocks, BetweenLocks, OneRate!TscIdle, TscIdle
<1>4. OneRate!MasterClockMeansMatched
    BY <1>2, <1>3 DEF OneRate!MasterClockMeansMatched, MasterClockMeansMatched
<1> QED
    BY <1>1, <1>2, <1>4

(* One offset for each generation is what the guests rely on. *)
LEMMA OneOffsetExact == ASSUME ~Unstable => OneOffset PROVE GenerationsAgree /\ OneRate!GenerationsAgree
BY DEF OneOffset, GenerationsAgree, OneRate!GenerationsAgree

-----------------------------------------------------------------------------
RecordsInv ==
    /\ part = "clock" => ClockInv
    /\ part = "steal" => StealInv

(* kvm_setup_pvclock_page and record_steal_time, for any number of virtual CPUs, updates, reads and  *)
(* areas: what a guest reads from its clock page is one whole copy, a pause is reported, steal time  *)
(* is never counted twice and no stale translation is used; and no two running VCPUs see different   *)
(* master copies from the first update of the master clock that no other overlaps until two overlap. *)
THEOREM RecordsAlwaysWhole == TimeSpec => []RecordsWhole
<1>1. TimeInit => RecordsInv
    <2> SUFFICES ASSUME TimeInit PROVE RecordsInv
        OBVIOUS
    <2>1. CASE part = "clock"
        BY <2>1, ClockInitInv DEF TimeInit, RecordsInv
    <2>2. CASE part = "steal"
        BY <2>2, StealInitInv DEF TimeInit, RecordsInv
    <2> QED
        BY <2>1, <2>2 DEF RecordsInv
<1>2. RecordsInv /\ [TimeNext]_timeVars => RecordsInv'
    <2> SUFFICES ASSUME RecordsInv, [TimeNext]_timeVars PROVE RecordsInv'
        OBVIOUS
    <2>1. part' = part
        BY DEF TimeNext, timeVars
    <2>2. CASE part = "clock"
        <3>1. [ClockNext]_clockVars
            BY <2>2 DEF TimeNext, timeVars
        <3> QED
            BY <2>1, <2>2, <3>1, ClockStepInv DEF RecordsInv
    <2>3. CASE part = "steal"
        <3>1. [StealNext]_stealVars
            BY <2>3 DEF TimeNext, timeVars
        <3> QED
            BY <2>1, <2>3, <3>1, StealStepInv DEF RecordsInv
    <2> QED
        BY <2>1, <2>2, <2>3 DEF RecordsInv
<1>3. RecordsInv => RecordsWhole
    BY ClockInvExact, StealInvExact DEF RecordsInv, RecordsWhole
<1> QED
    BY <1>1, <1>2, <1>3, PTL DEF TimeSpec
-----------------------------------------------------------------------------
ClocksInv ==
    /\ part \in {"tsc", "tsc_same", "tsc_unstable"} => MatchInv
    /\ part \in {"tsc", "tsc_same"} /\ ~Unstable => OneOffset
    /\ part = "gtod" => GtodInv
    /\ part = "set_clock" => SetClockInv

(* kvm_synchronize_tsc, pvclock_update_vm_gtod_copy and KVM_SET_CLOCK, for any number of virtual CPUs *)
(* and readers, any rates and any times: the master clock is never used with a host clock that is not *)
(* the TSC, after a suspend or for an old kvmclock; each generation shows one time; a time that is    *)
(* read is on a line the timekeeper published, and the clock that was set is the one all count from.  *)
(* On the master clock all TSCs have matched, from a write that began its generation alone until two  *)
(* writes overlap between tsc_write_lock and pvclock_gtod_sync_lock.                                  *)
THEOREM ClocksAlwaysAgree == TimeSpec => []ClocksAgree
<1>1. TimeInit => ClocksInv
    BY TscInitInv, GtodInitInv, SetClockInitInv DEF TimeInit, ClocksInv
<1>2. ClocksInv /\ [TimeNext]_timeVars => ClocksInv'
    <2> SUFFICES ASSUME ClocksInv, [TimeNext]_timeVars PROVE ClocksInv'
        OBVIOUS
    <2>1. part' = part
        BY DEF TimeNext, timeVars
    <2>2. CASE part = "tsc"
        <3>1. [TscNext]_tscVars
            BY <2>2 DEF TimeNext, timeVars
        <3>2. MatchInv'
            BY <2>2, <3>1, AnyMatch, MatchStepInv DEF ClocksInv
        <3>3. ~Unstable => OneOffset'
            BY <2>2, <3>1, AnyOffset, OffsetStepInv DEF ClocksInv
        <3> QED
            BY <2>1, <2>2, <3>2, <3>3 DEF ClocksInv
    <2>3. CASE part = "tsc_same"
        <3>1. [OneRate!TscNext]_tscVars
            BY <2>3 DEF TimeNext, timeVars
        <3>2. MatchInv'
            BY <2>3, <3>1, OneRateMatch, MatchStepInv DEF ClocksInv
        <3>3. ~Unstable => OneOffset'
            BY <2>3, <3>1, OneRateOffset, OffsetStepInv DEF ClocksInv
        <3> QED
            BY <2>1, <2>3, <3>2, <3>3 DEF ClocksInv
    <2>4. CASE part = "tsc_unstable"
        <3>1. [Unst!TscNext]_tscVars
            BY <2>4 DEF TimeNext, timeVars
        <3>2. MatchInv'
            BY <2>4, <3>1, UnstableMatch, MatchStepInv DEF ClocksInv
        <3> QED
            BY <2>1, <2>4, <3>2 DEF ClocksInv
    <2>5. CASE part = "gtod"
        <3>1. [GtodNext]_gtodVars
            BY <2>5 DEF TimeNext, timeVars
        <3> QED
            BY <2>1, <2>5, <3>1, GtodStepInv DEF ClocksInv
    <2>6. CASE part = "set_clock"
        <3>1. [SetClockNext]_setClockVars
            BY <2>6 DEF TimeNext, timeVars
        <3> QED
            BY <2>1, <2>6, <3>1, SetClockStepInv DEF ClocksInv
    <2> QED
        BY <2>1, <2>2, <2>3, <2>4, <2>5, <2>6 DEF ClocksInv
<1>3. ClocksInv => ClocksAgree
    BY MatchInvExact, OneOffsetExact, GtodInvExact, SetClockInvExact DEF ClocksInv, ClocksAgree
<1> QED
    BY <1>1, <1>2, <1>3, PTL DEF TimeSpec
=============================================================================
