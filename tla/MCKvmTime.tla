----------------------------- MODULE MCKvmTime ------------------------------
(***************************************************************************)
(* Time in kvm/x86.c on small instances: the scale of a clock, the rate    *)
(* and the synchronisation of the guests' TSCs, a host whose frequency     *)
(* changes, the copy of the host's timekeeper, kvmclock with KVM_SET_CLOCK *)
(* the wall clock and steal time.  Each behaviour runs one of them, named  *)
(* by part; the others stay where they start.                              *)
(***************************************************************************)
EXTENDS KvmTsc, KvmClock

CONSTANT Parts          \* the components this run explores

VARIABLE part

timeVars == <<part, scaleVars, rateVars, tscVars, freqVars, gtodVars,
              clockVars, setClockVars, wallVars, stealVars>>

SomeDeltas  == {1, 7, 16, 31, 100, 200}
AskedKhz    == {0, 1, 5, 9, 40, 59, 60} \cup 16..24
SomeOffsets == {-40, -7, 0, 5, 33}
SomeRatios  == {3, 8, 13, 40}
SomeTscs    == {0, 1, 17, 100}
SameRate == [c \in TscVcpus |-> 1]
TwoRates == [c \in TscVcpus |-> IF c = "c1" THEN 2 ELSE 1]
\* Clocks that three updates crowd, that are read during one, and that are paused during one.
SomeBudgets == {[updates |-> 3, reads |-> 0, pauses |-> 0], [updates |-> 1, reads |-> 1, pauses |-> 0],
                [updates |-> 1, reads |-> 0, pauses |-> 1]}

\* A host without TSC scaling; virtual CPUs of one rate; and a host whose counters
\* are not synchronised.
NoControl == INSTANCE KvmTsc WITH HasControl <- FALSE
OneRate   == INSTANCE KvmTsc WITH Khz <- SameRate, Data <- {4}, OldMsrs <- BOOLEAN
Unst      == INSTANCE KvmTsc WITH Khz <- SameRate, Unstable <- TRUE, MaxSuspends <- 1

\* The variables of a component the behaviour does not run hold this value.
Unused == "unused"

RateUnused ==
    /\ l1Ratio = Unused /\ l1Offset = Unused /\ ratio = Unused
    /\ rateOffset = Unused /\ l2 = Unused /\ virtualKhz = Unused
    /\ catchup = Unused /\ answer = Unused
ClockUnused ==
    /\ clockMaster = Unused /\ clockPc = Unused /\ clockRequests = Unused
    /\ ipi = Unused /\ page = Unused /\ clockCopy = Unused
    /\ clockPaused = Unused /\ stopped = Unused /\ reader = Unused
    /\ accepted = Unused /\ work = Unused /\ crowded = Unused
    /\ clockLeft = Unused
SetClockUnused ==
    /\ setClockNow = Unused /\ tscsource = Unused /\ setClockMaster = Unused
    /\ setClockOffset = Unused /\ spc = Unused /\ user = Unused
    /\ set = Unused /\ setClockGot = Unused /\ setClockRequests = Unused
    /\ hv = Unused /\ running = Unused /\ enabled = Unused
    /\ setClockPaused = Unused /\ told = Unused
StealUnused ==
    /\ where = Unused /\ recording = Unused /\ msr = Unused /\ st = Unused /\ preempted = Unused
    /\ stealUpdate = Unused /\ delay = Unused /\ last = Unused
    /\ stale = Unused /\ flusher = Unused /\ sawOut = Unused
    /\ stealLeft = Unused

TimeInit ==
    /\ part \in Parts
    /\ ScaleInit /\ (part # "scale" => scaled_hz = Fixed /\ base_hz = Fixed)
    /\ CASE part = "rate" -> RateInit
         [] part = "catchup" -> NoControl!RateInit
         [] OTHER -> RateUnused
    /\ TscInit
    /\ FreqInit /\ (part # "freq" => hyperv)
    /\ GtodInit
    /\ IF part = "clock" THEN ClockInit ELSE ClockUnused
    /\ IF part = "set_clock" THEN SetClockInit ELSE SetClockUnused
    /\ WallInit /\ (part # "wall" => wall = 1 /\ mem.version = 0 /\ sec_hi_ofs)
    /\ IF part = "steal" THEN StealInit ELSE StealUnused

TimeNext ==
    \/ /\ part = "scale" /\ ScaleNext
       /\ UNCHANGED <<part, rateVars, tscVars, freqVars, gtodVars, clockVars,
                      setClockVars, wallVars, stealVars>>
    \/ /\ part = "rate" /\ RateNext
       /\ UNCHANGED <<part, scaleVars, tscVars, freqVars, gtodVars,
                      clockVars, setClockVars, wallVars, stealVars>>
    \/ /\ part = "catchup" /\ NoControl!RateNext
       /\ UNCHANGED <<part, scaleVars, tscVars, freqVars, gtodVars,
                      clockVars, setClockVars, wallVars, stealVars>>
    \/ /\ part = "tsc" /\ TscNext
       /\ UNCHANGED <<part, scaleVars, rateVars, freqVars, gtodVars,
                      clockVars, setClockVars, wallVars, stealVars>>
    \/ /\ part = "tsc_same" /\ OneRate!TscNext
       /\ UNCHANGED <<part, scaleVars, rateVars, freqVars, gtodVars,
                      clockVars, setClockVars, wallVars, stealVars>>
    \/ /\ part = "tsc_unstable" /\ Unst!TscNext
       /\ UNCHANGED <<part, scaleVars, rateVars, freqVars, gtodVars,
                      clockVars, setClockVars, wallVars, stealVars>>
    \/ /\ part = "freq" /\ FreqNext
       /\ UNCHANGED <<part, scaleVars, rateVars, tscVars, gtodVars,
                      clockVars, setClockVars, wallVars, stealVars>>
    \/ /\ part = "gtod" /\ GtodNext
       /\ UNCHANGED <<part, scaleVars, rateVars, tscVars, freqVars,
                      clockVars, setClockVars, wallVars, stealVars>>
    \/ /\ part = "clock" /\ ClockNext
       /\ UNCHANGED <<part, scaleVars, rateVars, tscVars, freqVars, gtodVars,
                      setClockVars, wallVars, stealVars>>
    \/ /\ part = "set_clock" /\ SetClockNext
       /\ UNCHANGED <<part, scaleVars, rateVars, tscVars, freqVars, gtodVars,
                      clockVars, wallVars, stealVars>>
    \/ /\ part = "wall" /\ WallNext
       /\ UNCHANGED <<part, scaleVars, rateVars, tscVars, freqVars, gtodVars,
                      clockVars, setClockVars, stealVars>>
    \/ /\ part = "steal" /\ StealNext
       /\ UNCHANGED <<part, scaleVars, rateVars, tscVars, freqVars, gtodVars,
                      clockVars, setClockVars, wallVars>>

\* Code that runs goes on running: the loops of kvm_get_time_scale, the
\* timekeeper and its readers, the store of the wall clock and a guest that
\* has begun to read it.
TimeSpec ==
    /\ TimeInit /\ [][TimeNext]_timeVars
    /\ WF_scaleVars(part = "scale" /\ (ShiftDown \/ Narrow \/ ShiftUp \/ Divide))
    /\ WF_gtodVars(part = "gtod" /\ WriterStep)
    /\ \A c \in GtodCpus : WF_gtodVars(part = "gtod" /\ ReaderStep(c))
    /\ WF_wallVars(part = "wall" /\ Host)
    /\ WF_freqVars(part = "freq" /\ (NotifySkip \/ NotifyKhz \/ NotifyAsk \/ NotifyKick \/ Switch))
    /\ WF_freqVars(part = "freq" /\ (HvAsk \/ HvEnd \/ \E new \in Freqs : HvSet(new)))
    /\ \A p \in FreqCpus : WF_freqVars(part = "freq" /\ kvmclock_cpu_online(p))
    /\ \A c \in FreqVcpus :
         /\ WF_freqVars(part = "freq" /\ kvm_guest_time_update_freq(c))
         /\ WF_freqVars(part = "freq" /\ FreqExitGuest(c))
         /\ SF_freqVars(part = "freq" /\ FreqEnterGuest(c))
    /\ WF_wallVars(part = "wall" /\ wallRpc # "idle" /\ Guest)

-----------------------------------------------------------------------------
\* kvm_synchronize_tsc, pvclock_update_vm_gtod_copy and KVM_SET_CLOCK: on the
\* master clock all TSCs have matched, unless one was written between the locks
\* of another's write, a time that is read is on a line the timekeeper
\* published, and the clock that was set is the one KVM_GET_CLOCK and every
\* guest then count from.
ClocksAgree ==
    /\ part \in {"tsc", "tsc_same", "tsc_unstable"} => TscTypeOK
    /\ part = "tsc" => MasterClockMeansMatched /\ GenerationsAgree
    /\ part = "tsc_same" => OneRate!MasterClockMeansMatched /\ OneRate!GenerationsAgree
    /\ part = "gtod" => OnTheLine /\ TrueMeansTsc
    /\ part = "set_clock" => NeverNegative /\ GetFollowsSet /\ GuestAgrees /\ AllAreTold

\* kvm_setup_pvclock_page and record_steal_time: what a guest reads from its
\* clock page is one whole copy, no two running virtual CPUs see different
\* master copies unless two updated it at once, a pause is reported, and steal
\* time is counted once and never lets a virtual CPU run on translations the
\* guest has flushed.
RecordsWhole ==
    /\ part = "clock" =>
         ClockTypeOK /\ OneCopyVisible /\ ReadersConsistent /\ StoppedIsTold
    /\ part = "steal" =>
         StealTypeOK /\ NoStaleRun /\ RunningNotPreempted /\ VersionSteady /\ StealCountedOnce

\* kvm_get_time_scale, kvm_set_tsc_khz and kvmclock_cpufreq_notifier: the
\* division cannot fault and the scale is close to the exact one, an accepted
\* rate is the rate the guest sees, also below a nested hypervisor, and no
\* guest runs on a counter faster than it was told.
RatesExact ==
    /\ part = "scale" => ScaleTypeOK /\ DivisionFits /\ CloseToExact
    /\ part = "rate" => RateTypeOK /\ RunsAtRequestedRate /\ L2SeesScaledL1
    /\ part = "catchup" => NoControl!RunsAtRequestedRate
    /\ part = "freq" => FreqTypeOK /\ NeverFasterThanTold /\ ToldOrAsked

\* A guest's counter never runs backwards unless it is written, a suspend
\* keeps counters that ran together together, the wall clock that is read is
\* one the host stored, and the scale, the readers of the timekeeper and of
\* the wall clock come to an end.
TimeProceeds ==
    /\ TscMonotonic /\ ReadsOneTime
    /\ [][part = "tsc_same" => OneRate!KeptTogether]_tscVars
    /\ part = "scale" => Terminates
    /\ part = "gtod" => GtodReadersReturn
    /\ part = "wall" => WallReadersReturn
    /\ part = "freq" => AskedIsUpdated
=============================================================================
