------------------------------- MODULE SbRun --------------------------------
(***************************************************************************)
(* A run of sysbench, in two parts: the timers of its reports, and its     *)
(* threads from creation to the final report.                              *)
(***************************************************************************)
EXTENDS Integers, Sequences, FiniteSetsExt, SequencesExt, Naturals

(* The timers of sysbench (sb_timer.c, sb_timer.h): each worker times its   *)
(* events with a timer of its own, checkpoints copy and reset all timers,   *)
(* and the alarm of a forced shutdown reports from a signal handler, which  *)
(* runs on top of whichever thread the signal interrupts.  Every reading of *)
(* the clock gives a later time.                                            *)

CONSTANTS TimerWorkers,
          QueueTimes,   \* the times events may have waited: 0 only without --rate
          Word,         \* size of the word times are kept in (2^64)
          TimerMaxEvents,    \* bound: events of each worker
          TimerMaxCheckpoints, \* bound: reports of the checkpoints thread
          TimerAlarm         \* TRUE if the forced shutdown is armed

ASSUME TimerQueueAssumption == QueueTimes \subseteq Nat /\ QueueTimes # {}
ASSUME WordAssumption == Word \in Nat \ {0}
ASSUME FlagAssumption == TimerAlarm \in BOOLEAN

INFINITE == Word - 1        \* UINT64_MAX
TimerReporters == {"checkpoints", "handler"}
TimerThreads == TimerWorkers \cup {"checkpoints"}

VARIABLES
    timerClock,
    timerPc, done,           \* each worker: its place, its events
    queued,             \* how long its event waited in the queue
    cut,                \* was its timer reset since?
    timer, timerLock,        \* timers[w] and who holds its lock
    copy,               \* timers_copy[w]
    log, logcopy,       \* the latencies the timer, the copy is about
    unstopped,          \* for each copy: was the worker in an event?
    timerRpc, todo,          \* each reporter: its place, the timers it has yet to copy
    checkpoints,        \* reports of the checkpoints thread
    report,             \* the latency statistics of the last report
    interrupted,        \* the thread the signal handler runs on, or "none"
    unfinished          \* transactions the forced shutdown counts as unfinished

timerWvars == <<timerPc, done, queued, cut>>
timerCvars == <<copy, logcopy, unstopped>>
timerRvars == <<timerRpc, todo, checkpoints, report, unfinished>>
timerVars == <<timerClock, timerWvars, timer, log, timerLock, timerCvars, timerRvars, interrupted>>

\* sb_timer_reset leaves the times of start and end alone.
sb_timer_reset(t) == [t EXCEPT !.min_time = INFINITE, !.max_time = 0,
                               !.sum_time = 0, !.events = 0, !.queue_time = 0]
sb_timer_init == [start |-> 0, end |-> 0, min_time |-> INFINITE, max_time |-> 0,
                  sum_time |-> 0, events |-> 0, queue_time |-> 0]

TIMESPEC_DIFF(a, b) == (a - b) % Word

\* "check whether the timer is running"
sb_timer_running(t) == TIMESPEC_DIFF(t.start, t.end) > 0

sb_timer_stop(t, now) ==
    LET elapsed == (TIMESPEC_DIFF(now, t.start) + t.queue_time) % Word
    IN  [t EXCEPT !.end = now, !.events = @ + 1, !.sum_time = (@ + elapsed) % Word,
                  !.min_time = IF elapsed < @ THEN elapsed ELSE @,
                  !.max_time = IF elapsed > @ THEN elapsed ELSE @]

sb_timer_merge(t1, t2) ==
    [sb_timer_init EXCEPT !.sum_time = t1.sum_time + t2.sum_time,
                          !.events = t1.events + t2.events,
                          !.max_time = IF t1.max_time > t2.max_time THEN t1.max_time ELSE t2.max_time,
                          !.min_time = IF t1.min_time < t2.min_time THEN t1.min_time ELSE t2.min_time]

sb_timer_avg(t) == IF t.events = 0 THEN 0 ELSE t.sum_time \div t.events
sb_timer_min(t) == IF t.events = 0 THEN 0 ELSE t.min_time

TimerInit == /\ timerClock = 1
             /\ timerPc = [w \in TimerWorkers |-> "idle"] /\ done = [w \in TimerWorkers |-> 0]
             /\ queued = [w \in TimerWorkers |-> 0] /\ cut = [w \in TimerWorkers |-> FALSE]
             /\ timer = [w \in TimerWorkers |-> sb_timer_init] /\ copy = timer
             /\ timerLock = [w \in TimerWorkers |-> "free"]
             /\ log = [w \in TimerWorkers |-> <<>>] /\ logcopy = log
             /\ unstopped = [w \in TimerWorkers |-> FALSE]
             /\ timerRpc = [r \in TimerReporters |-> "idle"] /\ todo = [r \in TimerReporters |-> {}]
             /\ checkpoints = 0 /\ unfinished = 0
             /\ report = [min |-> 0, avg |-> 0, max |-> 0, sum |-> 0]
             /\ interrupted = "none"

\* A thread under the signal handler does not go on, and exit ends them all.
TimerRuns(t) == t # interrupted /\ timerRpc["handler"] # "exited"
-----------------------------------------------------------------------------
(* The workers. *)

\* sb_more_events: with a rate, the time in the queue is noted in the timer,
\* without its lock.
TimerNextEvent(w) ==
    /\ TimerRuns(w) /\ timerPc[w] = "idle" /\ done[w] < TimerMaxEvents
    /\ \E q \in QueueTimes :
          queued' = [queued EXCEPT ![w] = q] /\ timer' = [timer EXCEPT ![w].queue_time = q]
    /\ cut' = [cut EXCEPT ![w] = FALSE]
    /\ timerPc' = [timerPc EXCEPT ![w] = "ready"]
    /\ UNCHANGED <<timerClock, done, log, timerLock, timerCvars, timerRvars, interrupted>>

\* The spinlock of the worker's own timer, in sb_timer_start and sb_timer_stop.
LockTimer(w) ==
    /\ TimerRuns(w) /\ timerPc[w] \in {"ready", "event"} /\ timerLock[w] = "free"
    /\ timerLock' = [timerLock EXCEPT ![w] = w]
    /\ timerPc' = [timerPc EXCEPT ![w] = IF @ = "ready" THEN "starting" ELSE "stopping"]
    /\ UNCHANGED <<timerClock, done, queued, cut, timer, log, timerCvars, timerRvars, interrupted>>

\* sb_timer_start
Start(w) == /\ TimerRuns(w) /\ timerPc[w] = "starting"
            /\ timer' = [timer EXCEPT ![w].start = timerClock] /\ timerClock' = timerClock + 1
            /\ timerLock' = [timerLock EXCEPT ![w] = "free"]
            /\ timerPc' = [timerPc EXCEPT ![w] = "event"]
            /\ UNCHANGED <<done, queued, cut, log, timerCvars, timerRvars, interrupted>>

TimerStop(w) == /\ TimerRuns(w) /\ timerPc[w] = "stopping"
                /\ timer' = [timer EXCEPT ![w] = sb_timer_stop(@, timerClock)] /\ timerClock' = timerClock + 1
                /\ log' = [log EXCEPT ![w] = Append(@, timerClock - timer[w].start + IF cut[w] THEN 0 ELSE queued[w])]
                /\ timerLock' = [timerLock EXCEPT ![w] = "free"]
                /\ timerPc' = [timerPc EXCEPT ![w] = "idle"] /\ done' = [done EXCEPT ![w] = @ + 1]
                /\ UNCHANGED <<queued, cut, timerCvars, timerRvars, interrupted>>
-----------------------------------------------------------------------------
(* report_cumulative, by the checkpoints thread or by the signal handler.   *)

TimerThread(r) == IF r = "handler" THEN timerRpc[r] # "exited" ELSE TimerRuns(r)

BeginCheckpoint ==
    /\ TimerRuns("checkpoints") /\ timerRpc["checkpoints"] = "idle" /\ checkpoints < TimerMaxCheckpoints
    /\ timerRpc' = [timerRpc EXCEPT !["checkpoints"] = "locking"]
    /\ todo' = [todo EXCEPT !["checkpoints"] = TimerWorkers]
    /\ UNCHANGED <<timerClock, timerWvars, timer, log, timerLock, timerCvars, checkpoints, report, unfinished, interrupted>>

\* sigalrm_forced_shutdown_handler, on top of any thread
ForceShutdown(t) ==
    /\ TimerAlarm /\ interrupted = "none" /\ timerRpc["handler"] = "idle"
    /\ interrupted' = t
    /\ timerRpc' = [timerRpc EXCEPT !["handler"] = "locking"]
    /\ todo' = [todo EXCEPT !["handler"] = TimerWorkers]
    /\ UNCHANGED <<timerClock, timerWvars, timer, log, timerLock, timerCvars, checkpoints, report, unfinished>>

\* sb_timer_checkpoint: lock the timer of the next worker,
LockForCopy(r, w) ==
    /\ TimerThread(r) /\ timerRpc[r] = "locking" /\ w \in todo[r] /\ timerLock[w] = "free"
    /\ timerLock' = [timerLock EXCEPT ![w] = r]
    /\ timerRpc' = [timerRpc EXCEPT ![r] = "copying"]
    /\ UNCHANGED <<timerClock, timerWvars, timer, log, timerCvars, todo, checkpoints, report, unfinished, interrupted>>

\* copy it, reset it and unlock it.
CopyTimer(r, w) ==
    /\ TimerThread(r) /\ timerRpc[r] = "copying" /\ w \in todo[r] /\ timerLock[w] = r
    /\ copy' = [copy EXCEPT ![w] = timer[w]] /\ logcopy' = [logcopy EXCEPT ![w] = log[w]]
    /\ unstopped' = [unstopped EXCEPT ![w] = timerPc[w] \in {"event", "stopping"}]
    /\ timer' = [timer EXCEPT ![w] = sb_timer_reset(@)] /\ log' = [log EXCEPT ![w] = <<>>]
    /\ cut' = [cut EXCEPT ![w] = timerPc[w] # "idle"]
    /\ timerLock' = [timerLock EXCEPT ![w] = "free"]
    /\ todo' = [todo EXCEPT ![r] = @ \ {w}]
    /\ timerRpc' = [timerRpc EXCEPT ![r] = "locking"]
    /\ UNCHANGED <<timerClock, timerPc, done, queued, checkpoints, report, unfinished, interrupted>>

\* The statistics of all timers' copies
Merged == FoldFunction(sb_timer_merge, sb_timer_init, copy)
Statistics == [min |-> sb_timer_min(Merged), avg |-> sb_timer_avg(Merged),
               max |-> Merged.max_time, sum |-> Merged.sum_time]

\* The report; in a forced shutdown sb_report_cumulative stops the copies of
\* running timers, the statistics being computed already, and exit(2) follows.
Report(r) ==
    LET running == {w \in TimerWorkers : sb_timer_running(copy[w])}
    IN  /\ TimerThread(r) /\ timerRpc[r] = "locking" /\ todo[r] = {}
        /\ report' = Statistics
        /\ IF interrupted # "none"
           THEN /\ unfinished' = Cardinality(running)
                /\ copy' = [w \in TimerWorkers |-> IF w \in running THEN sb_timer_stop(copy[w], timerClock)
                                              ELSE copy[w]]
           ELSE UNCHANGED <<unfinished, copy>>
        /\ checkpoints' = checkpoints + (IF r = "checkpoints" THEN 1 ELSE 0)
        /\ timerRpc' = [timerRpc EXCEPT ![r] = IF r = "handler" THEN "exited" ELSE "idle"]
        /\ UNCHANGED <<timerClock, timerWvars, timer, log, timerLock, logcopy, unstopped, todo, interrupted>>
-----------------------------------------------------------------------------
TimerNext == \/ \E w \in TimerWorkers : TimerNextEvent(w) \/ LockTimer(w) \/ Start(w) \/ TimerStop(w)
             \/ BeginCheckpoint
             \/ \E t \in TimerThreads : ForceShutdown(t)
             \/ \E r \in TimerReporters : \/ Report(r)
                                          \/ \E w \in TimerWorkers : LockForCopy(r, w) \/ CopyTimer(r, w)

\* Every thread that can run goes on, and the alarm goes off.
TimerFairness == /\ \A w \in TimerWorkers : WF_timerVars(TimerNextEvent(w) \/ LockTimer(w) \/ Start(w) \/ TimerStop(w))
                 /\ \A r \in TimerReporters :
                       /\ WF_timerVars(Report(r))
                       /\ \A w \in TimerWorkers : SF_timerVars(LockForCopy(r, w)) /\ WF_timerVars(CopyTimer(r, w))
                 /\ WF_timerVars(\E t \in TimerThreads : ForceShutdown(t))

TimerSpec == TimerInit /\ [][TimerNext]_timerVars /\ TimerFairness
-----------------------------------------------------------------------------
TimerType == [start : Nat, end : Nat, min_time : Nat, max_time : Nat, sum_time : Nat,
              events : Nat, queue_time : Nat]

\* Timers hold times of the clock, and only a worker or a reporter holds a
\* timer's lock.
TimerTypeOK == /\ timerClock \in Nat /\ timerPc \in [TimerWorkers -> {"idle", "ready", "starting", "event", "stopping"}]
               /\ done \in [TimerWorkers -> 0 .. TimerMaxEvents] /\ queued \in [TimerWorkers -> Nat]
               /\ cut \in [TimerWorkers -> BOOLEAN]
               /\ {timer, copy} \subseteq [TimerWorkers -> TimerType]
               /\ timerLock \in [TimerWorkers -> TimerWorkers \cup TimerReporters \cup {"free"}]
               /\ timerRpc \in [TimerReporters -> {"idle", "locking", "copying", "exited"}]
               /\ todo \in [TimerReporters -> SUBSET TimerWorkers]
               /\ interrupted \in TimerThreads \cup {"none"} /\ unfinished \in 0 .. Cardinality(TimerWorkers)

LastOr(v, s) == IF s = {} THEN v ELSE Max(s)
Agrees(t, l) == LET s == ToSet(l)
                IN  /\ t.events = Len(l) /\ t.sum_time = FoldSeq(+, 0, l)
                    /\ t.max_time = LastOr(0, s)
                    /\ t.min_time = IF s = {} THEN INFINITE ELSE Min(s)

\* What a timer has added up are the events its worker ended since the last
\* checkpoint: their number and the least, largest and total time they took
\* in the queue and in execution, the time in the queue being left out of an
\* event in whose course there was a checkpoint.
TimersExact == \A w \in TimerWorkers : Agrees(timer[w], log[w])

\* A worker in an event when its timer was copied is counted by the forced
\* shutdown, whatever checkpoints came before.
HungCounted ==
    timerRpc["handler"] = "exited" /\ timerRpc["checkpoints"] = "idle" =>
        unfinished >= Cardinality({w \in TimerWorkers : unstopped[w]})

\* The statistics of a report are those of the events in the timers' copies, if
\* no other report was being made in the meantime (the handler has the
\* checkpoints thread to itself when it interrupted it outside a report).
Alone(r) == \/ interrupted = "none"
            \/ r = "handler" /\ interrupted = "checkpoints" /\ timerRpc["checkpoints"] = "idle"
ReportExact ==
    [][\A r \in TimerReporters : Report(r) /\ Alone(r) =>
            LET all == UNION {ToSet(logcopy[w]) : w \in TimerWorkers}
            IN  /\ report'.max = LastOr(0, all)
                /\ report'.min = (IF all = {} THEN 0 ELSE Min(all))
                /\ report'.min <= report'.avg /\ report'.avg <= report'.max]_timerVars

-----------------------------------------------------------------------------
(* run_test of sysbench.c: the main thread creates the workers and up to   *)
(* three background threads, starts them together through a barrier, warms *)
(* up, starts the reports through a second barrier, joins the workers,     *)
(* silences and cancels the background threads and prints the last report. *)
(* An alarm ends the process if the workers do not get ready in time, or,  *)
(* with --forced-shutdown, if they do not end in time.                     *)
(* What a running worker does is SbEvents, how the barrier works SbBarrier.*)

CONSTANTS order,          \* the workers, in the order of their ids
          Background,     \* those of "report", "gen" and "checkpoints" asked for
          n_checkpoints,  \* number of --report-checkpoints
          Warmup,         \* is --warmup-time set?
          force_shutdown  \* the settings of --forced-shutdown

ASSUME OrderAssumption ==
    /\ order \in Seq({order[k] : k \in DOMAIN order}) /\ order # <<>>
    /\ \A j, k \in DOMAIN order : j # k => order[j] # order[k]
    /\ \A k \in DOMAIN order : order[k] \notin {"main", "report", "gen", "checkpoints"}
ASSUME BackgroundAssumption == Background \subseteq {"report", "gen", "checkpoints"}
ASSUME OptionsAssumption == /\ n_checkpoints \in Nat
                            /\ Warmup \in BOOLEAN
                            /\ force_shutdown \subseteq BOOLEAN

runThreads == Len(order)
RunWorkers == {order[k] : k \in 1 .. runThreads}
RunReporters == Background \cap {"report", "checkpoints"}

\* Who meets at worker_barrier and at report_barrier.
WorkerParty == {"main"} \cup RunWorkers \cup (Background \cap {"gen"})
ReportParty == {"main"} \cup RunReporters

VARIABLES
    mpc,              \* where run_test is
    runPc,               \* where each worker and background thread is
    worker_barrier,   \* who has arrived, and how it opened
    report_barrier,
    runError,            \* sb_globals.error
    threads_running,
    limited,          \* is sb_globals.max_events in force?
    runSilent,           \* sb_globals.report_interval is 0
    runCreated,          \* background threads that have set their _created flag
    joined,           \* workers joined so far
    runReports,          \* checkpoint reports made
    alarm,            \* "off", "init" or "force"
    handler,          \* of SIGALRM: the thread it runs on, for which alarm, and whether it
                      \* waits for a lock of that thread
    outcome           \* "running", or how the process ended

runVars == <<mpc, runPc, worker_barrier, report_barrier, runError, threads_running, limited,
          runSilent, runCreated, joined, runReports, alarm, handler, outcome>>

NoHandler == [on |-> "none", kind |-> "off", stuck |-> FALSE]

Closed == [arrived |-> {}, open |-> FALSE, failed |-> FALSE]

RunInit == /\ mpc = "init"
           /\ runPc = [t \in RunWorkers \cup Background |-> "none"]
           /\ worker_barrier = Closed /\ report_barrier = Closed
           /\ runError = FALSE /\ threads_running = 0 /\ limited = TRUE
           /\ runSilent = ("report" \notin Background)
           /\ runCreated = {} /\ joined = 0 /\ runReports = 0
           /\ alarm = "off" /\ handler = NoHandler /\ outcome = "running"

\* run_test returns and the process ends.
RunExit(how) == outcome' = how
RunGo(t, place) == runPc' = [runPc EXCEPT ![t] = place]
-----------------------------------------------------------------------------
(* The barriers.  The last to arrive at worker_barrier runs                *)
(* threads_started_callback, which fails if a thread failed to initialize. *)

threads_started_callback == runError

ArriveAtWorkers(t) ==
    LET now == worker_barrier.arrived \cup {t}
        last == now = WorkerParty
        failed == last /\ threads_started_callback
    IN  /\ worker_barrier' = [arrived |-> now, open |-> last, failed |-> failed]
        /\ threads_running' = (IF last /\ ~failed THEN runThreads ELSE threads_running)

ArriveAtReports(t) ==
    LET now == report_barrier.arrived \cup {t}
    IN  report_barrier' = [arrived |-> now, open |-> now = ReportParty, failed |-> FALSE]
-----------------------------------------------------------------------------
(* The main thread. *)

\* The test's init and prepare may fail.
Prepare == /\ mpc = "init"
           /\ \/ mpc' = "create" /\ UNCHANGED outcome
              \/ UNCHANGED mpc /\ RunExit("failed")
           /\ UNCHANGED <<runPc, worker_barrier, report_barrier, runError, threads_running, limited,
                          runSilent, runCreated, joined, runReports, alarm>>

\* The order of creation: report, event generation, checkpoints, workers.
Before(t) == CASE t = "report" -> {}
               [] t = "gen" -> Background \cap {"report"}
               [] t = "checkpoints" -> Background \ {"checkpoints"}
               [] OTHER -> Background \cup {order[j] : j \in 1 .. (CHOOSE k \in 1 .. runThreads : order[k] = t) - 1}

\* sb_thread_create may fail, which ends the run.
Create(t) == /\ mpc = "create"
             /\ runPc[t] = "none" /\ \A u \in Before(t) : runPc[u] # "none"
             /\ \/ RunGo(t, "start") /\ UNCHANGED outcome
                \/ UNCHANGED runPc /\ RunExit("failed")
             /\ UNCHANGED <<mpc, worker_barrier, report_barrier, runError, threads_running, limited,
                            runSilent, runCreated, joined, runReports, alarm>>

\* The alarm for slow initialization is set, and the event limit lifted for
\* the warm-up, before the main thread goes to the barrier.
LimitInWarmup == limited /\ ~Warmup

Arm == /\ mpc = "create"
       /\ \A t \in RunWorkers \cup Background : runPc[t] # "none"
       /\ alarm' = "init"
       /\ limited' = LimitInWarmup
       /\ mpc' = "arrive"
       /\ UNCHANGED <<runPc, worker_barrier, report_barrier, runError, threads_running,
                      runSilent, runCreated, joined, runReports, outcome>>

MainArrives == /\ mpc = "arrive"
               /\ ArriveAtWorkers("main")
               /\ mpc' = "started"
               /\ UNCHANGED <<runPc, report_barrier, runError, limited,
                              runSilent, runCreated, joined, runReports, alarm, outcome>>

\* "Threads initialization failed!"
InitFailed == /\ mpc = "started" /\ worker_barrier.open /\ worker_barrier.failed
              /\ RunExit("failed")
              /\ UNCHANGED <<mpc, runPc, worker_barrier, report_barrier, runError, threads_running, limited,
                             runSilent, runCreated, joined, runReports, alarm>>

\* alarm(0), and the alarm for the forced shutdown.
Started == /\ mpc = "started" /\ worker_barrier.open /\ ~worker_barrier.failed
           /\ \E forced \in force_shutdown : alarm' = (IF forced THEN "force" ELSE "off")
           /\ mpc' = (IF Warmup THEN "warmup" ELSE "signal")
           /\ UNCHANGED <<runPc, worker_barrier, report_barrier, runError, threads_running, limited,
                          runSilent, runCreated, joined, runReports, outcome>>

\* After the warm-up the limit is back and checkpoint() drops the statistics.
WarmedUp == /\ mpc = "warmup"
            /\ limited' = TRUE
            /\ mpc' = "checkpoint"
            /\ UNCHANGED <<runPc, worker_barrier, report_barrier, runError, threads_running,
                           runSilent, runCreated, joined, runReports, alarm, outcome>>

\* The checkpoint over, the reporting threads are told to start.
SignalReports == /\ mpc \in {"checkpoint", "signal"}
                 /\ ArriveAtReports("main")
                 /\ mpc' = "join"
                 /\ UNCHANGED <<runPc, worker_barrier, runError, threads_running, limited,
                                runSilent, runCreated, joined, runReports, alarm, outcome>>

\* sb_thread_join_workers: one worker after the other.
Join == /\ mpc = "join" /\ report_barrier.open
        /\ joined < runThreads /\ runPc[order[joined + 1]] = "gone"
        /\ joined' = joined + 1
        /\ threads_running' = threads_running - 1
        /\ UNCHANGED <<mpc, runPc, worker_barrier, report_barrier, runError, limited,
                       runSilent, runCreated, runReports, alarm, outcome>>

\* The timers are stopped, periodic reports silenced and the alarm cleared.
Silenced == TRUE

RunStop == /\ mpc = "join" /\ joined = runThreads
           /\ runSilent' = Silenced
           /\ alarm' = "off"
           /\ mpc' = "cleanup"
           /\ UNCHANGED <<runPc, worker_barrier, report_barrier, runError, threads_running, limited,
                          runCreated, joined, runReports, outcome>>

\* The test's cleanup may fail.
Cleanup == /\ mpc = "cleanup"
           /\ \/ mpc' = "report" /\ UNCHANGED outcome
              \/ UNCHANGED mpc /\ RunExit("failed")
           /\ UNCHANGED <<runPc, worker_barrier, report_barrier, runError, threads_running, limited,
                          runSilent, runCreated, joined, runReports, alarm>>

\* The background threads are cancelled and joined, in this order, those
\* whose flag is seen.  A cancelled thread ends at a cancellation point, and
\* the handler of the alarm with it, if it runs on that thread; but a handler
\* that waits for a lock has none, and the join waits with it.
AfterCancel(t) == CASE t = "report" -> "gen"
                    [] t = "gen" -> "checkpoints"
                    [] t = "checkpoints" -> "final"

RunCancel(t) == /\ mpc = t
                /\ IF t \in runCreated
                   THEN /\ ~(handler.on = t /\ handler.stuck)
                        /\ RunGo(t, "gone")
                        /\ handler' = IF handler.on = t THEN NoHandler ELSE handler
                   ELSE UNCHANGED <<runPc, handler>>
                /\ mpc' = AfterCancel(t)
                /\ UNCHANGED <<worker_barrier, report_barrier, runError, threads_running, limited,
                               runSilent, runCreated, joined, runReports, alarm, outcome>>

\* The last report, unless there was an error, and the end.
Final == /\ mpc = "final"
         /\ mpc' = "done"
         /\ RunExit(IF runError THEN "failed" ELSE "ok")
         /\ UNCHANGED <<runPc, worker_barrier, report_barrier, runError, threads_running, limited,
                        runSilent, runCreated, joined, runReports, alarm>>

\* Where a thread may have a timer's, the histogram's or the logger's lock.
Locking(t) == IF t = "main" THEN mpc \in {"warmup", "checkpoint"}
              ELSE runPc[t] \in {"start", "run", "reporting"} \/ (t = "gen" /\ runPc[t] = "sleep")
Living(t) == t # "main" => runPc[t] \notin {"none", "gone"}

\* sigalrm_thread_init_timeout_handler, sigalrm_forced_shutdown_handler: on
\* top of any thread, for whose locks, if it has one, they wait for ever.
AlarmFires(t) == /\ alarm # "off" /\ handler = NoHandler /\ Living(t)
                 /\ \E stuck \in BOOLEAN :
                       /\ stuck => Locking(t)
                       /\ handler' = [on |-> t, kind |-> alarm, stuck |-> stuck]
                 /\ alarm' = "off"
                 /\ UNCHANGED <<mpc, runPc, worker_barrier, report_barrier, runError, threads_running, limited,
                                runSilent, runCreated, joined, runReports, outcome>>

\* They have logged, and reported if the shutdown is forced: exit(2)
AlarmExits == /\ handler # NoHandler /\ ~handler.stuck
              /\ RunExit(IF handler.kind = "init" THEN "timeout" ELSE "forced")
              /\ UNCHANGED <<mpc, runPc, worker_barrier, report_barrier, runError, threads_running, limited,
                             runSilent, runCreated, joined, runReports, alarm, handler>>
-----------------------------------------------------------------------------
(* worker_thread *)

WorkerReady(w) == /\ runPc[w] = "start"
                  /\ ArriveAtWorkers(w)
                  /\ RunGo(w, "wait")
                  /\ UNCHANGED <<mpc, report_barrier, runError, limited,
                                 runSilent, runCreated, joined, runReports, alarm, outcome>>

\* thread_init failed: the error is set before the worker goes to the
\* barrier, which it does not to block the main thread.
WorkerInitFails(w) == /\ runPc[w] = "start"
                      /\ runError' = TRUE
                      /\ RunGo(w, "initfailed")
                      /\ UNCHANGED <<mpc, worker_barrier, report_barrier, threads_running, limited,
                                     runSilent, runCreated, joined, runReports, alarm, outcome>>

WorkerGivesUp(w) == /\ runPc[w] = "initfailed"
                    /\ ArriveAtWorkers(w)
                    /\ RunGo(w, "leave")
                    /\ UNCHANGED <<mpc, report_barrier, runError, limited,
                                   runSilent, runCreated, joined, runReports, alarm, outcome>>

WorkerStarts(w) == /\ runPc[w] \in {"wait", "leave"} /\ worker_barrier.open
                   /\ RunGo(w, IF worker_barrier.failed \/ runPc[w] = "leave" THEN "gone" ELSE "run")
                   /\ UNCHANGED <<mpc, worker_barrier, report_barrier, runError, threads_running, limited,
                                  runSilent, runCreated, joined, runReports, alarm, outcome>>

WorkerEnds(w) == /\ runPc[w] = "run"
                 /\ \E rc \in BOOLEAN : runError' = (runError \/ rc)
                 /\ RunGo(w, "gone")
                 /\ UNCHANGED <<mpc, worker_barrier, report_barrier, threads_running, limited,
                                runSilent, runCreated, joined, runReports, alarm, outcome>>

\* An event of the test never returns, or the worker waits for an event when
\* the generator, which broadcasts without queue_mutex, has gone (SbEvents).
WorkerHangs(w) == /\ runPc[w] = "run"
                  /\ RunGo(w, "hung")
                  /\ UNCHANGED <<mpc, worker_barrier, report_barrier, runError, threads_running, limited,
                                 runSilent, runCreated, joined, runReports, alarm, outcome>>
-----------------------------------------------------------------------------
(* eventgen_thread_proc: without its mutex it meets the others and ends. *)

GenArrives == /\ runPc["gen"] = "start"
              /\ ArriveAtWorkers("gen")
              /\ \E ok \in BOOLEAN : RunGo("gen", IF ok THEN "wait" ELSE "leave")
              /\ UNCHANGED <<mpc, report_barrier, runError, limited,
                             runSilent, runCreated, joined, runReports, alarm, outcome>>

GenStarts == /\ runPc["gen"] \in {"wait", "leave"} /\ worker_barrier.open
             /\ RunGo("gen", IF worker_barrier.failed \/ runPc["gen"] = "leave" THEN "gone" ELSE "flag")
             /\ UNCHANGED <<mpc, worker_barrier, report_barrier, runError, threads_running, limited,
                            runSilent, runCreated, joined, runReports, alarm, outcome>>

\* It ends by itself at the time limit, or when the queue is full.
GenEnds == /\ runPc["gen"] = "sleep"
           /\ \E full \in BOOLEAN : runError' = (runError \/ full)
           /\ RunGo("gen", "gone")
           /\ UNCHANGED <<mpc, worker_barrier, report_barrier, threads_running, limited,
                          runSilent, runCreated, joined, runReports, alarm, outcome>>
-----------------------------------------------------------------------------
(* report_thread_proc and checkpoints_thread_proc *)

\* Without its Lua state a reporting thread returns at once, before the barrier.
ReporterInitFails(t) == /\ runPc[t] = "start"
                        /\ RunGo(t, "gone")
                        /\ UNCHANGED <<mpc, worker_barrier, report_barrier, runError, threads_running, limited,
                                       runSilent, runCreated, joined, runReports, alarm, outcome>>

ReporterArrives(t) == /\ runPc[t] = "start"
                      /\ ArriveAtReports(t)
                      /\ RunGo(t, "wait")
                      /\ UNCHANGED <<mpc, worker_barrier, runError, threads_running, limited,
                                     runSilent, runCreated, joined, runReports, alarm, outcome>>

ReporterStarts(t) == /\ runPc[t] = "wait" /\ report_barrier.open
                     /\ RunGo(t, "flag")
                     /\ UNCHANGED <<mpc, worker_barrier, report_barrier, runError, threads_running, limited,
                                    runSilent, runCreated, joined, runReports, alarm, outcome>>

\* report_thread_created = 1 and its like
RunSetCreated(t) == /\ runPc[t] = "flag"
                    /\ runCreated' = runCreated \cup {t}
                    /\ RunGo(t, "sleep")
                    /\ UNCHANGED <<mpc, worker_barrier, report_barrier, runError, threads_running, limited,
                                   runSilent, joined, runReports, alarm, outcome>>

\* report_intermediate returns at once when reports are silenced.
Intermediate == /\ runPc["report"] = "sleep"
                /\ ~runSilent
                /\ RunGo("report", "reporting")
                /\ UNCHANGED <<mpc, worker_barrier, report_barrier, runError, threads_running, limited,
                               runSilent, runCreated, joined, runReports, alarm, outcome>>

\* The next checkpoint is due, or past already and skipped.
Checkpoint == /\ runPc["checkpoints"] = "sleep"
              /\ IF runReports < n_checkpoints
                 THEN /\ runReports' = runReports + 1
                      /\ \E due \in BOOLEAN : RunGo("checkpoints", IF due THEN "reporting" ELSE "sleep")
                 ELSE RunGo("checkpoints", "gone") /\ UNCHANGED runReports
              /\ UNCHANGED <<mpc, worker_barrier, report_barrier, runError, threads_running, limited,
                             runSilent, runCreated, joined, alarm, outcome>>

Reported(t) == /\ runPc[t] = "reporting"
               /\ RunGo(t, "sleep")
               /\ UNCHANGED <<mpc, worker_barrier, report_barrier, runError, threads_running, limited,
                              runSilent, runCreated, joined, runReports, alarm, outcome>>
-----------------------------------------------------------------------------
Running == outcome = "running"

RunMain == \/ Prepare \/ Arm \/ MainArrives \/ InitFailed \/ Started \/ WarmedUp
           \/ SignalReports \/ Join \/ RunStop \/ Cleanup \/ Final
           \/ \E t \in RunWorkers \cup Background : Create(t)

Initialize(w) == WorkerReady(w) \/ WorkerInitFails(w)
RunThread(t) == \/ t \in RunWorkers /\ (WorkerGivesUp(t) \/ WorkerStarts(t) \/ WorkerEnds(t) \/ WorkerHangs(t))
                \/ t = "gen" /\ (GenArrives \/ GenStarts)
                \/ t \in RunReporters /\ (ReporterInitFails(t) \/ ReporterArrives(t) \/ ReporterStarts(t) \/ Reported(t))
                \/ t \in Background /\ RunSetCreated(t)
                \/ t = "report" /\ Intermediate
                \/ t = "checkpoints" /\ Checkpoint

\* A thread under the handler of the alarm does not go on.
MainSteps == /\ Running /\ handler.on # "main"
             /\ \/ RunMain /\ UNCHANGED handler
                \/ \E t \in {"report", "gen", "checkpoints"} : RunCancel(t)
ThreadSteps(t) == Running /\ handler.on # t /\ RunThread(t) /\ UNCHANGED handler
FreeSteps == /\ \/ \E w \in RunWorkers : handler.on # w /\ Initialize(w)
                \/ "gen" \in Background /\ handler.on # "gen" /\ GenEnds
             /\ Running /\ UNCHANGED handler
AlarmSteps == Running /\ (AlarmExits \/ \E t \in {"main"} \cup RunWorkers \cup Background : AlarmFires(t))

RunNext == \/ MainSteps \/ AlarmSteps \/ FreeSteps
           \/ \E t \in RunWorkers \cup Background : ThreadSteps(t)

RunSpec == RunInit /\ [][RunNext]_runVars

\* Threads that can run do run, an alarm goes off if nobody clears it, and a
\* worker ends or hangs.  Nothing promises that its initialization ends, or
\* that the generator does.
RunFairSpec == /\ RunSpec
               /\ WF_runVars(MainSteps)
               /\ WF_runVars(AlarmSteps)
               /\ \A t \in RunWorkers \cup Background : WF_runVars(ThreadSteps(t))
-----------------------------------------------------------------------------
Handlers == [on : {"none", "main"} \cup RunWorkers \cup Background, kind : {"off", "init", "force"}, stuck : BOOLEAN]
Barriers == [arrived : SUBSET (WorkerParty \cup ReportParty), open : BOOLEAN, failed : BOOLEAN]

\* The state run_test and its threads share keeps its types.
RunTypeOK == /\ mpc \in {"init", "create", "arrive", "started", "warmup", "checkpoint", "signal",
                         "join", "cleanup", "report", "gen", "checkpoints", "final", "done"}
             /\ runPc \in [RunWorkers \cup Background -> {"none", "start", "initfailed", "wait", "leave",
                                                    "run", "hung", "flag", "sleep", "reporting", "gone"}]
             /\ worker_barrier \in Barriers /\ report_barrier \in Barriers
             /\ {runError, limited, runSilent} \subseteq BOOLEAN
             /\ threads_running \in 0 .. runThreads /\ joined \in 0 .. runThreads
             /\ runCreated \subseteq Background /\ runReports \in 0 .. n_checkpoints
             /\ alarm \in {"off", "init", "force"} /\ handler \in Handlers
             /\ outcome \in {"running", "ok", "failed", "timeout", "forced"}

\* One worker that fails to initialize keeps all of them from running, and
\* the run from being reported as good, however early the others are ready.
FailedInitStopsAll ==
    (\E w \in RunWorkers : runPc[w] \in {"initfailed", "leave"})
        => (\A w \in RunWorkers : runPc[w] # "run") /\ outcome # "ok"

\* No worker starts before all of them, and the main thread, are ready, and
\* none runs a warm-up event under the event limit.
WarmupUnlimited ==
    \A w \in RunWorkers : runPc[w] = "run" =>
        /\ \A u \in RunWorkers : runPc[u] \notin {"none", "start", "initfailed"}
        /\ Warmup /\ mpc \in {"arrive", "started", "warmup"} => ~limited

\* threads_running, which every report prints, is the number of workers not
\* yet joined from the moment the barrier opens.
RunningCountExact ==
    worker_barrier.open /\ ~worker_barrier.failed => threads_running = runThreads - joined

\* A report thread that the main thread missed, its flag not being set yet,
\* makes no report: when the final report is due and the counters are about
\* to be freed it is not in report_intermediate and never will be.
MissedReporterIsQuiet ==
    "report" \in Background /\ mpc \in {"gen", "checkpoints", "final", "done"}
        => runPc["report"] # "reporting"

\* The ways a run may wait for ever: the handler of the alarm for a lock of
\* the thread it interrupted, and the main thread, with no alarm set, for a
\* worker that hangs or for a reporting thread that ended before the barrier.
Waits == \/ handler.stuck
         \/ /\ mpc = "join" /\ alarm = "off" /\ handler = NoHandler
            /\ \/ \E w \in RunWorkers : runPc[w] = "hung"
               \/ \E t \in RunReporters : runPc[t] = "gone" /\ t \notin report_barrier.arrived

\* The process ends, but for those: workers that do not get ready are ended by
\* the first alarm, whatever does not end afterwards by the second, if it is set.
MainFinishes == <>[](~Running \/ Waits)
=============================================================================
