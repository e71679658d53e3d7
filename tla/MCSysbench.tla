----------------------------- MODULE MCSysbench -----------------------------
(***************************************************************************)
(* A run of sysbench, on small instances: its barrier, the supply of       *)
(* events, the collection of statistics, timers, the start and the end of  *)
(* a run, options, Lua interpreters and the logger.  Each behaviour runs   *)
(* one of them, named by part; the others stay where they start.           *)
(***************************************************************************)
EXTENDS SbBarrier, SbEvents, SbRun, SbScripts

CONSTANT Parts          \* the components this run explores

VARIABLE part

sysbenchVars == <<part, vars, queueVars, collectVars, timerVars, runVars,
                  optionVars, luaVars, logVars>>

TwoWorkers == <<"w1", "w2">>
Opt(n, t, v) == [name |-> n, type |-> t, value |-> v, validate |-> NoCheck]
Arg(n, v)    == [opt |-> TRUE, name |-> n, value |-> v]
Said(n)      == [opt |-> FALSE, name |-> n, value |-> Null]
FileLine(n, vs) == [name |-> n, values |-> vs, openQuote |-> FALSE]
SomeLayerArgs   == <<Opt("verbosity", "INT", "3")>>
SomeGeneralArgs ==
    <<Opt("threads", "INT", "1"), Opt("warmup-time", "INT", "0"),
      Opt("report-checkpoints", "LIST", ""), Opt("debug", "BOOL", "off"),
      Opt("help", "BOOL", "off"), Opt("version", "BOOL", "off"),
      Opt("config-file", "FILE", Null)>>
SomeTestArgs == <<Opt("size", "INT", "1"), Opt("mode", "STRING", "a")>>
SomeCanon(n) ==
    CASE n = "warmup-time" -> "warmup_time"
      [] n = "report-checkpoints" -> "report_checkpoints"
      [] n = "config-file" -> "config_file"
      [] OTHER -> n
SomeSplit(v) == CASE v = "2,1" -> <<"2", "1">> [] v = "9,1" -> <<"9", "1">> [] OTHER -> <<v>>
SomeStrtol   == ("0" :> 0) @@ ("1" :> 1) @@ ("2" :> 2) @@ ("3" :> 3) @@ ("5" :> 5) @@ ("9" :> 9)
SomeValid(f, v) == f = "small" => v \in {"1", "2"}
SomeFiles ==
    ("f" :> <<FileLine("threads", <<"2">>), FileLine("size", <<"2">>),
              FileLine("warmup-time", <<"1">>)>>)
    @@ ("g" :> <<[name |-> "debug", values |-> <<"on">>, openQuote |-> TRUE],
                 FileLine("threads", <<"3">>)>>)
Tests == {<<Said("builtin"), Said("run")>>, <<Said("script"), Said("run")>>}
LinesOf(A, n) == {o \o t : o \in UNION {[1..k -> A] : k \in 0..n}, t \in Tests}
SomeOptions ==
    {Arg("threads", "2"), Arg("warmup_time", "2"), Arg("warmup-time", "1"),
     Arg("debug", Null), Arg("debug", "maybe"), Arg("debug", "off"),
     Arg("verbosity", "2"), Arg("config-file", "f"), Arg("config_file", "g"),
     Arg("size", "3"), Arg("mode", ""), Arg("mode", "b"), Arg("bogus", "1"),
     Arg("help", "on"), Arg("config-file", "missing"),
     Arg("report-checkpoints", "2,1"), Arg("report_checkpoints", "9,1")}
SomeCommandLines ==
    LinesOf(SomeOptions, 2)
      \union UNION {[1..k -> {Said("builtin"), Said("script"), Said("run"),
                              Arg("size", "2")}] : k \in 0..3}

\* The variables of a component the behaviour does not run hold this value.
Unused == "unused"

CollectUnused ==
    /\ collectPc = Unused /\ ended = Unused /\ latency = Unused
    /\ timer_events = Unused /\ counter = Unused /\ interm_slots = Unused
    /\ cumulative_array = Unused /\ cumulative_nevents = Unused
    /\ collectLock = Unused /\ collectRpc = Unused /\ at = Unused
    /\ sum = Unused /\ collectArray = Unused /\ collectNevents = Unused
    /\ last = Unused /\ pct = Unused /\ collectReports = Unused
    /\ collectSeen = Unused
OptionUnused ==
    /\ args = Unused /\ argv = Unused /\ opts = Unused /\ stage = Unused
    /\ optionI = Unused /\ globals = Unused /\ code = Unused
LogUnused ==
    /\ logPc = Unused /\ msg = Unused /\ logCalls = Unused /\ mutex = Unused
    /\ text_buf = Unused /\ text_cnt = Unused /\ out = Unused /\ on = Unused
    /\ accepted = Unused /\ exited = Unused

SysbenchInit ==
    /\ part \in Parts
    /\ Init
    /\ QueueInit /\ (part # "events" => ~rated)
    /\ IF part = "collect" THEN CollectInit ELSE CollectUnused
    /\ TimerInit
    /\ RunInit
    /\ IF part = "options" THEN OptionInit ELSE OptionUnused
    /\ LuaInit /\ (part # "lua" => cmd = "run")
    /\ IF part = "logger" THEN LogInit ELSE LogUnused

SysbenchNext ==
    \/ /\ part = "barrier" /\ Next
       /\ UNCHANGED <<part, queueVars, collectVars, timerVars, runVars,
                      optionVars, luaVars, logVars>>
    \/ /\ part = "events" /\ QueueNext
       /\ UNCHANGED <<part, vars, collectVars, timerVars, runVars,
                      optionVars, luaVars, logVars>>
    \/ /\ part = "collect" /\ CollectNext
       /\ UNCHANGED <<part, vars, queueVars, timerVars, runVars, optionVars,
                      luaVars, logVars>>
    \/ /\ part = "timer" /\ TimerNext
       /\ UNCHANGED <<part, vars, queueVars, collectVars, runVars,
                      optionVars, luaVars, logVars>>
    \/ /\ part = "run" /\ RunNext
       /\ UNCHANGED <<part, vars, queueVars, collectVars, timerVars,
                      optionVars, luaVars, logVars>>
    \/ /\ part = "options" /\ OptionNext
       /\ UNCHANGED <<part, vars, queueVars, collectVars, timerVars, runVars,
                      luaVars, logVars>>
    \/ /\ part = "lua" /\ LuaNext
       /\ UNCHANGED <<part, vars, queueVars, collectVars, timerVars, runVars,
                      optionVars, logVars>>
    \/ /\ part = "logger" /\ LogNext
       /\ UNCHANGED <<part, vars, queueVars, collectVars, timerVars, runVars,
                      optionVars, luaVars>>

\* Threads that can run do run, the clock does not stop, an alarm goes off if
\* nobody clears it, and a worker ends or hangs.
SysbenchSpec ==
    /\ SysbenchInit /\ [][SysbenchNext]_sysbenchVars
    /\ \A t \in Threads : /\ WF_vars(part = "barrier" /\ (Wait(t) \/ Open(t)))
                        /\ WF_vars(part = "barrier" /\ Leave(t))
    /\ WF_queueVars(part = "events" /\ QueueAlive /\ TimeUp)
    /\ WF_queueVars(part = "events" /\ QueueAlive /\ Generator)
    /\ \A w \in QueueWorkers : WF_queueVars(part = "events" /\ QueueAlive /\ QueueWorker(w))
    /\ WF_runVars(part = "run" /\ MainSteps)
    /\ WF_runVars(part = "run" /\ AlarmSteps)
    /\ \A t \in RunWorkers \cup Background : WF_runVars(part = "run" /\ ThreadSteps(t))
    /\ WF_luaVars(part = "lua" /\ MainStep)
    /\ WF_luaVars(part = "lua" /\ ReporterStep)
    /\ \A w \in LuaWorker : WF_luaVars(part = "lua" /\ WorkerStep(w))

-----------------------------------------------------------------------------
\* sb_more_events, eventgen_thread_proc, sb_counters_merge, sb_timer_checkpoint,
\* parse_test_arguments and text_handler_process: no event is lost or run twice
\* and the time a worker reads is that of its event, unless a whole array of
\* events has come since; checkpoints add up to the total
\* while workers go on, an event's time in the queue being left out if one comes
\* in between; every started event is in a report; the last setting of
\* an option counts, on the command line or in a file, and nothing misspelled is
\* let through; every message is printed or counted once.
NothingLost ==
    /\ part = "events" =>
         QueueTypeOK /\ EventLimitExact /\ QueuedTimesIntact /\ QueueIsFifo
    /\ part = "collect" =>
         /\ CollectTypeOK /\ NoUpdateLost /\ CumulativeExact /\ NoTimerLost
         /\ ReportsAddUp /\ PctIsPercentile
    /\ part = "timer" => TimerTypeOK /\ TimersExact /\ HungCounted
    /\ part = "options" =>
         /\ OptionTypeOK /\ LastSettingWins /\ TestSettingWins /\ NothingMisspelled
         /\ CheckpointsInOrder /\ DebugIsVerbose
    /\ part = "logger" => NoMessageLost

\* run_test, sb_lua_op_thread_run and text_handler_process: a failed
\* initialisation lets nobody run events, the limit holds only after the warmup
\* and threads_running is the number that run; no Lua state is used after it
\* was closed or without the options; and only the thread with text_mutex
\* compares messages, on top of whom the alarm may come.
RunOrdered ==
    /\ part = "run" =>
         /\ RunTypeOK /\ FailedInitStopsAll /\ WarmupUnlimited /\ RunningCountExact
         /\ MissedReporterIsQuiet
    /\ part = "lua" =>
         /\ LuaTypeOK /\ NoUseAfterClose /\ OptionsAreThere /\ StatesOutliveWorkers
         /\ ReportIsClosed /\ FailureIsReported
    /\ part = "logger" => LogTypeOK /\ OneCompares

\* A checkpoint that runs alone reports exactly the events since the last one;
\* every thread gets through the barrier unless it failed, the workers end with
\* the limits or wait for a generator that has gone, and main returns, with and
\* without forced shutdown and with any kind of Lua command, unless the alarm
\* interrupts a thread with a lock, or, without an alarm, a worker hangs or a
\* reporting thread has no Lua state.
RunEnds ==
    /\ ReportExact
    /\ part = "barrier" => AllGetThrough
    /\ part = "events" => WorkersEnd
    /\ part = "run" => MainFinishes
    /\ part = "lua" => Ends
=============================================================================
