----------------------------- MODULE SbScripts ------------------------------
(***************************************************************************)
(* What sysbench is told and tells, in three parts: options, Lua           *)
(* interpreters, and the logger.                                           *)
(***************************************************************************)
EXTENDS Integers, Sequences, FiniteSets, SequencesExt, TLC, Naturals

(***************************************************************************)
(* The command line of sysbench: the option table of sb_options.c, and     *)
(* main() of sysbench.c from its first line to the choice of a command.    *)
(*                                                                         *)
(* main registers the options of the logger and of the compiled-in layers, *)
(* then the general ones, and walks argv once: an option it knows is set   *)
(* and struck out, one it does not know waits.  init() turns the general   *)
(* options into globals.  Only then is the test known; its options are     *)
(* registered, and argv is walked a second time, where an unknown option   *)
(* is an error.  A --config-file is read in place, in the middle of the    *)
(* walk, into the same table.                                              *)
(*                                                                         *)
(* Names are written with dashes or underscores; Canon maps both spellings *)
(* to one.  A value is a string, Null when the argument has no "=".        *)
(***************************************************************************)

CONSTANTS
    LayerArgs,      \* options of the logger and the layers, in order
    GeneralArgs,    \* general_args
    TestArgs,       \* test->args
    CommandLines,   \* bound: the command lines considered
    Canon(_),       \* the spelling with underscores
    Split(_),       \* the parts of a LIST value
    Strtol,         \* the numbers among the values, as strtol reads them
    IntMax,         \* the largest int; an unsigned int goes to 2*IntMax + 1
    Files,          \* the configuration files that can be opened
    OptionMaxCheckpoints, \* MAX_CHECKPOINTS
    Valid(_, _),    \* the script's validators, by name
    Commands        \* the commands the test implements

ASSUME IntMaxAssumption == IntMax \in Nat
ASSUME OptionBoundsAssumption == OptionMaxCheckpoints \in Nat

Null == "(null)"
NoCheck == "none"
UintSize == 2 * IntMax + 2

VARIABLES
    args,       \* the command line as typed
    argv,       \* the same, consumed entries replaced by Gone
    opts,       \* the list of options: canonical name -> option_t
    stage,      \* where main is
    optionI,          \* the loop variable of the two walks
    globals,    \* sb_globals, as far as it is set
    code        \* the exit status

optionVars == <<args, argv, opts, stage, optionI, globals, code>>

IsOption(a) == a.opt
Gone == [opt |-> FALSE, name |-> "(gone)", value |-> Null]
-----------------------------------------------------------------------------
(* sb_options.c *)

NewOption == [type |-> "NULL", values |-> <<>>, validate |-> NoCheck]

find_option(o, name) == Canon(name) \in DOMAIN o

\* add_option: the option of that name, a new one if there is none.
add_option(o, name) ==
    IF find_option(o, name) THEN o ELSE (Canon(name) :> NewOption) @@ o

PutValues(o, name, vs) == [o EXCEPT ![Canon(name)].values = vs]

\* read_config: each line replaces the values of its option, whatever its
\* type; an unterminated quote ends the reading, silently for the caller.
read_config(o, file) ==
    LET Line(acc, l) ==
          IF acc.ended THEN acc
          ELSE [o |-> PutValues(add_option(acc.o, l.name), l.name, l.values),
                ended |-> l.openQuote]
    IN FoldLeft(Line, [o |-> o, ended |-> FALSE], file).o

\* read_config_file: a file that cannot be opened is reported and ignored.
read_config_file(o, name) ==
    IF name \in DOMAIN Files THEN read_config(o, Files[name]) ELSE o

TrueWords == {Null, "on", "true", "1"}
FalseWords == {"off", "false", "0"}

\* What set_option stores for a value of a type.
Stored(value, type) ==
    CASE type = "BOOL" -> IF value \in TrueWords THEN <<"on">> ELSE <<>>
      [] type = "LIST" -> Split(value)
      [] OTHER -> <<value>>

\* set_option: the table it leaves behind, and whether it returns the option.
\* The old values are freed before anything is checked.
set_option(o, name, value, type) ==
    LET n == Canon(name)
        cleared == [add_option(o, name) EXCEPT ![n].values = <<>>, ![n].type = type]
        result(t, ok) == [opts |-> t, ok |-> ok]
        check == cleared[n].validate
    IN CASE check # NoCheck /\ ~Valid(check, value) -> result(cleared, FALSE)
         [] type # "BOOL" /\ value \in {Null, ""} -> result(cleared, TRUE)
         [] type = "BOOL" /\ value \notin TrueWords \union FalseWords ->
                result(cleared, FALSE)
         [] type = "NULL" -> result(cleared, FALSE)
         [] type = "FILE" -> result(read_config_file(cleared, value), TRUE)
         [] OTHER -> result(PutValues(cleared, name, Stored(value, type)), TRUE)

\* sb_register_arg_set, one entry: its default, and the validator of set[0].
RegisterEntry(o, set, k) ==
    LET r == set_option(o, set[k].name, set[k].value, set[k].type)
    IN [r EXCEPT !.opts[Canon(set[k].name)].validate =
          IF r.ok THEN set[1].validate ELSE @]

\* parse_option with ignore_unknown = false: sets an option the table knows.
parse_option(o, a) ==
    IF find_option(o, a.name)
      THEN set_option(o, a.name, a.value, o[Canon(a.name)].type)
      ELSE [opts |-> o, ok |-> FALSE]

ValuesIn(o, name) == IF find_option(o, name) THEN o[Canon(name)].values ELSE <<>>
Values(name) == ValuesIn(opts, name)
sb_get_value_flag(name) == Values(name) # <<>>

\* sb_get_value_int ends the program on a malformed value; 0 without one.
IntOk(name) ==
    Values(name) # <<>> =>
      /\ Values(name)[1] \in DOMAIN Strtol
      /\ Strtol[Values(name)[1]] \in (-IntMax - 1)..IntMax
sb_get_value_int(o, name) ==
    IF ValuesIn(o, name) = <<>> THEN 0 ELSE Strtol[ValuesIn(o, name)[1]]
-----------------------------------------------------------------------------
(* sysbench.c *)

NoGlobals == [testname |-> Null, cmdname |-> Null, threads |-> 0,
              checkpoints |-> <<>>, verbosity |-> 0]

OptionInit ==
    /\ args \in CommandLines
    /\ argv = args
    /\ opts = <<>>
    /\ stage = "main"
    /\ optionI = 1
    /\ globals = NoGlobals
    /\ code = Null

OptionExit(status) == stage' = "exit" /\ code' = status

\* sb_register_arg_set: the entries of a set, in order, from stage `at' on;
\* when all are registered main goes on at stage `then'.
sb_register_arg_set(at, set, then) ==
    /\ stage = at
    /\ IF optionI > Len(set)
         THEN stage' = then /\ optionI' = 1 /\ UNCHANGED <<opts, code>>
         ELSE \E r \in {RegisterEntry(opts, set, optionI)} :
                /\ opts' = r.opts
                /\ optionI' = optionI + 1
                /\ IF r.ok THEN UNCHANGED <<stage, code>> ELSE OptionExit("failure")
    /\ UNCHANGED <<args, argv, globals>>

\* log_register and register_tests: the options of the logger and the layers.
register_tests == sb_register_arg_set("main", LayerArgs, "registered")

\* parse_general_arguments, its registration ...
RegisterGeneral == sb_register_arg_set("registered", GeneralArgs, "general")

\* ... an option: struck out of argv if it could be set ...
GeneralOption ==
    /\ stage = "general"
    /\ optionI <= Len(argv)
    /\ IsOption(argv[optionI])
    /\ \E r \in {parse_option(opts, argv[optionI])} :
         /\ opts' = r.opts
         /\ argv' = IF r.ok THEN [argv EXCEPT ![optionI] = Gone] ELSE argv
    /\ optionI' = optionI + 1
    /\ UNCHANGED <<args, stage, globals, code>>

\* ... a word: the test's name, then the command, then one too many.
GeneralWord ==
    /\ stage = "general"
    /\ optionI <= Len(argv)
    /\ ~IsOption(argv[optionI])
    /\ \/ /\ globals.testname = Null
          /\ globals' = [globals EXCEPT !.testname = argv[optionI].name]
          /\ optionI' = optionI + 1
          /\ UNCHANGED <<stage, code>>
       \/ /\ globals.testname # Null
          /\ globals.cmdname = Null
          /\ globals' = [globals EXCEPT !.cmdname = argv[optionI].name]
          /\ optionI' = optionI + 1
          /\ UNCHANGED <<stage, code>>
       \/ /\ globals.cmdname # Null
          /\ OptionExit("failure")
          /\ UNCHANGED <<globals, optionI>>
    /\ UNCHANGED <<args, argv, opts>>

\* After the walk: --help and --version print and end the program.
HelpOrVersion ==
    /\ stage = "general"
    /\ optionI > Len(argv)
    /\ \/ /\ sb_get_value_flag("help") \/ sb_get_value_flag("version")
          /\ OptionExit("success")
       \/ /\ ~(sb_get_value_flag("help") \/ sb_get_value_flag("version"))
          /\ stage' = "init"
          /\ UNCHANGED code
    /\ UNCHANGED <<args, argv, opts, optionI, globals>>

\* checkpoint_cmp: an unsigned difference read as an int.
checkpoint_cmp(a, b) ==
    LET d == (a - b) % UintSize IN IF d > IntMax THEN d - UintSize ELSE d

\* qsort: a permutation in which no neighbours are in the wrong order for cmp.
Qsorted(s) ==
    CHOOSE p \in {[k \in 1..Len(s) |-> s[f[k]]] : f \in Permutations(1..Len(s))} :
        \A k \in 1..(Len(s) - 1) : checkpoint_cmp(p[k], p[k + 1]) <= 0

CheckpointOk(v) == v \in DOMAIN Strtol /\ Strtol[v] >= 0 /\ Strtol[v] <= IntMax

ThreadsOf(n) == n % UintSize     \* sb_globals.threads is unsigned
ThreadsRejected(n) == ThreadsOf(n) <= 0

InitFails ==
    \/ \E n \in {"threads", "warmup_time", "verbosity"} : ~IntOk(n)
    \/ ThreadsRejected(sb_get_value_int(opts, "threads"))
    \/ sb_get_value_int(opts, "warmup_time") < 0
    \/ \E v \in Range(Values("report_checkpoints")) : ~CheckpointOk(v)
    \/ Len(Values("report_checkpoints")) > OptionMaxCheckpoints

\* --debug sets the verbosity before the logger reads it.
DebugVerbosity ==
    IF sb_get_value_flag("debug")
      THEN set_option(opts, "verbosity", "5", opts["verbosity"].type).opts
      ELSE opts

\* init(), and log_init's reading of the verbosity.
init ==
    /\ stage = "init"
    /\ IF InitFails
         THEN OptionExit("failure") /\ UNCHANGED <<opts, globals>>
         ELSE /\ opts' = DebugVerbosity
              /\ globals' =
                   [globals EXCEPT
                      !.threads = ThreadsOf(sb_get_value_int(opts, "threads")),
                      !.checkpoints = Qsorted([k \in DOMAIN Values("report_checkpoints") |->
                                                 Strtol[Values("report_checkpoints")[k]]]),
                      !.verbosity = sb_get_value_int(opts', "verbosity")]
              /\ stage' = "find" /\ UNCHANGED code
    /\ UNCHANGED <<args, argv, optionI>>

\* main: a built-in test needs a command; a script (which may fail to load)
\* does without one, and standard input is a script.
FindTest ==
    /\ stage = "find"
    /\ \/ /\ globals.testname = Null
          /\ \E status \in {"success", "failure"} : OptionExit(status)
       \/ /\ globals.testname = "builtin"
          /\ globals.cmdname = Null
          /\ OptionExit("failure")
       \/ /\ globals.testname \notin {Null, "builtin"}
          /\ OptionExit("failure")
       \/ /\ globals.testname \notin {Null, "builtin"}
          /\ globals.cmdname = Null
          /\ OptionExit("success")
       \/ /\ globals.cmdname # Null
          /\ stage' = "test" /\ UNCHANGED code
    /\ optionI' = 1
    /\ UNCHANGED <<args, argv, opts, globals>>

\* parse_test_arguments, its registration ...
RegisterTest == sb_register_arg_set("test", TestArgs, "walk")

\* ... and its walk, in which an option that cannot be set is an error.
TestOption ==
    /\ stage = "walk"
    /\ optionI <= Len(argv)
    /\ \/ /\ ~IsOption(argv[optionI])
          /\ UNCHANGED <<opts, argv, stage, code>>
       \/ /\ IsOption(argv[optionI])
          /\ \E r \in {parse_option(opts, argv[optionI])} :
               /\ opts' = r.opts
               /\ IF r.ok
                    THEN argv' = [argv EXCEPT ![optionI] = Gone] /\ UNCHANGED <<stage, code>>
                    ELSE OptionExit("failure") /\ UNCHANGED argv
    /\ optionI' = optionI + 1
    /\ UNCHANGED <<args, globals>>

\* main: the command, if the test has it.
Command ==
    /\ stage = "walk"
    /\ optionI > Len(argv)
    /\ IF globals.cmdname \in Commands
         THEN stage' = "run" /\ UNCHANGED code
         ELSE OptionExit("failure")
    /\ UNCHANGED <<args, argv, opts, optionI, globals>>

OptionNext ==
    \/ register_tests \/ RegisterGeneral \/ GeneralOption \/ GeneralWord
    \/ HelpOrVersion \/ init \/ FindTest \/ RegisterTest \/ TestOption \/ Command

OptionSpec == OptionInit /\ [][OptionNext]_optionVars /\ WF_optionVars(OptionNext)
-----------------------------------------------------------------------------
(* Properties *)

Type == {"NULL", "BOOL", "INT", "STRING", "LIST", "FILE"}

\* The variables keep their types.
OptionTypeOK ==
    /\ stage \in {"main", "registered", "general", "init", "find", "test", "walk",
                  "run", "exit"}
    /\ optionI \in Nat
    /\ Len(argv) = Len(args)
    /\ \A n \in DOMAIN opts : opts[n].type \in Type /\ opts[n].values \in Seq(STRING)
    /\ globals.threads \in 0..(UintSize - 1)
    /\ code \in {Null, "success", "failure"}

\* The settings of an option on the command line, in order, a configuration
\* file standing for its lines at the place where it is named.
FileSettings(f, name) ==
    IF f \notin DOMAIN Files THEN <<>>
    ELSE LET upTo == {k \in DOMAIN Files[f] : \A j \in 1..(k - 1) : ~Files[f][j].openQuote}
             mine == SelectSeq([k \in 1..Cardinality(upTo) |-> Files[f][k]],
                               LAMBDA l : Canon(l.name) = name)
         IN [k \in DOMAIN mine |-> mine[k].values]

Settings(name, type) ==
    FlattenSeq([k \in DOMAIN args |->
        LET a == args[k]
        IN IF ~IsOption(a) THEN <<>>
           ELSE IF Canon(a.name) = name
             THEN << IF a.value \in {Null, ""} /\ type # "BOOL"
                       THEN <<>> ELSE Stored(a.value, type) >>
           ELSE IF Canon(a.name) = "config_file" THEN FileSettings(a.value, name)
           ELSE <<>>])

\* When the command runs, a general option has the value its last setting on
\* the command line gave it, a configuration file counted where it is named,
\* and its default when nothing sets it; in either spelling of its name.
LastSettingWins ==
    stage = "run" =>
      \A a \in Range(LayerArgs \o GeneralArgs) :
        \/ a.type = "FILE"
        \/ Canon(a.name) = "verbosity" /\ sb_get_value_flag("debug")
        \/ LET s == Settings(Canon(a.name), a.type)
           IN Values(a.name) =
                IF s # <<>> THEN Last(s)
                ELSE IF a.value \in {Null, ""} /\ a.type # "BOOL" THEN <<>>
                ELSE Stored(a.value, a.type)

\* When the command runs, an option of the test has the value the last
\* argument that names it gave it: the first walk, which does not know it
\* yet or has met it in a configuration file, does not lose it.
TestSettingWins ==
    stage = "run" =>
      \A a \in Range(TestArgs) :
        LET mine == {k \in DOMAIN args : IsOption(args[k]) /\ Canon(args[k].name) = Canon(a.name)}
        IN mine # {} =>
             LET v == args[CHOOSE k \in mine : \A j \in mine : j <= k].value
             IN \/ v \in {Null, ""}
                \/ Values(a.name) = Stored(v, a.type)

\* The command runs only if every option with a value is one some component
\* registered, and no boolean has a word it does not know.
NothingMisspelled ==
    stage = "run" =>
      \A k \in DOMAIN args :
        (IsOption(args[k]) /\ args[k].value \notin {Null, ""}) =>
          \E a \in Range(LayerArgs \o GeneralArgs \o TestArgs) :
            /\ Canon(a.name) = Canon(args[k].name)
            /\ a.type = "BOOL" => args[k].value \in TrueWords \union FalseWords

\* The checkpoints are in order, so that the checkpoint thread never sleeps
\* for a negative time: the comparison cannot wrap on the values let through.
CheckpointsInOrder ==
    \A k \in 1..(Len(globals.checkpoints) - 1) :
        globals.checkpoints[k] <= globals.checkpoints[k + 1]

\* With --debug the logger starts at the debugging verbosity, wherever on the
\* command line --verbosity stands.
DebugIsVerbose ==
    (stage \in {"find", "test", "walk", "run"} /\ sb_get_value_flag("debug"))
        => globals.verbosity = 5

-----------------------------------------------------------------------------
(***************************************************************************)
(* The Lua interpreters of a sysbench run (sb_lua.c).                      *)
(*                                                                         *)
(* Every thread that runs script code has an interpreter of its own: main  *)
(* makes the global one (gstate) when it loads the script, a worker makes  *)
(* one in thread_init and keeps it in states[], the reporting thread makes *)
(* one for the report hook.  Each loads the script anew, and each must be  *)
(* told the command line options (export_options) before script code that  *)
(* reads them runs.  main ends by closing gstate and freeing states[].     *)
(*                                                                         *)
(* The two barriers of run_test are modelled by what they promise (module  *)
(* SbBarrier): nobody passes before everyone arrived.  The event function  *)
(* of the script is external: it succeeds, asks for a restart, asks the    *)
(* thread to stop, or fails.                                               *)
(***************************************************************************)

CONSTANTS
    LuaWorker,         \* the worker threads
    LuaMaxCalls,       \* bound: calls of event() per worker
    LuaMaxReports      \* bound: reports of the reporting thread

LuaMain == "main"
Reporter == "reporter"

ASSUME LuaBoundsAssumption ==
    LuaMaxCalls \in Nat /\ LuaMaxReports \in Nat /\ {LuaMain, Reporter} \cap LuaWorker = {}

LuaThread == LuaWorker \union {LuaMain, Reporter}

VARIABLES
    cmd,        \* what kind of command is run
    luaPc,         \* where each thread is
    lua,        \* the interpreter each thread made
    tls,        \* tls_lua_ctxt.L of each thread is set
    exported,   \* its interpreter knows the options
    gstate,     \* gstate is not NULL
    states,     \* the array of the workers' interpreters
    slot,       \* the workers whose entry of states[] is set
    luaCalls,      \* the calls of event() of a worker
    luaReports,    \* the reports of the reporting thread
    luaCreated,    \* report_thread_created
    luaSilent,     \* report_interval was set to 0
    luaError,      \* sb_globals.error
    luaRc,         \* what main returns
    misuse      \* how interpreters and states[] were misused

luaVars == <<cmd, luaPc, lua, tls, exported, gstate, states, slot, luaCalls, luaReports,
          luaCreated, luaSilent, luaError, luaRc, misuse>>
interp == <<lua, tls, exported, gstate>>
luaArray == <<states, slot>>
run == <<luaCalls, luaReports, luaCreated, luaSilent>>

LuaInit ==
    /\ cmd \in {"custom", "parallel", "builtin", "run"}
    /\ luaPc = [t \in LuaThread |-> IF t = LuaMain THEN "load" ELSE "none"]
    /\ lua = [t \in LuaThread |-> "none"]
    /\ tls = [t \in LuaThread |-> FALSE]
    /\ exported = [t \in LuaThread |-> FALSE]
    /\ gstate = FALSE
    /\ states = "null"
    /\ slot = {}
    /\ luaCalls = [w \in LuaWorker |-> 0]
    /\ luaReports = 0
    /\ luaCreated = FALSE
    /\ luaSilent = FALSE
    /\ luaError = FALSE
    /\ luaRc = "none"
    /\ misuse = {}

LuaGoto(t, l) == luaPc' = [luaPc EXCEPT ![t] = l]
-----------------------------------------------------------------------------
(* Interpreters *)

\* sb_lua_new_state: the script is loaded again, and may fail to; then the
\* interpreter is never closed and the thread's context is left alone.
sb_lua_new_state(t, ok) ==
    /\ lua' = [lua EXCEPT ![t] = IF ok THEN "open" ELSE "lost"]
    /\ tls' = [tls EXCEPT ![t] = ok \/ @]

export_options(t) == exported' = [exported EXCEPT ![t] = TRUE]

\* A call of a function of the script in the interpreter of t.
CallMisuse(t, knows) ==
    (IF lua[t] # "open" THEN {"closed"} ELSE {})
      \union (IF knows THEN {} ELSE {"options"})

\* sb_lua_close_state
CloseMisuse(t) == IF lua[t] = "closed" THEN {"twice"} ELSE {}

sb_lua_close_state(t) ==
    /\ lua' = [lua EXCEPT ![t] = IF @ = "open" THEN "closed" ELSE @]
    /\ tls' = [tls EXCEPT ![t] = FALSE]

\* sb_lua_done, by main: gstate if there is one, then states[].
GstateKept == gstate

GstateAfterDone == FALSE
sb_lua_done ==
    /\ IF gstate THEN sb_lua_close_state(LuaMain) ELSE UNCHANGED <<lua, tls>>
    /\ gstate' = GstateAfterDone
    /\ states' = "freed"
    /\ UNCHANGED <<exported, slot>>
-----------------------------------------------------------------------------
(* main *)

\* sb_load_lua: the interpreter, then the script's own command line options;
\* on an error sb_lua_done closes what there is.
sb_load_lua ==
    /\ luaPc[LuaMain] = "load"
    /\ \/ /\ lua' = [lua EXCEPT ![LuaMain] = "lost"]
          /\ luaRc' = "failure" /\ LuaGoto(LuaMain, "exit")
          /\ UNCHANGED <<tls, gstate, states>>
       \/ /\ lua' = [lua EXCEPT ![LuaMain] = "closed"]
          /\ luaRc' = "failure" /\ LuaGoto(LuaMain, "exit")
          /\ UNCHANGED <<tls, gstate, states>>
       \/ /\ sb_lua_new_state(LuaMain, TRUE)
          /\ gstate' = TRUE
          /\ states' = "live"
          /\ LuaGoto(LuaMain, cmd)
          /\ UNCHANGED luaRc
    /\ UNCHANGED <<cmd, exported, slot, run, luaError, misuse>>

\* execute_command and call_custom_command: one call in the global
\* interpreter, whose failure is main's exit status.
execute_command ==
    /\ luaPc[LuaMain] \in {"builtin", "custom"}
    /\ export_options(LuaMain)
    /\ misuse' = misuse \union CallMisuse(LuaMain, exported'[LuaMain])
    /\ luaRc' \in {"success", "failure"}
    /\ LuaGoto(LuaMain, "end")
    /\ UNCHANGED <<cmd, lua, tls, gstate, luaArray, run, luaError>>

\* sb_lua_op_init: init() of the script, and a look for event().
sb_lua_op_init ==
    /\ luaPc[LuaMain] = "run"
    /\ export_options(LuaMain)
    /\ misuse' = misuse \union CallMisuse(LuaMain, exported'[LuaMain])
    /\ \/ luaRc' = "failure" /\ LuaGoto(LuaMain, "end")
       \/ /\ luaPc' = [luaPc EXCEPT ![LuaMain] = "create", ![Reporter] = "start"]
          /\ UNCHANGED luaRc
    /\ UNCHANGED <<cmd, lua, tls, gstate, luaArray, run, luaError>>

\* sb_lua_call_custom_command with a parallel command.
ParallelCommand ==
    /\ luaPc[LuaMain] = "parallel"
    /\ LuaGoto(LuaMain, "create")
    /\ UNCHANGED <<cmd, interp, luaArray, run, luaError, luaRc, misuse>>

\* sb_thread_create_workers: one at a time; main gives up at the first that
\* cannot be created, and leaves the others running.
sb_thread_create_workers ==
    /\ luaPc[LuaMain] = "create"
    /\ \/ /\ \E w \in LuaWorker :
               /\ luaPc[w] = "none"
               /\ LuaGoto(w, IF cmd = "parallel" THEN "command" ELSE "init")
          /\ UNCHANGED luaRc
       \/ /\ \E w \in LuaWorker : luaPc[w] = "none"
          /\ luaRc' = "failure" /\ LuaGoto(LuaMain, "end")
       \/ /\ \A w \in LuaWorker : luaPc[w] # "none"
          /\ LuaGoto(LuaMain, IF cmd = "parallel" THEN "join" ELSE "barrier")
          /\ UNCHANGED luaRc
    /\ UNCHANGED <<cmd, interp, luaArray, run, luaError, misuse>>

\* The worker barrier: when the last has come, all pass, or all fail.
Barrier ==
    /\ luaPc[LuaMain] = "barrier"
    /\ \A w \in LuaWorker : luaPc[w] \in {"barrier", "failed"}
    /\ luaPc' = [t \in LuaThread |->
                CASE t = LuaMain -> IF luaError THEN "end" ELSE "report"
                  [] t = Reporter -> luaPc[t]
                  [] OTHER -> IF luaError \/ luaPc[t] = "failed" THEN "gone" ELSE "loop"]
    /\ luaRc' = IF luaError THEN "failure" ELSE luaRc
    /\ UNCHANGED <<cmd, interp, luaArray, run, luaError, misuse>>

\* The report barrier, of main and the reporting thread.
ReportBarrier ==
    /\ luaPc[LuaMain] = "report"
    /\ luaPc[Reporter] = "ready"
    /\ luaPc' = [luaPc EXCEPT ![LuaMain] = "join", ![Reporter] = "flag"]
    /\ UNCHANGED <<cmd, interp, luaArray, run, luaError, luaRc, misuse>>

\* sb_thread_join_workers; a parallel command's exit status is the joins'.
sb_thread_join_workers ==
    /\ luaPc[LuaMain] = "join"
    /\ \A w \in LuaWorker : luaPc[w] = "gone"
    /\ IF cmd = "parallel"
         THEN luaRc' = "success" /\ LuaGoto(LuaMain, "end") /\ UNCHANGED luaSilent
         ELSE luaSilent' = TRUE /\ LuaGoto(LuaMain, "cancel") /\ UNCHANGED luaRc
    /\ UNCHANGED <<cmd, interp, luaArray, luaCalls, luaReports, luaCreated, luaError, misuse>>

\* run_test: the reporting thread is cancelled if it said it was there.
LuaCancel ==
    /\ luaPc[LuaMain] = "cancel"
    /\ luaPc' = [luaPc EXCEPT ![LuaMain] = IF luaCreated THEN "reap" ELSE "cumulative",
                        ![Reporter] = IF luaCreated THEN "cancelled" ELSE @]
    /\ UNCHANGED <<cmd, interp, luaArray, run, luaError, luaRc, misuse>>

Reap ==
    /\ luaPc[LuaMain] = "reap"
    /\ luaPc[Reporter] = "gone"
    /\ LuaGoto(LuaMain, "cumulative")
    /\ UNCHANGED <<cmd, interp, luaArray, run, luaError, luaRc, misuse>>

\* report_cumulative in the main thread, through the script's hook.
ExportsForMain == TRUE
sb_lua_report_cumulative ==
    /\ luaPc[LuaMain] = "cumulative"
    /\ IF ~luaError
         THEN /\ IF ExportsForMain THEN export_options(LuaMain) ELSE UNCHANGED exported
              /\ misuse' = misuse \union CallMisuse(LuaMain, exported'[LuaMain])
         ELSE UNCHANGED <<exported, misuse>>
    /\ luaRc' = IF luaError THEN "failure" ELSE "success"
    /\ LuaGoto(LuaMain, "done")
    /\ UNCHANGED <<cmd, lua, tls, gstate, luaArray, run, luaError>>

\* sb_lua_op_done: done() of the script; if it fails main closes later.
sb_lua_op_done ==
    /\ luaPc[LuaMain] = "done"
    /\ LuaGoto(LuaMain, "end")
    /\ \/ /\ sb_lua_done
          /\ misuse' = misuse \union CallMisuse(LuaMain, exported[LuaMain]) \union CloseMisuse(LuaMain)
       \/ /\ UNCHANGED <<interp, luaArray>>
          /\ misuse' = misuse \union CallMisuse(LuaMain, exported[LuaMain])
    /\ UNCHANGED <<cmd, run, luaError, luaRc>>

\* main's end: if the script is still loaded, sb_lua_done.
LuaEnd ==
    /\ luaPc[LuaMain] = "end"
    /\ LuaGoto(LuaMain, "exit")
    /\ IF gstate
         THEN sb_lua_done /\ misuse' = misuse \union CloseMisuse(LuaMain)
         ELSE UNCHANGED <<interp, luaArray, misuse>>
    /\ UNCHANGED <<cmd, run, luaError, luaRc>>
-----------------------------------------------------------------------------
(* A worker; it stops with the process *)

LuaAlive == luaPc[LuaMain] # "exit"

UseStates == IF states = "live" THEN {} ELSE {"freed"}

\* sb_lua_op_thread_init, its interpreter ...
ThreadInit(w) ==
    /\ LuaAlive
    /\ luaPc[w] = "init"
    /\ \E ok \in BOOLEAN :
         /\ sb_lua_new_state(w, ok)
         /\ LuaGoto(w, IF ok THEN "store" ELSE "failed")
         /\ luaError' = (luaError \/ ~ok)
    /\ UNCHANGED <<cmd, exported, gstate, luaArray, run, luaRc, misuse>>

\* ... its entry of states[], the options, and thread_init() of the script.
sb_lua_op_thread_init(w) ==
    /\ LuaAlive
    /\ luaPc[w] = "store"
    /\ slot' = slot \union {w}
    /\ export_options(w)
    /\ misuse' = misuse \union UseStates \union CallMisuse(w, exported'[w])
    /\ \E ok \in BOOLEAN :
         /\ LuaGoto(w, IF ok THEN "barrier" ELSE "failed")
         /\ luaError' = (luaError \/ ~ok)
    /\ UNCHANGED <<cmd, lua, tls, gstate, states, run, luaRc>>

\* thread_run of sysbench.lua: event() until it fails, stops the thread or
\* the run is over; a restart calls it again.
sb_lua_op_thread_run(w) ==
    /\ LuaAlive
    /\ luaPc[w] = "loop"
    /\ \/ /\ luaCalls[w] < LuaMaxCalls
          /\ luaCalls' = [luaCalls EXCEPT ![w] = @ + 1]
          /\ misuse' = misuse \union UseStates \union CallMisuse(w, exported[w])
          /\ \/ UNCHANGED <<luaPc, luaError>>
             \/ LuaGoto(w, "done") /\ UNCHANGED luaError
             \/ LuaGoto(w, "gone") /\ luaError' = TRUE
       \/ /\ LuaGoto(w, "done")
          /\ UNCHANGED <<luaCalls, luaError, misuse>>
    /\ UNCHANGED <<cmd, interp, luaArray, luaReports, luaCreated, luaSilent, luaRc>>

\* sb_lua_op_thread_done
sb_lua_op_thread_done(w) ==
    /\ LuaAlive
    /\ luaPc[w] = "done"
    /\ misuse' = misuse \union UseStates \union CallMisuse(w, exported[w]) \union CloseMisuse(w)
    /\ sb_lua_close_state(w)
    /\ LuaGoto(w, "gone")
    /\ UNCHANGED <<cmd, exported, gstate, luaArray, run, luaError, luaRc>>

\* cmd_worker_thread of a parallel command, its interpreter ...
CommandState(w) ==
    /\ LuaAlive
    /\ luaPc[w] = "command"
    /\ \E ok \in BOOLEAN : sb_lua_new_state(w, ok) /\ LuaGoto(w, IF ok THEN "call" ELSE "gone")
    /\ UNCHANGED <<cmd, exported, gstate, luaArray, run, luaError, luaRc, misuse>>

\* ... and the call, whose result nobody looks at.
cmd_worker_thread(w) ==
    /\ LuaAlive
    /\ luaPc[w] = "call"
    /\ export_options(w)
    /\ misuse' = misuse \union CallMisuse(w, exported'[w])
    /\ sb_lua_close_state(w)
    /\ LuaGoto(w, "gone")
    /\ UNCHANGED <<cmd, gstate, luaArray, run, luaError, luaRc>>
-----------------------------------------------------------------------------
(* The reporting thread *)

\* sb_lua_report_thread_init: an interpreter and the options; the load is not
\* checked, and exporting to no interpreter ends the process.
ReportExports == TRUE
sb_lua_report_thread_init ==
    /\ LuaAlive
    /\ luaPc[Reporter] = "start"
    /\ \E ok \in BOOLEAN :
         /\ IF gstate
              THEN /\ sb_lua_new_state(Reporter, ok)
                   /\ misuse' = misuse \union (IF ok THEN {} ELSE {"null"})
                   /\ exported' = [exported EXCEPT ![Reporter] = ok /\ ReportExports]
              ELSE UNCHANGED <<lua, tls, misuse, exported>>
         /\ luaPc' = IF ok \/ ~gstate THEN [luaPc EXCEPT ![Reporter] = "ready"]
                  ELSE [luaPc EXCEPT ![LuaMain] = "exit"]
    /\ UNCHANGED <<cmd, gstate, luaArray, run, luaError, luaRc>>

\* report_thread_proc past the barrier ...
LuaSetCreated ==
    /\ LuaAlive
    /\ luaPc[Reporter] = "flag"
    /\ luaCreated' = TRUE
    /\ LuaGoto(Reporter, "sleep")
    /\ UNCHANGED <<cmd, interp, luaArray, luaCalls, luaReports, luaSilent, luaError, luaRc, misuse>>

\* ... and report_intermediate through the script's hook, unless silenced.
sb_lua_report_intermediate ==
    /\ LuaAlive
    /\ luaPc[Reporter] = "sleep"
    /\ ~luaSilent
    /\ luaReports < LuaMaxReports
    /\ luaReports' = luaReports + 1
    /\ misuse' = misuse \union CallMisuse(Reporter, exported[Reporter])
    /\ UNCHANGED <<cmd, luaPc, interp, luaArray, luaCalls, luaCreated, luaSilent, luaError, luaRc>>

\* sb_lua_report_thread_done, the cleanup handler of the cancelled thread.
sb_lua_report_thread_done ==
    /\ LuaAlive
    /\ luaPc[Reporter] = "cancelled"
    /\ IF gstate
         THEN /\ misuse' = misuse \union CloseMisuse(Reporter)
              /\ sb_lua_close_state(Reporter)
         ELSE UNCHANGED <<lua, tls, misuse>>
    /\ LuaGoto(Reporter, "gone")
    /\ UNCHANGED <<cmd, exported, gstate, luaArray, run, luaError, luaRc>>

WorkerStep(w) ==
    \/ ThreadInit(w) \/ sb_lua_op_thread_init(w) \/ sb_lua_op_thread_run(w)
    \/ sb_lua_op_thread_done(w) \/ CommandState(w) \/ cmd_worker_thread(w)

MainStep ==
    \/ sb_load_lua \/ execute_command \/ sb_lua_op_init \/ ParallelCommand
    \/ sb_thread_create_workers \/ Barrier \/ ReportBarrier \/ sb_thread_join_workers
    \/ LuaCancel \/ Reap \/ sb_lua_report_cumulative \/ sb_lua_op_done \/ LuaEnd

ReporterStep ==
    \/ sb_lua_report_thread_init \/ LuaSetCreated \/ sb_lua_report_intermediate
    \/ sb_lua_report_thread_done

LuaNext == MainStep \/ ReporterStep \/ \E w \in LuaWorker : WorkerStep(w)

\* Each thread keeps running while it can.
LuaFairness ==
    /\ WF_luaVars(MainStep)
    /\ WF_luaVars(ReporterStep)
    /\ \A w \in LuaWorker : WF_luaVars(WorkerStep(w))

LuaSpec == LuaInit /\ [][LuaNext]_luaVars /\ LuaFairness
-----------------------------------------------------------------------------
(* Properties *)

\* The variables keep their types; a thread's context is set while, and only
\* while, it has an open interpreter.
LuaTypeOK ==
    /\ lua \in [LuaThread -> {"none", "open", "closed", "lost"}]
    /\ exported \in [LuaThread -> BOOLEAN]
    /\ \A t \in LuaThread : tls[t] <=> lua[t] = "open"
    /\ slot \subseteq LuaWorker
    /\ states \in {"null", "live", "freed"}
    /\ luaRc \in {"none", "success", "failure"}

CreateFailed == \E w \in LuaWorker : luaPc[w] = "none"

\* No script function runs in an interpreter that is closed, and none is
\* closed twice, whichever of sb_lua_op_done and main's end closes gstate.
NoUseAfterClose == misuse \intersect {"closed", "twice"} = {}

\* Script code that may read sysbench.opt (commands, init, thread_init, event,
\* done and the report hooks) only runs where the options were exported.
OptionsAreThere == "options" \notin misuse

\* states[] outlives the workers that store into it, unless main left them
\* running because one of them could not be created.
StatesOutliveWorkers == "freed" \in misuse => CreateFailed

\* A JSON report is closed (the hack of report_json: its bracket is printed
\* when the interpreter of the reporting thread is closed): if the reporting
\* thread wrote a report and the run got to its end, the interpreter is closed.
ReportIsClosed ==
    (luaPc[LuaMain] \in {"cumulative", "done"} /\ luaReports > 0) => lua[Reporter] = "closed"

\* A worker that fails makes main fail.
FailureIsReported == (luaPc[LuaMain] = "exit" /\ luaError) => luaRc # "success"

\* The process ends.
Ends == <>(luaPc[LuaMain] = "exit")

-----------------------------------------------------------------------------
(***************************************************************************)
(* The text log of sysbench (sb_logger.c), written by several threads, and *)
(* the alarm handler that forces a shutdown through it (sysbench.c).       *)
(*                                                                         *)
(* text_handler_process drops what is above the verbosity, and counts a    *)
(* message equal to the last one instead of printing it.  The comparison   *)
(* is under text_mutex, the printing is not.  log_timestamp's messages     *)
(* skip the comparison.  The alarm handler runs on top of some thread,     *)
(* which stands still until it returns; it logs and ends the process.      *)
(***************************************************************************)

CONSTANTS
    LogThread,         \* the threads that log
    Text,           \* what they log
    LogMaxCalls,       \* bound: calls of each thread
    LogAlarm,          \* TRUE: the alarm may go off
    None            \* nobody; the empty text_buf

Handler == "handler"    \* the alarm handler, a thread of its own
Fatal == "fatal"        \* its message
Actor == LogThread \union {Handler}

ASSUME LogAssumption == LogMaxCalls \in Nat /\ LogAlarm \in BOOLEAN /\ Handler \notin LogThread /\ None \notin Actor

VARIABLES
    logPc,         \* where each actor is
    msg,        \* the message it is logging
    logCalls,      \* its calls so far
    mutex,      \* who holds text_mutex
    text_buf, text_cnt,
    out,        \* the lines printed: a text, or a count of repetitions
    on,         \* the thread the handler runs on
    accepted,   \* the messages let through by the verbosity
    exited      \* the process has ended

logVars == <<logPc, msg, logCalls, mutex, text_buf, text_cnt, out, on, accepted, exited>>

LogInit ==
    /\ logPc = [t \in Actor |-> "idle"]
    /\ msg = [t \in Actor |-> None]
    /\ logCalls = [t \in Actor |-> 0]
    /\ mutex = None
    /\ text_buf = None
    /\ text_cnt = 0
    /\ out = <<>>
    /\ on = None
    /\ accepted = 0
    /\ exited = FALSE

\* A thread runs unless the handler is on top of it.
LogRuns(t) == ~exited /\ t # on /\ (t = Handler => on # None)
LogGoto(t, l) == logPc' = [logPc EXCEPT ![t] = l]
LogLine(m) == [text |-> m, times |-> 0]
Repeat(n) == [text |-> None, times |-> n]

\* log_text and log_timestamp: a message above the verbosity goes nowhere.
log_text(t) ==
    /\ LogRuns(t)
    /\ t \in LogThread
    /\ logPc[t] = "idle"
    /\ logCalls[t] < LogMaxCalls
    /\ logCalls' = [logCalls EXCEPT ![t] = @ + 1]
    /\ \/ UNCHANGED <<logPc, msg, accepted>>
       \/ /\ \E m \in Text : msg' = [msg EXCEPT ![t] = m]
          /\ accepted' = accepted + 1
          /\ \E where \in {"lock", "print"} : LogGoto(t, where)
    /\ UNCHANGED <<mutex, text_buf, text_cnt, out, on, exited>>

\* text_handler_process: the mutex ...
TakeMutex(t) ==
    /\ LogRuns(t)
    /\ logPc[t] = "lock"
    /\ mutex = None
    /\ mutex' = t
    /\ LogGoto(t, "compare")
    /\ UNCHANGED <<msg, logCalls, text_buf, text_cnt, out, on, accepted, exited>>

\* ... a message like the last one is counted ...
Duplicate(t) ==
    /\ LogRuns(t)
    /\ logPc[t] = "compare"
    /\ text_buf = msg[t]
    /\ text_cnt' = text_cnt + 1
    /\ mutex' = None
    /\ LogGoto(t, "idle")
    /\ UNCHANGED <<msg, logCalls, text_buf, out, on, accepted, exited>>

\* ... another is remembered, after the count of the last is printed ...
Different(t) ==
    /\ LogRuns(t)
    /\ logPc[t] = "compare"
    /\ text_buf # msg[t]
    /\ out' = IF text_cnt > 0 THEN Append(out, Repeat(text_cnt)) ELSE out
    /\ text_cnt' = 0
    /\ text_buf' = msg[t]
    /\ mutex' = None
    /\ LogGoto(t, "print")
    /\ UNCHANGED <<msg, logCalls, on, accepted, exited>>

\* ... and printed, outside the mutex.
PrintText(t) ==
    /\ LogRuns(t)
    /\ logPc[t] = "print"
    /\ out' = Append(out, LogLine(msg[t]))
    /\ LogGoto(t, "idle")
    /\ UNCHANGED <<msg, logCalls, mutex, text_buf, text_cnt, on, accepted, exited>>

\* SIGALRM: sigalrm_forced_shutdown_handler starts on top of some thread.
AlarmGoesOff ==
    /\ LogAlarm
    /\ ~exited
    /\ on = None
    /\ \E t \in LogThread : on' = t
    /\ msg' = [msg EXCEPT ![Handler] = Fatal]
    /\ accepted' = accepted + 1
    /\ LogGoto(Handler, "lock")
    /\ UNCHANGED <<logCalls, mutex, text_buf, text_cnt, out, exited>>

\* Its message is out: the process ends.
HandlerExits ==
    /\ ~exited
    /\ on # None
    /\ logPc[Handler] = "idle"
    /\ exited' = TRUE
    /\ UNCHANGED <<logPc, msg, logCalls, mutex, text_buf, text_cnt, out, on, accepted>>

Process(t) == TakeMutex(t) \/ Duplicate(t) \/ Different(t) \/ PrintText(t)

LogNext ==
    \/ \E t \in LogThread : log_text(t)
    \/ \E t \in Actor : Process(t)
    \/ AlarmGoesOff \/ HandlerExits

\* A thread in the logger keeps running, and gets the mutex if it is free
\* again and again; nobody has to log.
LogSpec ==
    LogInit /\ [][LogNext]_logVars /\ WF_logVars(HandlerExits) /\ \A t \in Actor : SF_logVars(Process(t))
-----------------------------------------------------------------------------
(* Properties *)

\* The variables keep their types.
LogTypeOK ==
    /\ logPc \in [Actor -> {"idle", "lock", "compare", "print"}]
    /\ mutex \in Actor \union {None}
    /\ mutex # None => logPc[mutex] = "compare"
    /\ text_cnt \in Nat

TimesIn(s) == FoldLeft(LAMBDA n, l : n + (IF l.text = None THEN l.times ELSE 1), 0, s)
InFlight == Cardinality({t \in Actor : logPc[t] # "idle"})

\* Every message the verbosity lets through is printed once or counted once
\* in a line of repetitions, printed or still to come, however the threads
\* interleave.
NoMessageLost == accepted = TimesIn(out) + text_cnt + InFlight

\* Only the thread with text_mutex compares and changes text_buf, the alarm
\* handler included: it waits, even on top of the thread it waits for.
OneCompares == \A t \in Actor : logPc[t] = "compare" => mutex = t
=============================================================================
