--------------------------- MODULE SysbenchProofs ---------------------------
(***************************************************************************)
(* Runs of sysbench (MCSysbench), for every value of the constants: the    *)
(* barrier is a barrier; a run starts together and ends in order, each     *)
(* interpreter is used between its making and its closing, and only the    *)
(* holder of text_mutex compares messages.                                 *)
(***************************************************************************)
EXTENDS MCSysbench, FiniteSetTheorems, TLAPS

\* The callers of this round.
Inside == {t \in Threads : pc[t] # "out" /\ seen[t] = serial}

Out(t) == pc[t] = "out" => arrived[t] = serial /\ departed[t] = serial
In(t) ==
    pc[t] # "out" =>
        /\ arrived[t] = seen[t] + 1 /\ departed[t] = seen[t]
        /\ seen[t] = serial \/ seen[t] = serial - 1
        /\ res[t] # -1

\* Once a callback has failed nobody is let in any more.
Failed(t) ==
    IF error = TRUE THEN IF pc[t] = "out" THEN res[t] = -1 ELSE seen[t] = serial - 1
    ELSE res[t] # -1

BInv ==
    /\ TypeOK
    /\ \A t \in Threads : Out(t) /\ In(t) /\ Failed(t)
    /\ count = init_count - Cardinality(Inside)

LEMMA ThreadsFacts == IsFiniteSet(Threads) /\ init_count \in Nat \ {0}
<1>1. IsFiniteSet(Threads) /\ Threads # {}
  BY ThreadsAssumption
<1>2. QED
  BY <1>1, FS_CardinalityType, FS_EmptySet DEF init_count

LEMMA InitBInv == Init => BInv
<1> SUFFICES ASSUME Init PROVE BInv
  OBVIOUS
<1>1. TypeOK
  <2>1. /\ count \in 1 .. init_count /\ serial \in 0 .. Rounds
        /\ seen \in [Threads -> 0 .. Rounds] /\ res \in [Threads -> {-1, 0, 1}]
        /\ arrived \in [Threads -> 0 .. Rounds] /\ departed \in [Threads -> 0 .. Rounds]
    BY ThreadsFacts, RoundsAssumption DEF Init
  <2>2. error \in BOOLEAN /\ pc \in [Threads -> {"out", "asleep", "awake"}]
    BY DEF Init
  <2>3. QED
    BY <2>1, <2>2 DEF TypeOK
<1>2. \A t \in Threads : Out(t) /\ In(t) /\ Failed(t)
  BY DEF Init, Out, In, Failed
<1>3. Inside = {}
  BY DEF Init, Inside
<1>4. count = init_count - Cardinality(Inside)
  BY <1>3, FS_EmptySet, ThreadsFacts DEF Init
<1>5. QED
  BY <1>1, <1>2, <1>4 DEF BInv

\* The last caller finds everybody else inside.
LEMMA LastFindsAll ==
    ASSUME BInv, NEW t \in Threads, pc[t] = "out", LastOne
    PROVE  Inside = Threads \ {t}
<1>1. Inside \subseteq Threads \ {t}
  BY DEF Inside
<1>2. IsFiniteSet(Threads \ {t}) /\ Cardinality(Threads \ {t}) = init_count - 1
  BY ThreadsFacts, FS_RemoveElement DEF init_count
<1>3. IsFiniteSet(Inside) /\ Cardinality(Inside) \in Nat
  BY <1>1, <1>2, FS_Subset, FS_CardinalityType
<1>4. Cardinality(Inside) = init_count - 1
  BY <1>3, ThreadsFacts DEF BInv, TypeOK, LastOne
<1>5. QED
  BY <1>1, <1>2, <1>4, FS_Subset

LEMMA WaitBInv ==
    ASSUME BInv, NEW t \in Threads, Wait(t)
    PROVE  BInv'
<1> USE DEF BInv, TypeOK
<1>0. pc[t] = "out" /\ res[t] # -1 /\ arrived[t] < Rounds /\ error = FALSE
  BY DEF Wait, Enters, Failed
<1>1. TypeOK'
  BY ThreadsFacts, RoundsAssumption DEF Wait, Enters, LastOne
<1>2. ASSUME NEW u \in Threads PROVE (Out(u) /\ In(u) /\ Failed(u))'
  BY <1>0 DEF Wait, Enters, Out, In, Failed
<1>3. Inside' = Inside \union {t} /\ t \notin Inside
  BY <1>0 DEF Wait, Inside
<1>4. IsFiniteSet(Inside) /\ Cardinality(Inside) \in Nat
  BY ThreadsFacts, FS_Subset, FS_CardinalityType DEF Inside
<1>5. Cardinality(Inside') = Cardinality(Inside) + 1
  BY <1>3, <1>4, FS_AddElement
<1>6. count' = init_count - Cardinality(Inside')
  BY <1>4, <1>5, ThreadsFacts DEF Wait
<1>7. QED
  BY <1>1, <1>2, <1>6 DEF init_count

LEMMA OpenBInv ==
    ASSUME BInv, NEW t \in Threads, Open(t)
    PROVE  BInv'
<1> USE DEF BInv, TypeOK
<1>0. /\ pc[t] = "out" /\ res[t] # -1 /\ arrived[t] < Rounds /\ error = FALSE
      /\ serial = arrived[t] /\ serial = departed[t]
  BY DEF Open, Enters, Failed, Out
<1>1. Inside = Threads \ {t}
  BY <1>0, LastFindsAll DEF Open
<1>2. \A u \in Threads : u # t => pc[u] # "out" /\ pc'[u] = "awake" /\ seen[u] = serial
  BY <1>1 DEF Inside, Open, Woken
<1>3. /\ serial' = serial + 1 /\ seen' = seen /\ pc'[t] = "out"
      /\ arrived'[t] = serial' /\ departed'[t] = serial'
      /\ \A u \in Threads : u # t => /\ arrived'[u] = arrived[u] /\ departed'[u] = departed[u]
                                     /\ res'[u] = res[u]
  BY <1>0 DEF Open, Enters, Woken
<1>4. /\ error' \in BOOLEAN
      /\ error' = TRUE => res'[t] = -1
      /\ error' = FALSE => res'[t] = 1
  <2>1. PICK failed \in BOOLEAN :
            /\ error' = (error \/ failed)
            /\ res' = [res EXCEPT ![t] = IF failed THEN -1 ELSE SB_BARRIER_SERIAL_THREAD]
    BY DEF Open
  <2>2. CASE failed = TRUE
    BY <1>0, <2>1, <2>2
  <2>3. CASE failed = FALSE
    BY <1>0, <2>1, <2>3 DEF SB_BARRIER_SERIAL_THREAD
  <2>4. QED
    BY <2>2, <2>3
<1>5. TypeOK'
  <2>1. pc' \in [Threads -> {"out", "asleep", "awake"}]
    BY DEF Open, Woken
  <2>2. res' \in [Threads -> {-1, 0, 1}]
    BY DEF Open, SB_BARRIER_SERIAL_THREAD
  <2>3. /\ arrived' \in [Threads -> 0 .. Rounds] /\ departed' \in [Threads -> 0 .. Rounds]
        /\ serial' \in 0 .. Rounds /\ count' \in 1 .. init_count
    BY <1>0, ThreadsFacts, RoundsAssumption DEF Open, Enters, Refill
  <2>4. QED
    BY <1>3, <1>4, <2>1, <2>2, <2>3 DEF init_count
<1>6. ASSUME NEW u \in Threads PROVE (Out(u) /\ In(u) /\ Failed(u))'
  <2>1. CASE u = t
    BY <1>3, <1>4, <2>1 DEF Out, In, Failed
  <2>2. CASE u # t
    BY <1>0, <1>2, <1>3, <1>4, <2>2 DEF Out, In, Failed
  <2>3. QED
    BY <2>1, <2>2
<1>7. Inside' = {}
  BY <1>2, <1>3 DEF Inside
<1>8. count' = init_count - Cardinality(Inside')
  BY <1>7, FS_EmptySet, ThreadsFacts DEF Open, Refill
<1>9. QED
  BY <1>5, <1>6, <1>8 DEF init_count

LEMMA LeaveBInv ==
    ASSUME BInv, NEW t \in Threads, Leave(t)
    PROVE  BInv'
<1> USE DEF BInv, TypeOK
<1>0. pc[t] = "awake" /\ seen[t] = serial - 1 /\ departed[t] = serial - 1 /\ arrived[t] = serial
  BY DEF Leave, Opened, In
<1>1. TypeOK'
  BY <1>0, RoundsAssumption DEF Leave, WaiterResult
<1>2. ASSUME NEW u \in Threads PROVE (Out(u) /\ In(u) /\ Failed(u))'
  BY <1>0 DEF Leave, WaiterResult, Out, In, Failed
<1>3. Inside' = Inside
  BY <1>0 DEF Leave, Inside
<1>4. QED
  BY <1>1, <1>2, <1>3 DEF Leave, init_count

LEMMA NextBInv == BInv /\ [Next]_vars => BInv'
<1> SUFFICES ASSUME BInv, [Next]_vars PROVE BInv'
  OBVIOUS
<1>1. ASSUME NEW t \in Threads, SpuriousWakeup(t) \/ SleepAgain(t) PROVE BInv'
  <2>1. TypeOK'
    BY <1>1 DEF SpuriousWakeup, SleepAgain, BInv, TypeOK, init_count
  <2>2. \A u \in Threads : pc'[u] = "out" <=> pc[u] = "out"
    BY <1>1 DEF SpuriousWakeup, SleepAgain, BInv, TypeOK
  <2>3. UNCHANGED <<count, serial, error, seen, res, arrived, departed>>
    BY <1>1 DEF SpuriousWakeup, SleepAgain
  <2>4. Inside' = Inside
    BY <2>2, <2>3 DEF Inside
  <2>5. \A u \in Threads : (Out(u) /\ In(u) /\ Failed(u))'
    BY <2>2, <2>3 DEF BInv, Out, In, Failed
  <2>6. QED
    BY <2>1, <2>3, <2>4, <2>5 DEF BInv, init_count
<1>2. CASE UNCHANGED vars
  BY <1>2 DEF vars, BInv, TypeOK, Out, In, Failed, Inside, init_count
<1>3. QED
  BY <1>1, <1>2, WaitBInv, OpenBInv, LeaveBInv DEF Next

LEMMA BarrierInvariant == Spec => []BInv
  BY InitBInv, NextBInv, PTL DEF Spec

\* The state of sb_barrier_t keeps its type: count stays in 1..init_count
\* between calls, for any number of threads and rounds.
THEOREM BarrierTypeCorrect == Spec => []TypeOK
<1>1. BInv => TypeOK
  BY DEF BInv
<1>2. QED
  BY <1>1, BarrierInvariant, PTL

\* When a callback fails, every caller of that round is told, and no round
\* follows it.
THEOREM BarrierFailureReachesAll == Spec => []FailureReachesAll
<1>1. BInv => FailureReachesAll
  <2> SUFFICES ASSUME BInv, NEW t \in Threads, NEW u \in Threads, res[t] = -1
               PROVE  /\ departed[u] <= departed[t]
                      /\ departed[u] = departed[t] => res[u] = -1
    BY DEF FailureReachesAll
  <2>1. error = TRUE /\ pc[t] = "out" /\ departed[t] = serial
    BY DEF BInv, TypeOK, Out, In, Failed
  <2>2. QED
    BY <2>1 DEF BInv, TypeOK, Out, In, Failed
<1>2. QED
  BY <1>1, BarrierInvariant, PTL

\* sb_barrier_wait implements a rendezvous: no call returns before every
\* thread has made its call of that round.
THEOREM BarrierIsRendezvous == Spec => IsBarrier
<1>1. Init => R!RInit
  BY DEF Init, R!RInit
<1>2. BInv /\ [Next]_vars => [R!RNext]_<<arrived, departed>>
  <2> SUFFICES ASSUME BInv, Next PROVE R!RNext \/ UNCHANGED <<arrived, departed>>
    BY DEF vars
  <2> USE DEF BInv, TypeOK
  <2>1. ASSUME NEW t \in Threads, Wait(t) PROVE R!Arrive(t)
    BY <2>1 DEF Wait, Enters, Out, R!Arrive
  <2>2. ASSUME NEW t \in Threads, Open(t) PROVE R!Pass(t)
    <3>1. pc[t] = "out" /\ Inside = Threads \ {t}
      BY <2>2, LastFindsAll DEF Open, Enters
    <3>2. \A u \in Threads \ {t} : arrived[t] < arrived[u]
      BY <3>1 DEF Inside, Out, In
    <3>3. QED
      BY <2>2, <3>1, <3>2 DEF Open, Enters, Out, R!Pass
  <2>3. ASSUME NEW t \in Threads, Leave(t) PROVE R!Depart(t)
    <3>1. /\ seen[t] = serial - 1 /\ departed[t] = serial - 1 /\ arrived[t] = serial
      BY <2>3 DEF Leave, Opened, In
    <3>2. \A u \in Threads : arrived[t] <= arrived[u]
      BY <3>1 DEF Out, In
    <3>3. QED
      BY <2>3, <3>1, <3>2 DEF Leave, R!Depart
  <2>4. ASSUME NEW t \in Threads, SpuriousWakeup(t) \/ SleepAgain(t) PROVE UNCHANGED <<arrived, departed>>
    BY <2>4 DEF SpuriousWakeup, SleepAgain
  <2>5. QED
    BY <2>1, <2>2, <2>3, <2>4 DEF Next, R!RNext
<1>3. QED
  BY <1>1, <1>2, BarrierInvariant, PTL DEF Spec, IsBarrier, R!RSpec

-----------------------------------------------------------------------------
(***************************************************************************)
(* A run.  Who has arrived at worker_barrier is told by where each thread  *)
(* is, so that a thread that has started knows of all the others.          *)
(***************************************************************************)
RunTypes ==
    /\ mpc \in {"init", "create", "arrive", "started", "warmup", "checkpoint", "signal",
                "join", "cleanup", "report", "gen", "checkpoints", "final", "done"}
    /\ runPc \in [RunWorkers \cup Background -> {"none", "start", "initfailed", "wait", "leave",
                                                 "run", "hung", "flag", "sleep", "reporting", "gone"}]
    /\ worker_barrier \in Barriers /\ report_barrier \in Barriers
    /\ runError \in BOOLEAN /\ limited \in BOOLEAN /\ runSilent \in BOOLEAN
    /\ joined \in 0 .. runThreads
    /\ runCreated \subseteq Background /\ runReports \in 0 .. n_checkpoints
    /\ alarm \in {"off", "init", "force"}
    /\ outcome \in {"running", "ok", "failed", "timeout", "forced"}

\* The barrier is open when all have arrived.
Arrivals ==
    /\ worker_barrier.arrived \subseteq WorkerParty
    /\ worker_barrier.open <=> worker_barrier.arrived = WorkerParty
    /\ worker_barrier.failed => worker_barrier.open
    /\ "main" \in worker_barrier.arrived <=> mpc \notin {"init", "create", "arrive"}
    /\ \A w \in RunWorkers : w \in worker_barrier.arrived <=> runPc[w] \notin {"none", "start", "initfailed"}
    /\ "gen" \in Background => ("gen" \in worker_barrier.arrived <=> runPc["gen"] \notin {"none", "start"})

\* A worker that failed has told, and the callback has seen it.
Failures ==
    /\ \A w \in RunWorkers : runPc[w] \in {"initfailed", "leave"} => runError
    /\ \A w \in RunWorkers : runPc[w] = "leave" /\ worker_barrier.open => worker_barrier.failed
    /\ \A w \in RunWorkers : runPc[w] = "run" => worker_barrier.open /\ ~worker_barrier.failed
    /\ outcome = "ok" => runError = FALSE

\* Workers are counted when the barrier opens, and joined after it.
Counts ==
    /\ IF worker_barrier.open /\ ~worker_barrier.failed
       THEN threads_running = runThreads - joined ELSE threads_running = 0 /\ joined = 0
    /\ mpc \in {"warmup", "checkpoint", "signal", "join", "cleanup", "report", "gen", "checkpoints", "final", "done"}
         => worker_barrier.open /\ ~worker_barrier.failed

\* The limit is lifted for the warm-up; a report thread that sleeps has its flag set, and is silenced
\* before it is cancelled.
Phases ==
    /\ Warmup /\ mpc \in {"arrive", "started", "warmup"} => ~limited
    /\ "report" \in Background /\ runPc["report"] \in {"sleep", "reporting"} => "report" \in runCreated
    /\ mpc \in {"cleanup", "report", "gen", "checkpoints", "final", "done"} => runSilent

RunInv == RunTypes /\ Arrivals /\ Failures /\ Counts /\ Phases /\ MissedReporterIsQuiet

(***************************************************************************)
(* The Lua interpreters.  What a thread's interpreter is, is told by where *)
(* the thread is.                                                          *)
(***************************************************************************)
CommandKinds == {"custom", "parallel", "builtin", "run"}
MainPlaces == CommandKinds \cup {"load", "create", "barrier", "report", "join", "cancel", "reap", "cumulative",
                                 "done", "end", "exit"}
WorkerPlaces == {"none", "init", "store", "failed", "barrier", "loop", "done", "gone", "command", "call"}
ReporterPlaces == {"none", "start", "ready", "flag", "sleep", "cancelled", "gone"}

LuaTypes ==
    /\ cmd \in CommandKinds
    /\ luaPc \in [LuaThread -> MainPlaces \cup WorkerPlaces \cup ReporterPlaces]
    /\ luaPc[LuaMain] \in MainPlaces /\ luaPc[Reporter] \in ReporterPlaces
    /\ \A w \in LuaWorker : luaPc[w] \in WorkerPlaces
    /\ lua \in [LuaThread -> {"none", "open", "closed", "lost"}]
    /\ tls \in [LuaThread -> BOOLEAN] /\ exported \in [LuaThread -> BOOLEAN]
    /\ gstate \in BOOLEAN /\ states \in {"null", "live", "freed"} /\ slot \subseteq LuaWorker
    /\ luaCalls \in [LuaWorker -> Nat] /\ luaReports \in Nat
    /\ luaCreated \in BOOLEAN /\ luaSilent \in BOOLEAN /\ luaError \in BOOLEAN
    /\ luaRc \in {"none", "success", "failure"}
    /\ \A t \in LuaThread : tls[t] <=> lua[t] = "open"

\* main has its interpreter from the load to the end of the command, and the options with it.
Loaded == {"custom", "parallel", "builtin", "run", "create", "barrier", "report", "join", "cancel", "reap",
           "cumulative", "done"}
MainState ==
    /\ luaPc[LuaMain] = "load" => ~gstate
    /\ luaPc[LuaMain] \in Loaded => gstate /\ states = "live"
    /\ gstate <=> lua[LuaMain] = "open"
    /\ luaPc[LuaMain] \in {"barrier", "report", "cancel", "reap", "cumulative", "done"}
         => cmd = "run" /\ exported[LuaMain]
    /\ luaPc[LuaMain] \in {"create", "join"} /\ cmd # "parallel" => cmd = "run" /\ exported[LuaMain]
    /\ luaPc[LuaMain] \in CommandKinds => luaPc[LuaMain] = cmd
    /\ luaPc[LuaMain] \in {"cancel", "reap", "cumulative", "done"} => luaSilent

\* A worker has its interpreter between thread_init and thread_done.
WorkerState(w) ==
    /\ luaPc[w] \in {"none", "init", "command"} => lua[w] = "none"
    /\ luaPc[w] \in {"store", "barrier", "loop", "done", "call"} => lua[w] = "open"
    /\ luaPc[w] \in {"barrier", "loop", "done"} => exported[w]
    /\ luaPc[w] \in {"init", "store", "failed", "barrier", "loop", "done"} => cmd = "run"

\* The workers are there from create to join, or one of them never was.
WorkersBetween ==
    /\ luaPc[LuaMain] \in CommandKinds \cup {"load"} => \A w \in LuaWorker : luaPc[w] = "none"
    /\ luaPc[LuaMain] \in {"cancel", "reap", "cumulative", "done"} => \A w \in LuaWorker : luaPc[w] = "gone"
    /\ luaPc[LuaMain] = "end" => CreateFailed \/ \A w \in LuaWorker : luaPc[w] = "gone"
    /\ "freed" \in misuse => CreateFailed /\ luaPc[LuaMain] \in {"end", "exit"}

\* The reporting thread has its interpreter until it is cancelled, and is not cancelled before it said
\* it was there.
ReporterState ==
    /\ luaPc[Reporter] = "none" => lua[Reporter] = "none"
    /\ luaPc[Reporter] = "start" /\ luaPc[LuaMain] # "exit" => lua[Reporter] = "none" /\ gstate
    /\ luaPc[Reporter] \in {"ready", "flag", "sleep"} => lua[Reporter] = "open" /\ exported[Reporter]
    /\ luaPc[Reporter] = "cancelled" => lua[Reporter] = "open" /\ luaPc[LuaMain] \in {"reap", "exit"}
    /\ luaPc[Reporter] = "gone" => lua[Reporter] = "closed"
    /\ luaPc[LuaMain] \in {"join", "cancel", "cumulative", "done"} /\ cmd = "run" =>
         luaPc[Reporter] \notin {"none", "start", "ready"}
    /\ luaPc[LuaMain] \in CommandKinds \cup {"load"} => luaPc[Reporter] = "none"
    /\ luaPc[LuaMain] \in {"create", "barrier", "report"} => luaPc[Reporter] \in {"none", "start", "ready"}
    /\ luaPc[LuaMain] = "reap" => luaPc[Reporter] \in {"cancelled", "gone"}
    /\ luaPc[LuaMain] \in {"join", "cancel"} => luaPc[Reporter] # "gone"
    /\ luaCreated <=> luaPc[Reporter] \in {"sleep", "cancelled", "gone"}
    /\ luaReports > 0 => luaCreated
    /\ luaPc[LuaMain] \in {"cumulative", "done"} /\ luaReports > 0 => luaPc[Reporter] = "gone"

\* Success is only told when nothing failed, and nothing can fail any more.
Told ==
    /\ luaError => cmd = "run"
    /\ luaRc = "success" =>
         /\ ~luaError /\ luaPc[LuaMain] \in {"done", "end", "exit"}
         /\ \A w \in LuaWorker : luaPc[w] \in {"none", "gone"}

LuaInv ==
    /\ LuaTypes /\ MainState /\ (\A w \in LuaWorker : WorkerState(w)) /\ WorkersBetween /\ ReporterState /\ Told
    /\ NoUseAfterClose /\ OptionsAreThere

(***************************************************************************)
(* The logger.                                                             *)
(***************************************************************************)
LogInv == LogTypeOK /\ OneCompares /\ (on = None => logPc[Handler] = "idle")

SysbenchInv ==
    /\ part = "run" => RunInv /\ handler \in Handlers
    /\ part = "lua" => LuaInv
    /\ part = "logger" => LogInv

LEMMA LengthOf ==
    ASSUME NEW S, NEW s \in Seq(S), s # <<>>
    PROVE  Len(s) \in Nat \ {0} /\ DOMAIN s = 1 .. Len(s)
  OBVIOUS

LEMMA RunNames ==
    /\ runThreads \in Nat \ {0}
    /\ \A w \in RunWorkers : w \notin {"main", "report", "gen", "checkpoints"}
    /\ \A k \in 1 .. runThreads : order[k] \in RunWorkers
    /\ Background \subseteq {"report", "gen", "checkpoints"}
<1>1. /\ order \in Seq({order[k] : k \in DOMAIN order}) /\ order # <<>>
      /\ \A k \in DOMAIN order : order[k] \notin {"main", "report", "gen", "checkpoints"}
  BY OrderAssumption
<1>2. Len(order) \in Nat \ {0} /\ DOMAIN order = 1 .. Len(order)
  <2> DEFINE S == {order[k] : k \in DOMAIN order}
  <2>1. order \in Seq(S) /\ order # <<>>
    BY <1>1
  <2> HIDE DEF S
  <2>2. QED
    BY <2>1, LengthOf
<1>3. QED
  BY <1>1, <1>2, BackgroundAssumption DEF runThreads, RunWorkers

LEMMA RunInitInv == RunInit => RunInv
<1> SUFFICES ASSUME RunInit PROVE RunInv
  OBVIOUS
<1>1. worker_barrier.arrived = {} /\ ~worker_barrier.open /\ ~worker_barrier.failed
      /\ worker_barrier \in Barriers /\ report_barrier \in Barriers
  BY DEF RunInit, Closed, Barriers
<1>2. "main" \in WorkerParty
  BY DEF WorkerParty
<1>3. RunTypes
  <2>1. runSilent \in BOOLEAN
    BY Zenon DEF RunInit
  <2>2. runPc \in [RunWorkers \cup Background -> {"none", "start", "initfailed", "wait", "leave",
                                                  "run", "hung", "flag", "sleep", "reporting", "gone"}]
    BY DEF RunInit
  <2>3. QED
    <3>1. joined \in 0 .. runThreads /\ runReports \in 0 .. n_checkpoints
      BY RunNames, OptionsAssumption DEF RunInit
    <3>2. QED
      BY <1>1, <2>1, <2>2, <3>1 DEF RunInit, RunTypes
<1>4. Arrivals
  BY <1>1, <1>2 DEF RunInit, Arrivals
<1>5. Failures
  BY <1>1 DEF RunInit, Failures
<1>6. Counts
  BY <1>1 DEF RunInit, Counts
<1>7. Phases /\ MissedReporterIsQuiet
  BY DEF RunInit, Phases, MissedReporterIsQuiet
<1>8. QED
  BY <1>3, <1>4, <1>5, <1>6, <1>7 DEF RunInv

(* A thread goes from one place to another. *)
RunPlaces == {"none", "start", "initfailed", "wait", "leave", "run", "hung", "flag", "sleep", "reporting", "gone"}
RunMoves(t, p) ==
    /\ runPc' \in [RunWorkers \cup Background -> RunPlaces] /\ runPc'[t] = p
    /\ \A u \in (RunWorkers \cup Background) \ {t} : runPc'[u] = runPc[u]

LEMMA RunGoes ==
    ASSUME RunInv, NEW t \in RunWorkers \cup Background, NEW p \in RunPlaces, RunGo(t, p)
    PROVE  RunMoves(t, p)
  BY DEF RunInv, RunTypes, RunGo, RunMoves, RunPlaces

(* The last to arrive opens the barrier, which was shut. *)
LEMMA WorkersMeet ==
    ASSUME RunInv, NEW t \in WorkerParty, t \notin worker_barrier.arrived, ArriveAtWorkers(t)
    PROVE  /\ worker_barrier' \in Barriers /\ ~worker_barrier.open /\ ~worker_barrier.failed
           /\ worker_barrier'.arrived = worker_barrier.arrived \cup {t}
           /\ worker_barrier'.open <=> worker_barrier'.arrived = WorkerParty
           /\ worker_barrier'.failed <=> worker_barrier'.open /\ runError = TRUE
           /\ joined = 0 /\ threads_running' = IF worker_barrier'.open /\ ~worker_barrier'.failed THEN runThreads ELSE 0
<1>1. /\ worker_barrier.arrived \subseteq WorkerParty /\ ~worker_barrier.open /\ ~worker_barrier.failed
      /\ joined = 0 /\ threads_running = 0 /\ runError \in BOOLEAN
  BY DEF RunInv, Arrivals, Counts, RunTypes
<1> DEFINE now == worker_barrier.arrived \cup {t}
           full == now = WorkerParty
           bad == full /\ runError
<1>2. /\ worker_barrier' = [arrived |-> now, open |-> full, failed |-> bad]
      /\ threads_running' = IF full /\ ~bad THEN runThreads ELSE threads_running
  BY DEF ArriveAtWorkers, threads_started_callback
<1>3. worker_barrier'.arrived = now /\ worker_barrier'.open = full /\ worker_barrier'.failed = bad
  BY <1>2
<1>4. now \in SUBSET (WorkerParty \cup ReportParty) /\ full \in BOOLEAN /\ bad \in BOOLEAN
  BY <1>1
<1>5. worker_barrier' \in Barriers
  BY <1>2, <1>4 DEF Barriers
<1>6. QED
  BY <1>1, <1>2, <1>3, <1>5

LEMMA ReportersMeet ==
    ASSUME RunInv, NEW t \in ReportParty, ArriveAtReports(t)
    PROVE  report_barrier' \in Barriers
<1>1. report_barrier.arrived \subseteq WorkerParty \cup ReportParty
  BY DEF RunInv, RunTypes, Barriers
<1>2. report_barrier.arrived \cup {t} \in SUBSET (WorkerParty \cup ReportParty)
  BY <1>1
<1>3. QED
  BY <1>2 DEF ArriveAtReports, Barriers

(* The handler of the alarm runs on a thread of the process. *)
LEMMA HandlerInit == RunInit => handler \in Handlers
  BY DEF RunInit, NoHandler, Handlers

LEMMA HandlerNext ==
    ASSUME RunInv, handler \in Handlers, RunNext
    PROVE  handler' \in Handlers
<1>0. NoHandler \in Handlers /\ alarm \in {"off", "init", "force"}
  BY DEF NoHandler, Handlers, RunInv, RunTypes
<1>1. ASSUME NEW t \in {"report", "gen", "checkpoints"}, RunCancel(t) PROVE handler' \in Handlers
  BY <1>0, <1>1 DEF RunCancel
<1>2. ASSUME NEW t \in {"main"} \cup RunWorkers \cup Background, AlarmFires(t) PROVE handler' \in Handlers
  <2>1. PICK stuck \in BOOLEAN : handler' = [on |-> t, kind |-> alarm, stuck |-> stuck]
    BY <1>2 DEF AlarmFires
  <2>2. QED
    BY <1>0, <2>1 DEF Handlers
<1>3. CASE AlarmExits
  BY <1>3 DEF AlarmExits
<1>4. QED
  BY <1>1, <1>2, <1>3 DEF RunNext, MainSteps, AlarmSteps, FreeSteps, ThreadSteps

LEMMA RunNextInv ==
    ASSUME RunInv, RunNext
    PROVE  RunInv'
<1>0. RunTypes /\ Arrivals /\ Failures /\ Counts /\ Phases /\ MissedReporterIsQuiet /\ outcome = "running"
  BY DEF RunInv, RunNext, Running, MainSteps, AlarmSteps, FreeSteps, ThreadSteps
<1>a. /\ \A w \in RunWorkers : w \notin {"main", "report", "gen", "checkpoints"}
      /\ runThreads \in Nat \ {0}
  BY RunNames
<1>1. CASE Prepare
  <2>1. /\ mpc = "init"
        /\ mpc' \in {"init", "create"}
        /\ outcome' \in {"running", "failed"}
        /\ UNCHANGED <<runPc, worker_barrier, report_barrier, runError, threads_running, limited, runSilent, runCreated, joined, runReports, alarm>>
    BY <1>0, <1>1 DEF Prepare, RunExit
  <2>2. RunTypes'
    BY <1>0, <1>a, <2>1 DEF RunTypes
  <2>3. Arrivals'
    BY <1>0, <1>a, <2>1 DEF Arrivals
  <2>4. Failures'
    BY <1>0, <1>a, <2>1 DEF Failures, RunTypes
  <2>5. Counts'
    BY <1>0, <1>a, <2>1 DEF Counts, RunTypes
  <2>6. Phases'
    BY <1>0, <1>a, <2>1 DEF Phases
  <2>7. MissedReporterIsQuiet'
    BY <1>0, <1>a, <2>1 DEF MissedReporterIsQuiet
  <2>8. QED
    BY <2>2, <2>3, <2>4, <2>5, <2>6, <2>7 DEF RunInv
<1>2. CASE Arm
  <2>1. /\ mpc = "create"
        /\ mpc' = "arrive"
        /\ alarm' = "init"
        /\ limited' \in BOOLEAN
        /\ Warmup => ~limited'
        /\ UNCHANGED <<runPc, worker_barrier, report_barrier, runError, threads_running, runSilent, runCreated, joined, runReports, outcome>>
    BY <1>0, <1>2, OptionsAssumption DEF Arm, RunExit, LimitInWarmup, RunTypes
  <2>2. RunTypes'
    BY <1>0, <1>a, <2>1 DEF RunTypes
  <2>3. Arrivals'
    BY <1>0, <1>a, <2>1 DEF Arrivals
  <2>4. Failures'
    BY <1>0, <1>a, <2>1 DEF Failures, RunTypes
  <2>5. Counts'
    BY <1>0, <1>a, <2>1 DEF Counts, RunTypes
  <2>6. Phases'
    BY <1>0, <1>a, <2>1 DEF Phases
  <2>7. MissedReporterIsQuiet'
    BY <1>0, <1>a, <2>1 DEF MissedReporterIsQuiet
  <2>8. QED
    BY <2>2, <2>3, <2>4, <2>5, <2>6, <2>7 DEF RunInv
<1>3. CASE MainArrives
  <2>1. /\ mpc = "arrive"
        /\ mpc' = "started"
        /\ UNCHANGED <<runPc, report_barrier, runError, limited, runSilent, runCreated, joined, runReports, alarm, outcome>>
    BY <1>0, <1>3 DEF MainArrives, RunExit
  <2>2. /\ worker_barrier' \in Barriers /\ ~worker_barrier.open /\ ~worker_barrier.failed
        /\ worker_barrier'.arrived = worker_barrier.arrived \cup {"main"}
        /\ worker_barrier'.open <=> worker_barrier'.arrived = WorkerParty
        /\ worker_barrier'.failed <=> worker_barrier'.open /\ runError = TRUE
        /\ joined = 0 /\ threads_running' = IF worker_barrier'.open /\ ~worker_barrier'.failed THEN runThreads ELSE 0
        /\ "main" \in WorkerParty
    <3>1. "main" \in WorkerParty /\ "main" \notin worker_barrier.arrived
      BY <1>0, <1>a, <1>3, <2>1 DEF Arrivals, WorkerParty
    <3>2. ArriveAtWorkers("main")
      BY <1>3 DEF MainArrives
    <3>3. QED
      BY <3>1, <3>2, WorkersMeet
  <2>3. RunTypes'
    BY <1>0, <1>a, <2>1, <2>2 DEF RunTypes
  <2>4. Arrivals'
    BY <1>0, <1>a, <2>1, <2>2 DEF Arrivals, WorkerParty
  <2>5. Failures'
    BY <1>0, <1>a, <2>1, <2>2 DEF Failures, RunTypes, Arrivals, WorkerParty
  <2>6. Counts'
    BY <1>0, <1>a, <2>1, <2>2 DEF Counts, RunTypes
  <2>7. Phases'
    BY <1>0, <1>a, <2>1, <2>2 DEF Phases
  <2>8. MissedReporterIsQuiet'
    BY <1>0, <1>a, <2>1, <2>2 DEF MissedReporterIsQuiet
  <2>9. QED
    BY <2>3, <2>4, <2>5, <2>6, <2>7, <2>8 DEF RunInv
<1>4. CASE InitFailed
  <2>1. /\ outcome' = "failed"
        /\ UNCHANGED <<mpc, runPc, worker_barrier, report_barrier, runError, threads_running, limited, runSilent, runCreated, joined, runReports, alarm>>
    BY <1>0, <1>4 DEF InitFailed, RunExit
  <2>2. RunTypes'
    BY <1>0, <1>a, <2>1 DEF RunTypes
  <2>3. Arrivals'
    BY <1>0, <1>a, <2>1 DEF Arrivals
  <2>4. Failures'
    BY <1>0, <1>a, <2>1 DEF Failures, RunTypes
  <2>5. Counts'
    BY <1>0, <1>a, <2>1 DEF Counts, RunTypes
  <2>6. Phases'
    BY <1>0, <1>a, <2>1 DEF Phases
  <2>7. MissedReporterIsQuiet'
    BY <1>0, <1>a, <2>1 DEF MissedReporterIsQuiet
  <2>8. QED
    BY <2>2, <2>3, <2>4, <2>5, <2>6, <2>7 DEF RunInv
<1>5. CASE Started
  <2>1. /\ mpc = "started"
        /\ worker_barrier.open
        /\ ~worker_barrier.failed
        /\ alarm' \in {"off", "force"}
        /\ mpc' \in {"warmup", "signal"}
        /\ Warmup => mpc' = "warmup"
        /\ UNCHANGED <<runPc, worker_barrier, report_barrier, runError, threads_running, limited, runSilent, runCreated, joined, runReports, outcome>>
    BY <1>0, <1>5 DEF Started, RunExit
  <2>2. RunTypes'
    BY <1>0, <1>a, <2>1 DEF RunTypes
  <2>3. Arrivals'
    BY <1>0, <1>a, <2>1 DEF Arrivals
  <2>4. Failures'
    BY <1>0, <1>a, <2>1 DEF Failures, RunTypes
  <2>5. Counts'
    BY <1>0, <1>a, <2>1 DEF Counts, RunTypes
  <2>6. Phases'
    BY <1>0, <1>a, <2>1 DEF Phases
  <2>7. MissedReporterIsQuiet'
    BY <1>0, <1>a, <2>1 DEF MissedReporterIsQuiet
  <2>8. QED
    BY <2>2, <2>3, <2>4, <2>5, <2>6, <2>7 DEF RunInv
<1>6. CASE WarmedUp
  <2>1. /\ mpc = "warmup"
        /\ mpc' = "checkpoint"
        /\ limited' = TRUE
        /\ UNCHANGED <<runPc, worker_barrier, report_barrier, runError, threads_running, runSilent, runCreated, joined, runReports, alarm, outcome>>
    BY <1>0, <1>6 DEF WarmedUp, RunExit
  <2>2. RunTypes'
    BY <1>0, <1>a, <2>1 DEF RunTypes
  <2>3. Arrivals'
    BY <1>0, <1>a, <2>1 DEF Arrivals
  <2>4. Failures'
    BY <1>0, <1>a, <2>1 DEF Failures, RunTypes
  <2>5. Counts'
    BY <1>0, <1>a, <2>1 DEF Counts, RunTypes
  <2>6. Phases'
    BY <1>0, <1>a, <2>1 DEF Phases
  <2>7. MissedReporterIsQuiet'
    BY <1>0, <1>a, <2>1 DEF MissedReporterIsQuiet
  <2>8. QED
    BY <2>2, <2>3, <2>4, <2>5, <2>6, <2>7 DEF RunInv
<1>7. CASE SignalReports
  <2>1. /\ mpc \in {"checkpoint", "signal"}
        /\ mpc' = "join"
        /\ report_barrier' \in Barriers
        /\ UNCHANGED <<runPc, worker_barrier, runError, threads_running, limited, runSilent, runCreated, joined, runReports, alarm, outcome>>
    BY <1>0, <1>7, ReportersMeet DEF SignalReports, RunExit, ReportParty
  <2>2. RunTypes'
    BY <1>0, <1>a, <2>1 DEF RunTypes
  <2>3. Arrivals'
    BY <1>0, <1>a, <2>1 DEF Arrivals
  <2>4. Failures'
    BY <1>0, <1>a, <2>1 DEF Failures, RunTypes
  <2>5. Counts'
    BY <1>0, <1>a, <2>1 DEF Counts, RunTypes
  <2>6. Phases'
    BY <1>0, <1>a, <2>1 DEF Phases
  <2>7. MissedReporterIsQuiet'
    BY <1>0, <1>a, <2>1 DEF MissedReporterIsQuiet
  <2>8. QED
    BY <2>2, <2>3, <2>4, <2>5, <2>6, <2>7 DEF RunInv
<1>8. CASE Join
  <2>1. /\ mpc = "join"
        /\ joined < runThreads
        /\ joined' = joined + 1
        /\ threads_running' = threads_running - 1
        /\ UNCHANGED <<mpc, runPc, worker_barrier, report_barrier, runError, limited, runSilent, runCreated, runReports, alarm, outcome>>
    BY <1>0, <1>8 DEF Join, RunExit
  <2>2. RunTypes'
    BY <1>0, <1>a, <2>1 DEF RunTypes
  <2>3. Arrivals'
    BY <1>0, <1>a, <2>1 DEF Arrivals
  <2>4. Failures'
    BY <1>0, <1>a, <2>1 DEF Failures, RunTypes
  <2>5. Counts'
    BY <1>0, <1>a, <2>1 DEF Counts, RunTypes
  <2>6. Phases'
    BY <1>0, <1>a, <2>1 DEF Phases
  <2>7. MissedReporterIsQuiet'
    BY <1>0, <1>a, <2>1 DEF MissedReporterIsQuiet
  <2>8. QED
    BY <2>2, <2>3, <2>4, <2>5, <2>6, <2>7 DEF RunInv
<1>9. CASE RunStop
  <2>1. /\ mpc = "join"
        /\ mpc' = "cleanup"
        /\ runSilent' = TRUE
        /\ alarm' = "off"
        /\ UNCHANGED <<runPc, worker_barrier, report_barrier, runError, threads_running, limited, runCreated, joined, runReports, outcome>>
    BY <1>0, <1>9 DEF RunStop, RunExit, Silenced
  <2>2. RunTypes'
    BY <1>0, <1>a, <2>1 DEF RunTypes
  <2>3. Arrivals'
    BY <1>0, <1>a, <2>1 DEF Arrivals
  <2>4. Failures'
    BY <1>0, <1>a, <2>1 DEF Failures, RunTypes
  <2>5. Counts'
    BY <1>0, <1>a, <2>1 DEF Counts, RunTypes
  <2>6. Phases'
    BY <1>0, <1>a, <2>1 DEF Phases
  <2>7. MissedReporterIsQuiet'
    BY <1>0, <1>a, <2>1 DEF MissedReporterIsQuiet
  <2>8. QED
    BY <2>2, <2>3, <2>4, <2>5, <2>6, <2>7 DEF RunInv
<1>10. CASE Cleanup
  <2>1. /\ mpc = "cleanup"
        /\ mpc' \in {"cleanup", "report"}
        /\ outcome' \in {"running", "failed"}
        /\ UNCHANGED <<runPc, worker_barrier, report_barrier, runError, threads_running, limited, runSilent, runCreated, joined, runReports, alarm>>
    BY <1>0, <1>10 DEF Cleanup, RunExit
  <2>2. RunTypes'
    BY <1>0, <1>a, <2>1 DEF RunTypes
  <2>3. Arrivals'
    BY <1>0, <1>a, <2>1 DEF Arrivals
  <2>4. Failures'
    BY <1>0, <1>a, <2>1 DEF Failures, RunTypes
  <2>5. Counts'
    BY <1>0, <1>a, <2>1 DEF Counts, RunTypes
  <2>6. Phases'
    BY <1>0, <1>a, <2>1 DEF Phases
  <2>7. MissedReporterIsQuiet'
    BY <1>0, <1>a, <2>1 DEF MissedReporterIsQuiet
  <2>8. QED
    BY <2>2, <2>3, <2>4, <2>5, <2>6, <2>7 DEF RunInv
<1>11. CASE Final
  <2>1. /\ mpc = "final"
        /\ mpc' = "done"
        /\ outcome' = IF runError THEN "failed" ELSE "ok"
        /\ UNCHANGED <<runPc, worker_barrier, report_barrier, runError, threads_running, limited, runSilent, runCreated, joined, runReports, alarm>>
    BY <1>0, <1>11 DEF Final, RunExit
  <2>2. RunTypes'
    BY <1>0, <1>a, <2>1 DEF RunTypes
  <2>3. Arrivals'
    BY <1>0, <1>a, <2>1 DEF Arrivals
  <2>4. Failures'
    BY <1>0, <1>a, <2>1 DEF Failures, RunTypes
  <2>5. Counts'
    BY <1>0, <1>a, <2>1 DEF Counts, RunTypes
  <2>6. Phases'
    BY <1>0, <1>a, <2>1 DEF Phases
  <2>7. MissedReporterIsQuiet'
    BY <1>0, <1>a, <2>1 DEF MissedReporterIsQuiet
  <2>8. QED
    BY <2>2, <2>3, <2>4, <2>5, <2>6, <2>7 DEF RunInv
<1>12. CASE AlarmExits
  <2>1. /\ outcome' \in {"timeout", "forced"}
        /\ UNCHANGED <<mpc, runPc, worker_barrier, report_barrier, runError, threads_running, limited, runSilent, runCreated, joined, runReports, alarm>>
    BY <1>0, <1>12 DEF AlarmExits, RunExit
  <2>2. RunTypes'
    BY <1>0, <1>a, <2>1 DEF RunTypes
  <2>3. Arrivals'
    BY <1>0, <1>a, <2>1 DEF Arrivals
  <2>4. Failures'
    BY <1>0, <1>a, <2>1 DEF Failures, RunTypes
  <2>5. Counts'
    BY <1>0, <1>a, <2>1 DEF Counts, RunTypes
  <2>6. Phases'
    BY <1>0, <1>a, <2>1 DEF Phases
  <2>7. MissedReporterIsQuiet'
    BY <1>0, <1>a, <2>1 DEF MissedReporterIsQuiet
  <2>8. QED
    BY <2>2, <2>3, <2>4, <2>5, <2>6, <2>7 DEF RunInv
<1>13. ASSUME NEW t \in RunWorkers \cup Background, Create(t) PROVE RunInv'
  <2>1. /\ runPc[t] = "none"
        /\ outcome' \in {"running", "failed"}
        /\ UNCHANGED <<mpc, worker_barrier, report_barrier, runError, threads_running, limited, runSilent, runCreated, joined, runReports, alarm>>
    BY <1>0, <1>13 DEF Create, RunExit
  <2>2. /\ \/ runPc' = runPc \/ RunMoves(t, "start")
    BY <1>13, RunGoes DEF Create, RunPlaces
  <2>3. RunTypes'
    BY <1>0, <1>a, <1>13, <2>1, <2>2 DEF RunTypes, RunMoves, RunPlaces
  <2>4. Arrivals'
    BY <1>0, <1>a, <1>13, <2>1, <2>2 DEF Arrivals, RunMoves
  <2>5. Failures'
    BY <1>0, <1>a, <1>13, <2>1, <2>2 DEF Failures, RunMoves, RunTypes
  <2>6. Counts'
    BY <1>0, <1>a, <1>13, <2>1, <2>2 DEF Counts, RunMoves, RunTypes
  <2>7. Phases'
    BY <1>0, <1>a, <1>13, <2>1, <2>2 DEF Phases, RunMoves
  <2>8. MissedReporterIsQuiet'
    BY <1>0, <1>a, <1>13, <2>1, <2>2 DEF MissedReporterIsQuiet, RunMoves
  <2>9. QED
    BY <2>3, <2>4, <2>5, <2>6, <2>7, <2>8 DEF RunInv
<1>14. ASSUME NEW w \in RunWorkers, WorkerReady(w) PROVE RunInv'
  <2>1. /\ runPc[w] = "start"
        /\ UNCHANGED <<mpc, report_barrier, runError, limited, runSilent, runCreated, joined, runReports, alarm, outcome>>
    BY <1>0, <1>14 DEF WorkerReady, RunExit
  <2>2. /\ RunMoves(w, "wait")
    BY <1>14, RunGoes DEF WorkerReady, RunPlaces
  <2>3. /\ worker_barrier' \in Barriers /\ ~worker_barrier.open /\ ~worker_barrier.failed
        /\ worker_barrier'.arrived = worker_barrier.arrived \cup {w}
        /\ worker_barrier'.open <=> worker_barrier'.arrived = WorkerParty
        /\ worker_barrier'.failed <=> worker_barrier'.open /\ runError = TRUE
        /\ joined = 0 /\ threads_running' = IF worker_barrier'.open /\ ~worker_barrier'.failed THEN runThreads ELSE 0
        /\ w \in WorkerParty
    <3>1. w \in WorkerParty /\ w \notin worker_barrier.arrived
      BY <1>0, <1>a, <1>14, <2>1 DEF Arrivals, WorkerParty
    <3>2. ArriveAtWorkers(w)
      BY <1>14 DEF WorkerReady
    <3>3. QED
      BY <3>1, <3>2, WorkersMeet
  <2>4. RunTypes'
    BY <1>0, <1>a, <1>14, <2>1, <2>2, <2>3 DEF RunTypes, RunMoves, RunPlaces
  <2>5. Arrivals'
    BY <1>0, <1>a, <1>14, <2>1, <2>2, <2>3 DEF Arrivals, RunMoves, WorkerParty
  <2>6. Failures'
    <3>1. \A u \in RunWorkers : runPc'[u] = runPc[u] \/ runPc'[u] = "wait"
      BY <2>2 DEF RunMoves
    <3>2. \A u \in RunWorkers : runPc'[u] \in {"initfailed", "leave"} => runError'
      BY <1>0, <2>1, <3>1 DEF Failures
    <3>3. \A u \in RunWorkers : runPc'[u] # "run"
      BY <1>0, <2>3, <3>1 DEF Failures
    <3>4. runError' = TRUE /\ worker_barrier'.open => worker_barrier'.failed
      BY <2>1, <2>3
    <3>5. outcome' = "running" /\ runError' \in BOOLEAN
      BY <1>0, <2>1 DEF RunTypes
    <3>6. QED
      BY <3>2, <3>3, <3>4, <3>5 DEF Failures
  <2>7. Counts'
    BY <1>0, <1>a, <1>14, <2>1, <2>2, <2>3 DEF Counts, RunMoves, RunTypes
  <2>8. Phases'
    BY <1>0, <1>a, <1>14, <2>1, <2>2, <2>3 DEF Phases, RunMoves
  <2>9. MissedReporterIsQuiet'
    BY <1>0, <1>a, <1>14, <2>1, <2>2, <2>3 DEF MissedReporterIsQuiet, RunMoves
  <2>10. QED
    BY <2>4, <2>5, <2>6, <2>7, <2>8, <2>9 DEF RunInv
<1>15. ASSUME NEW w \in RunWorkers, WorkerInitFails(w) PROVE RunInv'
  <2>1. /\ runPc[w] = "start"
        /\ runError' = TRUE
        /\ UNCHANGED <<mpc, worker_barrier, report_barrier, threads_running, limited, runSilent, runCreated, joined, runReports, alarm, outcome>>
    BY <1>0, <1>15 DEF WorkerInitFails, RunExit
  <2>2. /\ RunMoves(w, "initfailed")
    BY <1>15, RunGoes DEF WorkerInitFails, RunPlaces
  <2>3. RunTypes'
    BY <1>0, <1>a, <1>15, <2>1, <2>2 DEF RunTypes, RunMoves, RunPlaces
  <2>4. Arrivals'
    BY <1>0, <1>a, <1>15, <2>1, <2>2 DEF Arrivals, RunMoves
  <2>5. Failures'
    BY <1>0, <1>a, <1>15, <2>1, <2>2 DEF Failures, RunMoves, RunTypes
  <2>6. Counts'
    BY <1>0, <1>a, <1>15, <2>1, <2>2 DEF Counts, RunMoves, RunTypes
  <2>7. Phases'
    BY <1>0, <1>a, <1>15, <2>1, <2>2 DEF Phases, RunMoves
  <2>8. MissedReporterIsQuiet'
    BY <1>0, <1>a, <1>15, <2>1, <2>2 DEF MissedReporterIsQuiet, RunMoves
  <2>9. QED
    BY <2>3, <2>4, <2>5, <2>6, <2>7, <2>8 DEF RunInv
<1>16. ASSUME NEW w \in RunWorkers, WorkerGivesUp(w) PROVE RunInv'
  <2>1. /\ runPc[w] = "initfailed"
        /\ UNCHANGED <<mpc, report_barrier, runError, limited, runSilent, runCreated, joined, runReports, alarm, outcome>>
    BY <1>0, <1>16 DEF WorkerGivesUp, RunExit
  <2>2. /\ RunMoves(w, "leave")
    BY <1>16, RunGoes DEF WorkerGivesUp, RunPlaces
  <2>3. /\ worker_barrier' \in Barriers /\ ~worker_barrier.open /\ ~worker_barrier.failed
        /\ worker_barrier'.arrived = worker_barrier.arrived \cup {w}
        /\ worker_barrier'.open <=> worker_barrier'.arrived = WorkerParty
        /\ worker_barrier'.failed <=> worker_barrier'.open /\ runError = TRUE
        /\ joined = 0 /\ threads_running' = IF worker_barrier'.open /\ ~worker_barrier'.failed THEN runThreads ELSE 0
        /\ w \in WorkerParty
    <3>1. w \in WorkerParty /\ w \notin worker_barrier.arrived
      BY <1>0, <1>a, <1>16, <2>1 DEF Arrivals, WorkerParty
    <3>2. ArriveAtWorkers(w)
      BY <1>16 DEF WorkerGivesUp
    <3>3. QED
      BY <3>1, <3>2, WorkersMeet
  <2>4. RunTypes'
    BY <1>0, <1>a, <1>16, <2>1, <2>2, <2>3 DEF RunTypes, RunMoves, RunPlaces
  <2>5. Arrivals'
    BY <1>0, <1>a, <1>16, <2>1, <2>2, <2>3 DEF Arrivals, RunMoves, WorkerParty
  <2>6. Failures'
    BY <1>0, <1>a, <1>16, <2>1, <2>2, <2>3 DEF Failures, RunMoves, RunTypes, Arrivals, WorkerParty
  <2>7. Counts'
    BY <1>0, <1>a, <1>16, <2>1, <2>2, <2>3 DEF Counts, RunMoves, RunTypes
  <2>8. Phases'
    BY <1>0, <1>a, <1>16, <2>1, <2>2, <2>3 DEF Phases, RunMoves
  <2>9. MissedReporterIsQuiet'
    BY <1>0, <1>a, <1>16, <2>1, <2>2, <2>3 DEF MissedReporterIsQuiet, RunMoves
  <2>10. QED
    BY <2>4, <2>5, <2>6, <2>7, <2>8, <2>9 DEF RunInv
<1>17. ASSUME NEW w \in RunWorkers, WorkerStarts(w) PROVE RunInv'
  <2>1. /\ runPc[w] \in {"wait", "leave"}
        /\ worker_barrier.open
        /\ UNCHANGED <<mpc, worker_barrier, report_barrier, runError, threads_running, limited, runSilent, runCreated, joined, runReports, alarm, outcome>>
    BY <1>0, <1>17 DEF WorkerStarts, RunExit
  <2>2. /\ \/ RunMoves(w, "gone") \/ (~worker_barrier.failed /\ runPc[w] # "leave" /\ RunMoves(w, "run"))
    BY <1>17, RunGoes DEF WorkerStarts, RunPlaces
  <2>3. RunTypes'
    BY <1>0, <1>a, <1>17, <2>1, <2>2 DEF RunTypes, RunMoves, RunPlaces
  <2>4. Arrivals'
    BY <1>0, <1>a, <1>17, <2>1, <2>2 DEF Arrivals, RunMoves
  <2>5. Failures'
    BY <1>0, <1>a, <1>17, <2>1, <2>2 DEF Failures, RunMoves, RunTypes
  <2>6. Counts'
    BY <1>0, <1>a, <1>17, <2>1, <2>2 DEF Counts, RunMoves, RunTypes
  <2>7. Phases'
    BY <1>0, <1>a, <1>17, <2>1, <2>2 DEF Phases, RunMoves
  <2>8. MissedReporterIsQuiet'
    BY <1>0, <1>a, <1>17, <2>1, <2>2 DEF MissedReporterIsQuiet, RunMoves
  <2>9. QED
    BY <2>3, <2>4, <2>5, <2>6, <2>7, <2>8 DEF RunInv
<1>18. ASSUME NEW w \in RunWorkers, WorkerEnds(w) PROVE RunInv'
  <2>1. /\ runPc[w] = "run"
        /\ runError' \in BOOLEAN
        /\ runError = TRUE => runError' = TRUE
        /\ UNCHANGED <<mpc, worker_barrier, report_barrier, threads_running, limited, runSilent, runCreated, joined, runReports, alarm, outcome>>
    BY <1>0, <1>18 DEF WorkerEnds, RunExit, RunTypes
  <2>2. /\ RunMoves(w, "gone")
    BY <1>18, RunGoes DEF WorkerEnds, RunPlaces
  <2>3. RunTypes'
    BY <1>0, <1>a, <1>18, <2>1, <2>2 DEF RunTypes, RunMoves, RunPlaces
  <2>4. Arrivals'
    BY <1>0, <1>a, <1>18, <2>1, <2>2 DEF Arrivals, RunMoves
  <2>5. Failures'
    BY <1>0, <1>a, <1>18, <2>1, <2>2 DEF Failures, RunMoves, RunTypes
  <2>6. Counts'
    BY <1>0, <1>a, <1>18, <2>1, <2>2 DEF Counts, RunMoves, RunTypes
  <2>7. Phases'
    BY <1>0, <1>a, <1>18, <2>1, <2>2 DEF Phases, RunMoves
  <2>8. MissedReporterIsQuiet'
    BY <1>0, <1>a, <1>18, <2>1, <2>2 DEF MissedReporterIsQuiet, RunMoves
  <2>9. QED
    BY <2>3, <2>4, <2>5, <2>6, <2>7, <2>8 DEF RunInv
<1>19. ASSUME "gen" \in Background, GenArrives PROVE RunInv'
  <2>1. /\ runPc["gen"] = "start"
        /\ UNCHANGED <<mpc, report_barrier, runError, limited, runSilent, runCreated, joined, runReports, alarm, outcome>>
    BY <1>0, <1>19 DEF GenArrives, RunExit
  <2>2. /\ \/ RunMoves("gen", "wait") \/ RunMoves("gen", "leave")
    BY <1>19, RunGoes DEF GenArrives, RunPlaces
  <2>3. /\ worker_barrier' \in Barriers /\ ~worker_barrier.open /\ ~worker_barrier.failed
        /\ worker_barrier'.arrived = worker_barrier.arrived \cup {"gen"}
        /\ worker_barrier'.open <=> worker_barrier'.arrived = WorkerParty
        /\ worker_barrier'.failed <=> worker_barrier'.open /\ runError = TRUE
        /\ joined = 0 /\ threads_running' = IF worker_barrier'.open /\ ~worker_barrier'.failed THEN runThreads ELSE 0
        /\ "gen" \in WorkerParty
    <3>1. "gen" \in WorkerParty /\ "gen" \notin worker_barrier.arrived
      BY <1>0, <1>a, <1>19, <2>1 DEF Arrivals, WorkerParty
    <3>2. ArriveAtWorkers("gen")
      BY <1>19 DEF GenArrives
    <3>3. QED
      BY <3>1, <3>2, WorkersMeet
  <2>4. RunTypes'
    BY <1>0, <1>a, <1>19, <2>1, <2>2, <2>3 DEF RunTypes, RunMoves, RunPlaces
  <2>5. Arrivals'
    BY <1>0, <1>a, <1>19, <2>1, <2>2, <2>3 DEF Arrivals, RunMoves, WorkerParty
  <2>6. Failures'
    BY <1>0, <1>a, <1>19, <2>1, <2>2, <2>3 DEF Failures, RunMoves, RunTypes, Arrivals, WorkerParty
  <2>7. Counts'
    BY <1>0, <1>a, <1>19, <2>1, <2>2, <2>3 DEF Counts, RunMoves, RunTypes
  <2>8. Phases'
    BY <1>0, <1>a, <1>19, <2>1, <2>2, <2>3 DEF Phases, RunMoves
  <2>9. MissedReporterIsQuiet'
    BY <1>0, <1>a, <1>19, <2>1, <2>2, <2>3 DEF MissedReporterIsQuiet, RunMoves
  <2>10. QED
    BY <2>4, <2>5, <2>6, <2>7, <2>8, <2>9 DEF RunInv
<1>20. ASSUME "gen" \in Background, GenStarts PROVE RunInv'
  <2>1. /\ runPc["gen"] \in {"wait", "leave"}
        /\ UNCHANGED <<mpc, worker_barrier, report_barrier, runError, threads_running, limited, runSilent, runCreated, joined, runReports, alarm, outcome>>
    BY <1>0, <1>20 DEF GenStarts, RunExit
  <2>2. /\ \/ RunMoves("gen", "gone") \/ RunMoves("gen", "flag")
    BY <1>20, RunGoes DEF GenStarts, RunPlaces
  <2>3. RunTypes'
    BY <1>0, <1>a, <1>20, <2>1, <2>2 DEF RunTypes, RunMoves, RunPlaces
  <2>4. Arrivals'
    BY <1>0, <1>a, <1>20, <2>1, <2>2 DEF Arrivals, RunMoves
  <2>5. Failures'
    BY <1>0, <1>a, <1>20, <2>1, <2>2 DEF Failures, RunMoves, RunTypes
  <2>6. Counts'
    BY <1>0, <1>a, <1>20, <2>1, <2>2 DEF Counts, RunMoves, RunTypes
  <2>7. Phases'
    BY <1>0, <1>a, <1>20, <2>1, <2>2 DEF Phases, RunMoves
  <2>8. MissedReporterIsQuiet'
    BY <1>0, <1>a, <1>20, <2>1, <2>2 DEF MissedReporterIsQuiet, RunMoves
  <2>9. QED
    BY <2>3, <2>4, <2>5, <2>6, <2>7, <2>8 DEF RunInv
<1>21. ASSUME "gen" \in Background, GenEnds PROVE RunInv'
  <2>1. /\ runPc["gen"] = "sleep"
        /\ runError' \in BOOLEAN
        /\ runError = TRUE => runError' = TRUE
        /\ UNCHANGED <<mpc, worker_barrier, report_barrier, threads_running, limited, runSilent, runCreated, joined, runReports, alarm, outcome>>
    BY <1>0, <1>21 DEF GenEnds, RunExit, RunTypes
  <2>2. /\ RunMoves("gen", "gone")
    BY <1>21, RunGoes DEF GenEnds, RunPlaces
  <2>3. RunTypes'
    BY <1>0, <1>a, <1>21, <2>1, <2>2 DEF RunTypes, RunMoves, RunPlaces
  <2>4. Arrivals'
    BY <1>0, <1>a, <1>21, <2>1, <2>2 DEF Arrivals, RunMoves
  <2>5. Failures'
    BY <1>0, <1>a, <1>21, <2>1, <2>2 DEF Failures, RunMoves, RunTypes
  <2>6. Counts'
    BY <1>0, <1>a, <1>21, <2>1, <2>2 DEF Counts, RunMoves, RunTypes
  <2>7. Phases'
    BY <1>0, <1>a, <1>21, <2>1, <2>2 DEF Phases, RunMoves
  <2>8. MissedReporterIsQuiet'
    BY <1>0, <1>a, <1>21, <2>1, <2>2 DEF MissedReporterIsQuiet, RunMoves
  <2>9. QED
    BY <2>3, <2>4, <2>5, <2>6, <2>7, <2>8 DEF RunInv
<1>22. ASSUME NEW t \in RunReporters, ReporterInitFails(t) PROVE RunInv'
  <2>1. /\ runPc[t] = "start"
        /\ UNCHANGED <<mpc, worker_barrier, report_barrier, runError, threads_running, limited, runSilent, runCreated, joined, runReports, alarm, outcome>>
    BY <1>0, <1>22 DEF ReporterInitFails, RunExit
  <2>2. /\ RunMoves(t, "gone")
    BY <1>22, RunGoes DEF ReporterInitFails, RunPlaces, RunReporters
  <2>3. RunTypes'
    BY <1>0, <1>a, <1>22, <2>1, <2>2 DEF RunTypes, RunMoves, RunPlaces, RunReporters
  <2>4. Arrivals'
    BY <1>0, <1>a, <1>22, <2>1, <2>2 DEF Arrivals, RunMoves, RunReporters
  <2>5. Failures'
    BY <1>0, <1>a, <1>22, <2>1, <2>2 DEF Failures, RunMoves, RunTypes, RunReporters
  <2>6. Counts'
    BY <1>0, <1>a, <1>22, <2>1, <2>2 DEF Counts, RunMoves, RunTypes, RunReporters
  <2>7. Phases'
    BY <1>0, <1>a, <1>22, <2>1, <2>2 DEF Phases, RunMoves, RunReporters
  <2>8. MissedReporterIsQuiet'
    BY <1>0, <1>a, <1>22, <2>1, <2>2 DEF MissedReporterIsQuiet, RunMoves, RunReporters
  <2>9. QED
    BY <2>3, <2>4, <2>5, <2>6, <2>7, <2>8 DEF RunInv
<1>23. ASSUME NEW t \in RunReporters, ReporterArrives(t) PROVE RunInv'
  <2>1. /\ runPc[t] = "start"
        /\ report_barrier' \in Barriers
        /\ UNCHANGED <<mpc, worker_barrier, runError, threads_running, limited, runSilent, runCreated, joined, runReports, alarm, outcome>>
    BY <1>0, <1>23, ReportersMeet DEF ReporterArrives, RunExit, ReportParty, RunReporters
  <2>2. /\ RunMoves(t, "wait")
    BY <1>23, RunGoes DEF ReporterArrives, RunPlaces, RunReporters
  <2>3. RunTypes'
    BY <1>0, <1>a, <1>23, <2>1, <2>2 DEF RunTypes, RunMoves, RunPlaces, RunReporters
  <2>4. Arrivals'
    BY <1>0, <1>a, <1>23, <2>1, <2>2 DEF Arrivals, RunMoves, RunReporters
  <2>5. Failures'
    BY <1>0, <1>a, <1>23, <2>1, <2>2 DEF Failures, RunMoves, RunTypes, RunReporters
  <2>6. Counts'
    BY <1>0, <1>a, <1>23, <2>1, <2>2 DEF Counts, RunMoves, RunTypes, RunReporters
  <2>7. Phases'
    BY <1>0, <1>a, <1>23, <2>1, <2>2 DEF Phases, RunMoves, RunReporters
  <2>8. MissedReporterIsQuiet'
    BY <1>0, <1>a, <1>23, <2>1, <2>2 DEF MissedReporterIsQuiet, RunMoves, RunReporters
  <2>9. QED
    BY <2>3, <2>4, <2>5, <2>6, <2>7, <2>8 DEF RunInv
<1>24. ASSUME NEW t \in RunReporters, ReporterStarts(t) PROVE RunInv'
  <2>1. /\ runPc[t] = "wait"
        /\ UNCHANGED <<mpc, worker_barrier, report_barrier, runError, threads_running, limited, runSilent, runCreated, joined, runReports, alarm, outcome>>
    BY <1>0, <1>24 DEF ReporterStarts, RunExit
  <2>2. /\ RunMoves(t, "flag")
    BY <1>24, RunGoes DEF ReporterStarts, RunPlaces, RunReporters
  <2>3. RunTypes'
    BY <1>0, <1>a, <1>24, <2>1, <2>2 DEF RunTypes, RunMoves, RunPlaces, RunReporters
  <2>4. Arrivals'
    BY <1>0, <1>a, <1>24, <2>1, <2>2 DEF Arrivals, RunMoves, RunReporters
  <2>5. Failures'
    BY <1>0, <1>a, <1>24, <2>1, <2>2 DEF Failures, RunMoves, RunTypes, RunReporters
  <2>6. Counts'
    BY <1>0, <1>a, <1>24, <2>1, <2>2 DEF Counts, RunMoves, RunTypes, RunReporters
  <2>7. Phases'
    BY <1>0, <1>a, <1>24, <2>1, <2>2 DEF Phases, RunMoves, RunReporters
  <2>8. MissedReporterIsQuiet'
    BY <1>0, <1>a, <1>24, <2>1, <2>2 DEF MissedReporterIsQuiet, RunMoves, RunReporters
  <2>9. QED
    BY <2>3, <2>4, <2>5, <2>6, <2>7, <2>8 DEF RunInv
<1>25. ASSUME NEW t \in RunReporters, Reported(t) PROVE RunInv'
  <2>1. /\ runPc[t] = "reporting"
        /\ UNCHANGED <<mpc, worker_barrier, report_barrier, runError, threads_running, limited, runSilent, runCreated, joined, runReports, alarm, outcome>>
    BY <1>0, <1>25 DEF Reported, RunExit
  <2>2. /\ RunMoves(t, "sleep")
    BY <1>25, RunGoes DEF Reported, RunPlaces, RunReporters
  <2>3. RunTypes'
    BY <1>0, <1>a, <1>25, <2>1, <2>2 DEF RunTypes, RunMoves, RunPlaces, RunReporters
  <2>4. Arrivals'
    BY <1>0, <1>a, <1>25, <2>1, <2>2 DEF Arrivals, RunMoves, RunReporters
  <2>5. Failures'
    BY <1>0, <1>a, <1>25, <2>1, <2>2 DEF Failures, RunMoves, RunTypes, RunReporters
  <2>6. Counts'
    BY <1>0, <1>a, <1>25, <2>1, <2>2 DEF Counts, RunMoves, RunTypes, RunReporters
  <2>7. Phases'
    BY <1>0, <1>a, <1>25, <2>1, <2>2 DEF Phases, RunMoves, RunReporters
  <2>8. MissedReporterIsQuiet'
    BY <1>0, <1>a, <1>25, <2>1, <2>2 DEF MissedReporterIsQuiet, RunMoves, RunReporters
  <2>9. QED
    BY <2>3, <2>4, <2>5, <2>6, <2>7, <2>8 DEF RunInv
<1>26. ASSUME NEW t \in Background, RunSetCreated(t) PROVE RunInv'
  <2>1. /\ runPc[t] = "flag"
        /\ runCreated' = runCreated \cup {t}
        /\ UNCHANGED <<mpc, worker_barrier, report_barrier, runError, threads_running, limited, runSilent, joined, runReports, alarm, outcome>>
    BY <1>0, <1>26 DEF RunSetCreated, RunExit
  <2>2. /\ RunMoves(t, "sleep")
    BY <1>26, RunGoes DEF RunSetCreated, RunPlaces
  <2>3. RunTypes'
    BY <1>0, <1>a, <1>26, <2>1, <2>2 DEF RunTypes, RunMoves, RunPlaces
  <2>4. Arrivals'
    BY <1>0, <1>a, <1>26, <2>1, <2>2 DEF Arrivals, RunMoves
  <2>5. Failures'
    BY <1>0, <1>a, <1>26, <2>1, <2>2 DEF Failures, RunMoves, RunTypes
  <2>6. Counts'
    BY <1>0, <1>a, <1>26, <2>1, <2>2 DEF Counts, RunMoves, RunTypes
  <2>7. Phases'
    BY <1>0, <1>a, <1>26, <2>1, <2>2 DEF Phases, RunMoves
  <2>8. MissedReporterIsQuiet'
    BY <1>0, <1>a, <1>26, <2>1, <2>2 DEF MissedReporterIsQuiet, RunMoves
  <2>9. QED
    BY <2>3, <2>4, <2>5, <2>6, <2>7, <2>8 DEF RunInv
<1>27. ASSUME "report" \in Background, Intermediate PROVE RunInv'
  <2>1. /\ runPc["report"] = "sleep"
        /\ ~runSilent
        /\ UNCHANGED <<mpc, worker_barrier, report_barrier, runError, threads_running, limited, runSilent, runCreated, joined, runReports, alarm, outcome>>
    BY <1>0, <1>27 DEF Intermediate, RunExit
  <2>2. /\ RunMoves("report", "reporting")
    BY <1>27, RunGoes DEF Intermediate, RunPlaces
  <2>3. RunTypes'
    BY <1>0, <1>a, <1>27, <2>1, <2>2 DEF RunTypes, RunMoves, RunPlaces
  <2>4. Arrivals'
    BY <1>0, <1>a, <1>27, <2>1, <2>2 DEF Arrivals, RunMoves
  <2>5. Failures'
    BY <1>0, <1>a, <1>27, <2>1, <2>2 DEF Failures, RunMoves, RunTypes
  <2>6. Counts'
    BY <1>0, <1>a, <1>27, <2>1, <2>2 DEF Counts, RunMoves, RunTypes
  <2>7. Phases'
    BY <1>0, <1>a, <1>27, <2>1, <2>2 DEF Phases, RunMoves
  <2>8. MissedReporterIsQuiet'
    BY <1>0, <1>a, <1>27, <2>1, <2>2 DEF MissedReporterIsQuiet, RunMoves, Phases
  <2>9. QED
    BY <2>3, <2>4, <2>5, <2>6, <2>7, <2>8 DEF RunInv
<1>28. ASSUME "checkpoints" \in Background, Checkpoint PROVE RunInv'
  <2>1. /\ runPc["checkpoints"] = "sleep"
        /\ runReports' \in 0 .. n_checkpoints
        /\ UNCHANGED <<mpc, worker_barrier, report_barrier, runError, threads_running, limited, runSilent, runCreated, joined, alarm, outcome>>
    BY <1>0, <1>28, OptionsAssumption DEF Checkpoint, RunExit, RunTypes
  <2>2. /\ \/ RunMoves("checkpoints", "reporting") \/ RunMoves("checkpoints", "sleep") \/ RunMoves("checkpoints", "gone")
    BY <1>28, RunGoes DEF Checkpoint, RunPlaces
  <2>3. RunTypes'
    BY <1>0, <1>a, <1>28, <2>1, <2>2 DEF RunTypes, RunMoves, RunPlaces
  <2>4. Arrivals'
    BY <1>0, <1>a, <1>28, <2>1, <2>2 DEF Arrivals, RunMoves
  <2>5. Failures'
    BY <1>0, <1>a, <1>28, <2>1, <2>2 DEF Failures, RunMoves, RunTypes
  <2>6. Counts'
    BY <1>0, <1>a, <1>28, <2>1, <2>2 DEF Counts, RunMoves, RunTypes
  <2>7. Phases'
    BY <1>0, <1>a, <1>28, <2>1, <2>2 DEF Phases, RunMoves
  <2>8. MissedReporterIsQuiet'
    BY <1>0, <1>a, <1>28, <2>1, <2>2 DEF MissedReporterIsQuiet, RunMoves
  <2>9. QED
    BY <2>3, <2>4, <2>5, <2>6, <2>7, <2>8 DEF RunInv
<1>29. ASSUME NEW t \in {"report", "gen", "checkpoints"}, RunCancel(t) PROVE RunInv'
  <2>1. /\ mpc = t /\ mpc' = AfterCancel(t) /\ (t \notin runCreated => runPc' = runPc)
        /\ UNCHANGED <<worker_barrier, report_barrier, runError, threads_running, limited, runSilent, runCreated, joined, runReports, alarm, outcome>>
    BY <1>0, <1>29 DEF RunCancel
  <2>2. t \in runCreated => t \in Background /\ RunMoves(t, "gone")
    BY <1>0, <1>29, RunGoes DEF RunCancel, RunPlaces, RunTypes
  <2>3. mpc' \in {"gen", "checkpoints", "final"} /\ (t = "report" \/ mpc \in {"gen", "checkpoints"})
    BY <1>29, <2>1 DEF AfterCancel
  <2>4. RunTypes'
    BY <1>0, <1>a, <1>29, <2>1, <2>2, <2>3 DEF RunTypes, RunMoves, RunPlaces
  <2>5. Arrivals'
    BY <1>0, <1>a, <1>29, <2>1, <2>2, <2>3 DEF Arrivals, RunMoves, Counts, WorkerParty
  <2>6. Failures'
    BY <1>0, <1>a, <1>29, <2>1, <2>2, <2>3 DEF Failures, RunMoves, RunTypes
  <2>7. Counts'
    BY <1>0, <1>a, <1>29, <2>1, <2>2, <2>3 DEF Counts, RunMoves, RunTypes
  <2>8. Phases'
    BY <1>0, <1>a, <1>29, <2>1, <2>2, <2>3 DEF Phases, RunMoves
  <2>9. MissedReporterIsQuiet'
    BY <1>0, <1>a, <1>29, <2>1, <2>2, <2>3 DEF MissedReporterIsQuiet, RunMoves, Phases
  <2>10. QED
    BY <2>4, <2>5, <2>6, <2>7, <2>8, <2>9 DEF RunInv
<1>30. ASSUME NEW w \in RunWorkers, WorkerHangs(w) PROVE RunInv'
  <2>1. /\ runPc[w] = "run"
        /\ UNCHANGED <<mpc, worker_barrier, report_barrier, runError, threads_running, limited, runSilent, runCreated, joined, runReports, alarm, outcome>>
    BY <1>0, <1>30 DEF WorkerHangs, RunExit, RunTypes
  <2>2. /\ RunMoves(w, "hung")
    BY <1>30, RunGoes DEF WorkerHangs, RunPlaces
  <2>3. RunTypes'
    BY <1>0, <1>a, <1>30, <2>1, <2>2 DEF RunTypes, RunMoves, RunPlaces
  <2>4. Arrivals'
    BY <1>0, <1>a, <1>30, <2>1, <2>2 DEF Arrivals, RunMoves
  <2>5. Failures'
    BY <1>0, <1>a, <1>30, <2>1, <2>2 DEF Failures, RunMoves, RunTypes
  <2>6. Counts'
    BY <1>0, <1>a, <1>30, <2>1, <2>2 DEF Counts, RunMoves, RunTypes
  <2>7. Phases'
    BY <1>0, <1>a, <1>30, <2>1, <2>2 DEF Phases, RunMoves
  <2>8. MissedReporterIsQuiet'
    BY <1>0, <1>a, <1>30, <2>1, <2>2 DEF MissedReporterIsQuiet, RunMoves
  <2>9. QED
    BY <2>3, <2>4, <2>5, <2>6, <2>7, <2>8 DEF RunInv
<1>31. ASSUME NEW t \in {"main"} \cup RunWorkers \cup Background, AlarmFires(t) PROVE RunInv'
  <2>1. /\ alarm' = "off"
        /\ UNCHANGED <<mpc, runPc, worker_barrier, report_barrier, runError, threads_running, limited, runSilent, runCreated, joined, runReports, outcome>>
    BY <1>31 DEF AlarmFires
  <2>2. RunTypes'
    BY <1>0, <1>a, <2>1 DEF RunTypes
  <2>3. Arrivals'
    BY <1>0, <1>a, <2>1 DEF Arrivals
  <2>4. Failures'
    BY <1>0, <1>a, <2>1 DEF Failures, RunTypes
  <2>5. Counts'
    BY <1>0, <1>a, <2>1 DEF Counts, RunTypes
  <2>6. Phases'
    BY <1>0, <1>a, <2>1 DEF Phases
  <2>7. MissedReporterIsQuiet'
    BY <1>0, <1>a, <2>1 DEF MissedReporterIsQuiet
  <2>8. QED
    BY <2>2, <2>3, <2>4, <2>5, <2>6, <2>7 DEF RunInv
<1>32. CASE MainSteps
  <2>1. RunMain \/ \E t \in {"report", "gen", "checkpoints"} : RunCancel(t)
    BY <1>32 DEF MainSteps
  <2>2. QED
    BY <2>1, <1>1, <1>2, <1>3, <1>4, <1>5, <1>6, <1>7, <1>8, <1>9, <1>10, <1>11, <1>13, <1>29 DEF RunMain
<1>33. ASSUME NEW t \in RunWorkers \cup Background, RunThread(t) PROVE RunInv'
  BY <1>a, <1>33, <1>16, <1>17, <1>18, <1>19, <1>20, <1>22, <1>23, <1>24, <1>25, <1>26, <1>27, <1>28, <1>30 DEF RunThread
<1>34. QED
  <2>1. CASE AlarmSteps
    BY <2>1, <1>12, <1>31 DEF AlarmSteps
  <2>2. CASE FreeSteps
    BY <2>2, <1>14, <1>15, <1>21 DEF FreeSteps, Initialize
  <2>3. QED
    BY <2>1, <2>2, <1>32, <1>33 DEF RunNext, ThreadSteps

-----------------------------------------------------------------------------
(* The interpreters: names, and what the helpers leave behind. *)
LEMMA LuaNames ==
    /\ LuaMain # Reporter /\ LuaMain \in LuaThread /\ Reporter \in LuaThread
    /\ \A w \in LuaWorker : w # LuaMain /\ w # Reporter /\ w \in LuaThread
    /\ \A t \in LuaThread : t = LuaMain \/ t = Reporter \/ t \in LuaWorker
  BY LuaBoundsAssumption DEF LuaMain, Reporter, LuaThread

LuaPlaces == MainPlaces \cup WorkerPlaces \cup ReporterPlaces
LuaMoves(t, p) ==
    /\ luaPc' \in [LuaThread -> LuaPlaces] /\ luaPc'[t] = p
    /\ \A u \in LuaThread \ {t} : luaPc'[u] = luaPc[u]
BothMove(p, q) ==
    /\ luaPc' \in [LuaThread -> LuaPlaces] /\ luaPc'[LuaMain] = p /\ luaPc'[Reporter] = q
    /\ \A w \in LuaWorker : luaPc'[w] = luaPc[w]
InterpreterIs(t, s) ==
    /\ lua' \in [LuaThread -> {"none", "open", "closed", "lost"}] /\ tls' \in [LuaThread -> BOOLEAN]
    /\ lua'[t] = s /\ \A u \in LuaThread \ {t} : lua'[u] = lua[u]
    /\ \A u \in LuaThread : tls'[u] <=> lua'[u] = "open"
KnowsOptions(t) ==
    /\ exported' \in [LuaThread -> BOOLEAN] /\ exported'[t]
    /\ \A u \in LuaThread : exported[u] => exported'[u]
MisuseOnly(X) == \A x \in misuse' : x \in misuse \/ x \in X

LEMMA LuaGoes ==
    ASSUME LuaTypes, NEW t \in LuaThread, NEW p \in LuaPlaces, LuaGoto(t, p)
    PROVE  LuaMoves(t, p)
  BY DEF LuaTypes, LuaGoto, LuaMoves, LuaPlaces

LEMMA NewInterpreter ==
    ASSUME LuaTypes, NEW t \in LuaThread, NEW ok \in BOOLEAN, lua[t] = "none", sb_lua_new_state(t, ok)
    PROVE  InterpreterIs(t, IF ok THEN "open" ELSE "lost")
<1>1. ~tls[t] /\ tls \in [LuaThread -> BOOLEAN]
  BY DEF LuaTypes
<1>2. /\ tls' \in [LuaThread -> BOOLEAN] /\ (tls'[t] <=> ok) /\ \A u \in LuaThread \ {t} : tls'[u] = tls[u]
  BY <1>1, Zenon DEF sb_lua_new_state
<1>3. /\ lua' \in [LuaThread -> {"none", "open", "closed", "lost"}] /\ lua'[t] = IF ok THEN "open" ELSE "lost"
      /\ \A u \in LuaThread \ {t} : lua'[u] = lua[u]
  BY DEF LuaTypes, sb_lua_new_state
<1>4. QED
  BY <1>2, <1>3 DEF LuaTypes, InterpreterIs

LEMMA ClosedInterpreter ==
    ASSUME LuaTypes, NEW t \in LuaThread, lua[t] = "open", sb_lua_close_state(t)
    PROVE  InterpreterIs(t, "closed")
  BY DEF LuaTypes, InterpreterIs, sb_lua_close_state

LEMMA OptionsExported ==
    ASSUME LuaTypes, NEW t \in LuaThread, export_options(t)
    PROVE  KnowsOptions(t)
  BY DEF LuaTypes, KnowsOptions, export_options

(* A call in an open interpreter that knows the options misuses nothing. *)
LEMMA CallIsGood ==
    ASSUME NEW t, NEW knows, knows, lua[t] = "open"
    PROVE  CallMisuse(t, knows) = {} /\ CloseMisuse(t) = {}
  BY DEF CallMisuse, CloseMisuse

LEMMA LuaInitInv == LuaInit => LuaInv
<1> SUFFICES ASSUME LuaInit PROVE LuaInv
  OBVIOUS
<1>0. luaPc[LuaMain] = "load" /\ luaPc[Reporter] = "none" /\ \A w \in LuaWorker : luaPc[w] = "none"
  BY LuaNames DEF LuaInit
<1>a. (\A t \in LuaThread : lua[t] = "none" /\ ~tls[t]) /\ gstate = FALSE /\ luaError = FALSE
  BY DEF LuaInit
<1>1. LuaTypes
  <2>1. luaPc \in [LuaThread -> LuaPlaces]
    BY DEF LuaInit, LuaPlaces, MainPlaces, ReporterPlaces
  <2>2. luaCreated \in BOOLEAN /\ luaSilent \in BOOLEAN /\ luaError \in BOOLEAN /\ gstate \in BOOLEAN
    BY Zenon DEF LuaInit
  <2>3. tls \in [LuaThread -> BOOLEAN] /\ exported \in [LuaThread -> BOOLEAN]
    BY Zenon DEF LuaInit
  <2>4. lua \in [LuaThread -> {"none", "open", "closed", "lost"}] /\ luaCalls \in [LuaWorker -> Nat] /\ luaReports \in Nat
    BY DEF LuaInit
  <2>5. luaPc[LuaMain] \in MainPlaces /\ luaPc[Reporter] \in ReporterPlaces /\ \A w \in LuaWorker : luaPc[w] \in WorkerPlaces
    BY <1>0 DEF MainPlaces, ReporterPlaces, WorkerPlaces
  <2>6. QED
    BY <1>a, <2>1, <2>2, <2>3, <2>4, <2>5 DEF LuaInit, LuaTypes, LuaPlaces, CommandKinds
<1>2. MainState
  BY <1>0, <1>a, LuaNames DEF LuaInit, MainState, Loaded, CommandKinds
<1>3. \A w \in LuaWorker : WorkerState(w)
  BY <1>0, <1>a, LuaNames DEF LuaInit, WorkerState
<1>4. WorkersBetween
  BY <1>0 DEF LuaInit, WorkersBetween
<1>5. ReporterState
  BY <1>0, <1>a, LuaNames DEF LuaInit, ReporterState
<1>6. Told /\ NoUseAfterClose /\ OptionsAreThere
  BY <1>a DEF LuaInit, Told, NoUseAfterClose, OptionsAreThere
<1>7. QED
  BY <1>1, <1>2, <1>3, <1>4, <1>5, <1>6 DEF LuaInv

LEMMA LuaNextInv ==
    ASSUME LuaInv, LuaNext
    PROVE  LuaInv'
<1>0. /\ LuaTypes /\ MainState /\ (\A w \in LuaWorker : WorkerState(w)) /\ WorkersBetween /\ ReporterState /\ Told
      /\ NoUseAfterClose /\ OptionsAreThere
  BY DEF LuaInv
<1>a. /\ LuaMain # Reporter /\ LuaMain \in LuaThread /\ Reporter \in LuaThread
      /\ \A w \in LuaWorker : w # LuaMain /\ w # Reporter /\ w \in LuaThread
      /\ \A t \in LuaThread : t = LuaMain \/ t = Reporter \/ t \in LuaWorker
  BY LuaNames
<1>1. CASE sb_load_lua
  <2>1. UNCHANGED <<cmd, exported, slot, luaCalls, luaReports, luaCreated, luaSilent, luaError, misuse>>
    BY <1>1 DEF sb_load_lua, interp, luaArray, run
  <2>2. luaPc[LuaMain] = "load" /\ lua[LuaMain] # "open" /\ ~tls[LuaMain] /\ cmd \in CommandKinds
    BY <1>0, <1>a, <1>1, <2>1 DEF sb_load_lua, MainState, LuaTypes
  <2>3. \/ /\ \E s \in {"lost", "closed"} : InterpreterIs(LuaMain, s)
           /\ gstate' = gstate /\ states' = states /\ luaRc' = "failure" /\ LuaMoves(LuaMain, "exit")
        \/ /\ InterpreterIs(LuaMain, "open") /\ gstate' = TRUE /\ states' = "live" /\ luaRc' = luaRc
           /\ LuaMoves(LuaMain, cmd)
    <3>1. ASSUME NEW p \in LuaPlaces, LuaGoto(LuaMain, p) PROVE LuaMoves(LuaMain, p)
      BY <1>0, <1>a, <3>1, LuaGoes
    <3>2. "exit" \in LuaPlaces /\ cmd \in LuaPlaces
      BY <2>2 DEF LuaPlaces, MainPlaces, WorkerPlaces, ReporterPlaces, CommandKinds
    <3>3. ASSUME NEW s \in {"lost", "closed"}, lua' = [lua EXCEPT ![LuaMain] = s], tls' = tls
          PROVE  InterpreterIs(LuaMain, s)
      BY <1>0, <1>a, <2>2, <3>3 DEF LuaTypes, InterpreterIs
    <3>4. sb_lua_new_state(LuaMain, TRUE) => InterpreterIs(LuaMain, "open")
      BY <1>0, <1>a, <2>2 DEF LuaTypes, InterpreterIs, sb_lua_new_state
    <3>5. QED
      BY <1>1, <3>1, <3>2, <3>3, <3>4 DEF sb_load_lua
  <2>4. LuaTypes'
    BY <1>0, <1>a, <2>1, <2>2, <2>3 DEF LuaTypes, LuaPlaces, MainPlaces, WorkerPlaces, ReporterPlaces, CommandKinds, LuaMoves, BothMove, InterpreterIs
  <2>5. MainState'
    BY <1>0, <1>a, <2>1, <2>2, <2>3 DEF MainState, Loaded, CommandKinds, LuaMoves, BothMove, InterpreterIs
  <2>6. \A u \in LuaWorker : WorkerState(u)'
    BY <1>0, <1>a, <2>1, <2>2, <2>3 DEF WorkerState, LuaMoves, BothMove, InterpreterIs
  <2>7. WorkersBetween'
    BY <1>0, <1>a, <2>1, <2>2, <2>3 DEF WorkersBetween, CommandKinds, CreateFailed, LuaMoves, BothMove
  <2>8. ReporterState'
    BY <1>0, <1>a, <2>1, <2>2, <2>3 DEF ReporterState, CommandKinds, LuaMoves, BothMove, InterpreterIs, MainState, Loaded
  <2>9. Told'
    BY <1>0, <1>a, <2>1, <2>2, <2>3 DEF Told, CommandKinds, LuaMoves, BothMove, WorkersBetween, LuaTypes
  <2>10. NoUseAfterClose'
    BY <1>0, <1>a, <2>1, <2>2, <2>3 DEF NoUseAfterClose
  <2>11. OptionsAreThere'
    BY <1>0, <1>a, <2>1, <2>2, <2>3 DEF OptionsAreThere
  <2>12. QED
    BY <2>4, <2>5, <2>6, <2>7, <2>8, <2>9, <2>10, <2>11 DEF LuaInv
<1>2. CASE execute_command
  <2>1. UNCHANGED <<cmd, lua, tls, gstate, states, slot, luaCalls, luaReports, luaCreated, luaSilent, luaError>>
    BY <1>2 DEF execute_command, interp, luaArray, run
  <2>2. luaPc[LuaMain] \in {"builtin", "custom"} /\ cmd # "run" /\ lua[LuaMain] = "open"
    BY <1>0, <1>a, <1>2, <2>1 DEF execute_command, MainState, Loaded, CommandKinds
  <2>3. luaRc' \in {"success", "failure"}
    BY <1>0, <1>a, <1>2, <2>1, <2>2 DEF execute_command
  <2>4. LuaMoves(LuaMain, "end")
    BY <1>0, <1>a, <1>2, <2>1, <2>2, <2>3, LuaGoes DEF execute_command, LuaPlaces, MainPlaces, WorkerPlaces, ReporterPlaces, CommandKinds
  <2>5. KnowsOptions(LuaMain)
    BY <1>0, <1>a, <1>2, <2>1, <2>2, <2>3, <2>4, OptionsExported DEF execute_command
  <2>6. MisuseOnly({})
    <3>1. CallMisuse(LuaMain, exported'[LuaMain]) = {} /\ CloseMisuse(LuaMain) = {}
      BY <1>0, <1>a, <1>2, <2>1, <2>2, <2>3, <2>4, <2>5, CallIsGood DEF KnowsOptions
    <3>2. QED
      BY <1>2, <3>1 DEF execute_command, MisuseOnly
  <2>7. LuaTypes'
    BY <1>0, <1>a, <2>1, <2>2, <2>3, <2>4, <2>5, <2>6 DEF LuaTypes, LuaPlaces, MainPlaces, WorkerPlaces, ReporterPlaces, CommandKinds, LuaMoves, BothMove, KnowsOptions
  <2>8. MainState'
    BY <1>0, <1>a, <2>1, <2>2, <2>3, <2>4, <2>5, <2>6 DEF MainState, Loaded, CommandKinds, LuaMoves, BothMove, KnowsOptions
  <2>9. \A u \in LuaWorker : WorkerState(u)'
    BY <1>0, <1>a, <2>1, <2>2, <2>3, <2>4, <2>5, <2>6 DEF WorkerState, LuaMoves, BothMove, KnowsOptions
  <2>10. WorkersBetween'
    BY <1>0, <1>a, <2>1, <2>2, <2>3, <2>4, <2>5, <2>6 DEF WorkersBetween, CommandKinds, CreateFailed, LuaMoves, BothMove, MisuseOnly
  <2>11. ReporterState'
    BY <1>0, <1>a, <2>1, <2>2, <2>3, <2>4, <2>5, <2>6 DEF ReporterState, CommandKinds, LuaMoves, BothMove, KnowsOptions, MainState, Loaded
  <2>12. Told'
    BY <1>0, <1>a, <2>1, <2>2, <2>3, <2>4, <2>5, <2>6 DEF Told, CommandKinds, LuaMoves, BothMove, WorkersBetween, LuaTypes
  <2>13. NoUseAfterClose'
    BY <1>0, <1>a, <2>1, <2>2, <2>3, <2>4, <2>5, <2>6 DEF NoUseAfterClose, MisuseOnly
  <2>14. OptionsAreThere'
    BY <1>0, <1>a, <2>1, <2>2, <2>3, <2>4, <2>5, <2>6 DEF OptionsAreThere, MisuseOnly
  <2>15. QED
    BY <2>7, <2>8, <2>9, <2>10, <2>11, <2>12, <2>13, <2>14 DEF LuaInv
<1>3. CASE sb_lua_op_init
  <2>1. UNCHANGED <<cmd, lua, tls, gstate, states, slot, luaCalls, luaReports, luaCreated, luaSilent, luaError>>
    BY <1>3 DEF sb_lua_op_init, interp, luaArray, run
  <2>2. luaPc[LuaMain] = "run" /\ cmd = "run" /\ lua[LuaMain] = "open"
    BY <1>0, <1>a, <1>3, <2>1 DEF sb_lua_op_init, MainState, Loaded, CommandKinds
  <2>3. \/ luaRc' = "failure" /\ LuaMoves(LuaMain, "end")
        \/ luaRc' = luaRc /\ BothMove("create", "start")
    BY <1>0, <1>a, <1>3, <2>1, <2>2, LuaGoes DEF sb_lua_op_init, BothMove, LuaTypes, LuaPlaces, MainPlaces, WorkerPlaces, ReporterPlaces, CommandKinds
  <2>4. KnowsOptions(LuaMain)
    BY <1>0, <1>a, <1>3, <2>1, <2>2, <2>3, OptionsExported DEF sb_lua_op_init
  <2>5. MisuseOnly({})
    <3>1. CallMisuse(LuaMain, exported'[LuaMain]) = {} /\ CloseMisuse(LuaMain) = {}
      BY <1>0, <1>a, <1>3, <2>1, <2>2, <2>3, <2>4, CallIsGood DEF KnowsOptions
    <3>2. QED
      BY <1>3, <3>1 DEF sb_lua_op_init, MisuseOnly
  <2>6. LuaTypes'
    BY <1>0, <1>a, <2>1, <2>2, <2>3, <2>4, <2>5 DEF LuaTypes, LuaPlaces, MainPlaces, WorkerPlaces, ReporterPlaces, CommandKinds, LuaMoves, BothMove, KnowsOptions
  <2>7. MainState'
    BY <1>0, <1>a, <2>1, <2>2, <2>3, <2>4, <2>5 DEF MainState, Loaded, CommandKinds, LuaMoves, BothMove, KnowsOptions
  <2>8. \A u \in LuaWorker : WorkerState(u)'
    BY <1>0, <1>a, <2>1, <2>2, <2>3, <2>4, <2>5 DEF WorkerState, LuaMoves, BothMove, KnowsOptions
  <2>9. WorkersBetween'
    BY <1>0, <1>a, <2>1, <2>2, <2>3, <2>4, <2>5 DEF WorkersBetween, CommandKinds, CreateFailed, LuaMoves, BothMove, MisuseOnly
  <2>10. ReporterState'
    BY <1>0, <1>a, <2>1, <2>2, <2>3, <2>4, <2>5 DEF ReporterState, CommandKinds, LuaMoves, BothMove, KnowsOptions, MainState, Loaded
  <2>11. Told'
    BY <1>0, <1>a, <2>1, <2>2, <2>3, <2>4, <2>5 DEF Told, CommandKinds, LuaMoves, BothMove, WorkersBetween, LuaTypes
  <2>12. NoUseAfterClose'
    BY <1>0, <1>a, <2>1, <2>2, <2>3, <2>4, <2>5 DEF NoUseAfterClose, MisuseOnly
  <2>13. OptionsAreThere'
    BY <1>0, <1>a, <2>1, <2>2, <2>3, <2>4, <2>5 DEF OptionsAreThere, MisuseOnly
  <2>14. QED
    BY <2>6, <2>7, <2>8, <2>9, <2>10, <2>11, <2>12, <2>13 DEF LuaInv
<1>4. CASE ParallelCommand
  <2>1. UNCHANGED <<cmd, lua, tls, exported, gstate, states, slot, luaCalls, luaReports, luaCreated, luaSilent, luaError, luaRc, misuse>>
    BY <1>4 DEF ParallelCommand, interp, luaArray, run
  <2>2. luaPc[LuaMain] = "parallel" /\ cmd = "parallel"
    BY <1>0, <1>a, <1>4, <2>1 DEF ParallelCommand, MainState, CommandKinds
  <2>3. LuaMoves(LuaMain, "create")
    BY <1>0, <1>a, <1>4, <2>1, <2>2, LuaGoes DEF ParallelCommand, LuaPlaces, MainPlaces, WorkerPlaces, ReporterPlaces, CommandKinds
  <2>4. LuaTypes'
    BY <1>0, <1>a, <2>1, <2>2, <2>3 DEF LuaTypes, LuaPlaces, MainPlaces, WorkerPlaces, ReporterPlaces, CommandKinds, LuaMoves, BothMove
  <2>5. MainState'
    BY <1>0, <1>a, <2>1, <2>2, <2>3 DEF MainState, Loaded, CommandKinds, LuaMoves, BothMove
  <2>6. \A u \in LuaWorker : WorkerState(u)'
    BY <1>0, <1>a, <2>1, <2>2, <2>3 DEF WorkerState, LuaMoves, BothMove
  <2>7. WorkersBetween'
    BY <1>0, <1>a, <2>1, <2>2, <2>3 DEF WorkersBetween, CommandKinds, CreateFailed, LuaMoves, BothMove
  <2>8. ReporterState'
    BY <1>0, <1>a, <2>1, <2>2, <2>3 DEF ReporterState, CommandKinds, LuaMoves, BothMove, MainState, Loaded
  <2>9. Told'
    BY <1>0, <1>a, <2>1, <2>2, <2>3 DEF Told, CommandKinds, LuaMoves, BothMove, WorkersBetween, LuaTypes
  <2>10. NoUseAfterClose'
    BY <1>0, <1>a, <2>1, <2>2, <2>3 DEF NoUseAfterClose
  <2>11. OptionsAreThere'
    BY <1>0, <1>a, <2>1, <2>2, <2>3 DEF OptionsAreThere
  <2>12. QED
    BY <2>4, <2>5, <2>6, <2>7, <2>8, <2>9, <2>10, <2>11 DEF LuaInv
<1>5. CASE sb_thread_create_workers
  <2>1. UNCHANGED <<cmd, lua, tls, exported, gstate, states, slot, luaCalls, luaReports, luaCreated, luaSilent, luaError, misuse>>
    BY <1>5 DEF sb_thread_create_workers, interp, luaArray, run
  <2>2. luaPc[LuaMain] = "create" /\ (cmd # "parallel" => cmd = "run")
    BY <1>0, <1>a, <1>5, <2>1 DEF sb_thread_create_workers, MainState
  <2>3. \/ /\ luaRc' = luaRc
           /\ \E w \in LuaWorker : luaPc[w] = "none" /\ LuaMoves(w, IF cmd = "parallel" THEN "command" ELSE "init")
        \/ /\ luaRc' = "failure" /\ LuaMoves(LuaMain, "end") /\ \E w \in LuaWorker : luaPc[w] = "none"
        \/ luaRc' = luaRc /\ LuaMoves(LuaMain, IF cmd = "parallel" THEN "join" ELSE "barrier")
    BY <1>0, <1>a, <1>5, <2>1, <2>2, LuaGoes DEF sb_thread_create_workers, LuaPlaces, MainPlaces, WorkerPlaces, ReporterPlaces, CommandKinds
  <2>4. LuaTypes'
    BY <1>0, <1>a, <2>1, <2>2, <2>3 DEF LuaTypes, LuaPlaces, MainPlaces, WorkerPlaces, ReporterPlaces, CommandKinds, LuaMoves, BothMove
  <2>5. MainState'
    BY <1>0, <1>a, <2>1, <2>2, <2>3 DEF MainState, Loaded, CommandKinds, LuaMoves, BothMove
  <2>6. \A u \in LuaWorker : WorkerState(u)'
    BY <1>0, <1>a, <2>1, <2>2, <2>3 DEF WorkerState, LuaMoves, BothMove
  <2>7. WorkersBetween'
    BY <1>0, <1>a, <2>1, <2>2, <2>3 DEF WorkersBetween, CommandKinds, CreateFailed, LuaMoves, BothMove
  <2>8. ReporterState'
    BY <1>0, <1>a, <2>1, <2>2, <2>3 DEF ReporterState, CommandKinds, LuaMoves, BothMove, MainState, Loaded
  <2>9. Told'
    BY <1>0, <1>a, <2>1, <2>2, <2>3 DEF Told, CommandKinds, LuaMoves, BothMove, WorkersBetween, LuaTypes
  <2>10. NoUseAfterClose'
    BY <1>0, <1>a, <2>1, <2>2, <2>3 DEF NoUseAfterClose
  <2>11. OptionsAreThere'
    BY <1>0, <1>a, <2>1, <2>2, <2>3 DEF OptionsAreThere
  <2>12. QED
    BY <2>4, <2>5, <2>6, <2>7, <2>8, <2>9, <2>10, <2>11 DEF LuaInv
<1>6. CASE Barrier
  <2>1. UNCHANGED <<cmd, lua, tls, exported, gstate, states, slot, luaCalls, luaReports, luaCreated, luaSilent, luaError, misuse>>
    BY <1>6 DEF Barrier, interp, luaArray, run
  <2>2. luaPc[LuaMain] = "barrier" /\ cmd = "run" /\ exported[LuaMain]
    BY <1>0, <1>a, <1>6, <2>1 DEF Barrier, MainState
  <2>3. \A w \in LuaWorker : luaPc[w] \in {"barrier", "failed"}
    BY <1>0, <1>a, <1>6, <2>1, <2>2 DEF Barrier
  <2>4. luaRc' = luaRc \/ luaRc' = "failure"
    BY <1>0, <1>a, <1>6, <2>1, <2>2, <2>3 DEF Barrier
  <2>5. /\ luaPc' \in [LuaThread -> LuaPlaces]
        /\ luaPc'[LuaMain] = IF luaError THEN "end" ELSE "report"
        /\ luaPc'[Reporter] = luaPc[Reporter]
        /\ \A w \in LuaWorker : luaPc'[w] = IF luaError \/ luaPc[w] = "failed" THEN "gone" ELSE "loop"
    BY <1>0, <1>a, <1>6, <2>1, <2>2, <2>3, <2>4 DEF Barrier, LuaTypes, LuaPlaces, MainPlaces, WorkerPlaces, ReporterPlaces, CommandKinds
  <2>6. LuaTypes'
    BY <1>0, <1>a, <2>1, <2>2, <2>3, <2>4, <2>5 DEF LuaTypes, LuaPlaces, MainPlaces, WorkerPlaces, ReporterPlaces, CommandKinds, LuaMoves, BothMove
  <2>7. MainState'
    BY <1>0, <1>a, <2>1, <2>2, <2>3, <2>4, <2>5 DEF MainState, Loaded, CommandKinds, LuaMoves, BothMove
  <2>8. \A u \in LuaWorker : WorkerState(u)'
    BY <1>0, <1>a, <2>1, <2>2, <2>3, <2>4, <2>5 DEF WorkerState, LuaMoves, BothMove
  <2>9. WorkersBetween'
    BY <1>0, <1>a, <2>1, <2>2, <2>3, <2>4, <2>5 DEF WorkersBetween, CommandKinds, CreateFailed, LuaMoves, BothMove
  <2>10. ReporterState'
    BY <1>0, <1>a, <2>1, <2>2, <2>3, <2>4, <2>5 DEF ReporterState, CommandKinds, LuaMoves, BothMove, MainState, Loaded
  <2>11. Told'
    BY <1>0, <1>a, <2>1, <2>2, <2>3, <2>4, <2>5 DEF Told, CommandKinds, LuaMoves, BothMove, WorkersBetween, LuaTypes
  <2>12. NoUseAfterClose'
    BY <1>0, <1>a, <2>1, <2>2, <2>3, <2>4, <2>5 DEF NoUseAfterClose
  <2>13. OptionsAreThere'
    BY <1>0, <1>a, <2>1, <2>2, <2>3, <2>4, <2>5 DEF OptionsAreThere
  <2>14. QED
    BY <2>6, <2>7, <2>8, <2>9, <2>10, <2>11, <2>12, <2>13 DEF LuaInv
<1>7. CASE ReportBarrier
  <2>1. UNCHANGED <<cmd, lua, tls, exported, gstate, states, slot, luaCalls, luaReports, luaCreated, luaSilent, luaError, luaRc, misuse>>
    BY <1>7 DEF ReportBarrier, interp, luaArray, run
  <2>2. luaPc[LuaMain] = "report" /\ luaPc[Reporter] = "ready"
    BY <1>0, <1>a, <1>7, <2>1 DEF ReportBarrier
  <2>3. BothMove("join", "flag")
    BY <1>0, <1>a, <1>7, <2>1, <2>2 DEF ReportBarrier, BothMove, LuaTypes, LuaPlaces, MainPlaces, WorkerPlaces, ReporterPlaces, CommandKinds
  <2>4. LuaTypes'
    BY <1>0, <1>a, <2>1, <2>2, <2>3 DEF LuaTypes, LuaPlaces, MainPlaces, WorkerPlaces, ReporterPlaces, CommandKinds, LuaMoves, BothMove
  <2>5. MainState'
    BY <1>0, <1>a, <2>1, <2>2, <2>3 DEF MainState, Loaded, CommandKinds, LuaMoves, BothMove
  <2>6. \A u \in LuaWorker : WorkerState(u)'
    BY <1>0, <1>a, <2>1, <2>2, <2>3 DEF WorkerState, LuaMoves, BothMove
  <2>7. WorkersBetween'
    BY <1>0, <1>a, <2>1, <2>2, <2>3 DEF WorkersBetween, CommandKinds, CreateFailed, LuaMoves, BothMove
  <2>8. ReporterState'
    BY <1>0, <1>a, <2>1, <2>2, <2>3 DEF ReporterState, CommandKinds, LuaMoves, BothMove, MainState, Loaded
  <2>9. Told'
    BY <1>0, <1>a, <2>1, <2>2, <2>3 DEF Told, CommandKinds, LuaMoves, BothMove, WorkersBetween, LuaTypes
  <2>10. NoUseAfterClose'
    BY <1>0, <1>a, <2>1, <2>2, <2>3 DEF NoUseAfterClose
  <2>11. OptionsAreThere'
    BY <1>0, <1>a, <2>1, <2>2, <2>3 DEF OptionsAreThere
  <2>12. QED
    BY <2>4, <2>5, <2>6, <2>7, <2>8, <2>9, <2>10, <2>11 DEF LuaInv
<1>8. CASE sb_thread_join_workers
  <2>1. UNCHANGED <<cmd, lua, tls, exported, gstate, states, slot, luaCalls, luaReports, luaCreated, luaError, misuse>>
    BY <1>8 DEF sb_thread_join_workers, interp, luaArray, run
  <2>2. luaPc[LuaMain] = "join" /\ (cmd # "parallel" => cmd = "run" /\ exported[LuaMain]) /\ \A w \in LuaWorker : luaPc[w] = "gone"
    BY <1>0, <1>a, <1>8, <2>1 DEF sb_thread_join_workers, MainState
  <2>3. \/ cmd = "parallel" /\ luaRc' = "success" /\ luaSilent' = luaSilent /\ LuaMoves(LuaMain, "end")
        \/ cmd = "run" /\ luaRc' = luaRc /\ luaSilent' = TRUE /\ LuaMoves(LuaMain, "cancel")
    BY <1>0, <1>a, <1>8, <2>1, <2>2, LuaGoes DEF sb_thread_join_workers, LuaPlaces, MainPlaces, WorkerPlaces, ReporterPlaces, CommandKinds
  <2>4. LuaTypes'
    BY <1>0, <1>a, <2>1, <2>2, <2>3 DEF LuaTypes, LuaPlaces, MainPlaces, WorkerPlaces, ReporterPlaces, CommandKinds, LuaMoves, BothMove
  <2>5. MainState'
    BY <1>0, <1>a, <2>1, <2>2, <2>3 DEF MainState, Loaded, CommandKinds, LuaMoves, BothMove
  <2>6. \A u \in LuaWorker : WorkerState(u)'
    BY <1>0, <1>a, <2>1, <2>2, <2>3 DEF WorkerState, LuaMoves, BothMove
  <2>7. WorkersBetween'
    BY <1>0, <1>a, <2>1, <2>2, <2>3 DEF WorkersBetween, CommandKinds, CreateFailed, LuaMoves, BothMove
  <2>8. ReporterState'
    BY <1>0, <1>a, <2>1, <2>2, <2>3 DEF ReporterState, CommandKinds, LuaMoves, BothMove, MainState, Loaded
  <2>9. Told'
    BY <1>0, <1>a, <2>1, <2>2, <2>3 DEF Told, CommandKinds, LuaMoves, BothMove, WorkersBetween, LuaTypes
  <2>10. NoUseAfterClose'
    BY <1>0, <1>a, <2>1, <2>2, <2>3 DEF NoUseAfterClose
  <2>11. OptionsAreThere'
    BY <1>0, <1>a, <2>1, <2>2, <2>3 DEF OptionsAreThere
  <2>12. QED
    BY <2>4, <2>5, <2>6, <2>7, <2>8, <2>9, <2>10, <2>11 DEF LuaInv
<1>9. CASE LuaCancel
  <2>1. UNCHANGED <<cmd, lua, tls, exported, gstate, states, slot, luaCalls, luaReports, luaCreated, luaSilent, luaError, luaRc, misuse>>
    BY <1>9 DEF LuaCancel, interp, luaArray, run
  <2>2. luaPc[LuaMain] = "cancel"
    BY <1>0, <1>a, <1>9, <2>1 DEF LuaCancel
  <2>3. BothMove(IF luaCreated THEN "reap" ELSE "cumulative", IF luaCreated THEN "cancelled" ELSE luaPc[Reporter])
    BY <1>0, <1>a, <1>9, <2>1, <2>2 DEF LuaCancel, BothMove, LuaTypes, LuaPlaces, MainPlaces, WorkerPlaces, ReporterPlaces, CommandKinds
  <2>4. LuaTypes'
    BY <1>0, <1>a, <2>1, <2>2, <2>3 DEF LuaTypes, LuaPlaces, MainPlaces, WorkerPlaces, ReporterPlaces, CommandKinds, LuaMoves, BothMove
  <2>5. MainState'
    BY <1>0, <1>a, <2>1, <2>2, <2>3 DEF MainState, Loaded, CommandKinds, LuaMoves, BothMove
  <2>6. \A u \in LuaWorker : WorkerState(u)'
    BY <1>0, <1>a, <2>1, <2>2, <2>3 DEF WorkerState, LuaMoves, BothMove
  <2>7. WorkersBetween'
    BY <1>0, <1>a, <2>1, <2>2, <2>3 DEF WorkersBetween, CommandKinds, CreateFailed, LuaMoves, BothMove
  <2>8. ReporterState'
    BY <1>0, <1>a, <2>1, <2>2, <2>3 DEF ReporterState, CommandKinds, LuaMoves, BothMove, MainState, Loaded
  <2>9. Told'
    BY <1>0, <1>a, <2>1, <2>2, <2>3 DEF Told, CommandKinds, LuaMoves, BothMove, WorkersBetween, LuaTypes
  <2>10. NoUseAfterClose'
    BY <1>0, <1>a, <2>1, <2>2, <2>3 DEF NoUseAfterClose
  <2>11. OptionsAreThere'
    BY <1>0, <1>a, <2>1, <2>2, <2>3 DEF OptionsAreThere
  <2>12. QED
    BY <2>4, <2>5, <2>6, <2>7, <2>8, <2>9, <2>10, <2>11 DEF LuaInv
<1>10. CASE Reap
  <2>1. UNCHANGED <<cmd, lua, tls, exported, gstate, states, slot, luaCalls, luaReports, luaCreated, luaSilent, luaError, luaRc, misuse>>
    BY <1>10 DEF Reap, interp, luaArray, run
  <2>2. luaPc[LuaMain] = "reap" /\ luaPc[Reporter] = "gone"
    BY <1>0, <1>a, <1>10, <2>1 DEF Reap
  <2>3. LuaMoves(LuaMain, "cumulative")
    BY <1>0, <1>a, <1>10, <2>1, <2>2, LuaGoes DEF Reap, LuaPlaces, MainPlaces, WorkerPlaces, ReporterPlaces, CommandKinds
  <2>4. LuaTypes'
    BY <1>0, <1>a, <2>1, <2>2, <2>3 DEF LuaTypes, LuaPlaces, MainPlaces, WorkerPlaces, ReporterPlaces, CommandKinds, LuaMoves, BothMove
  <2>5. MainState'
    BY <1>0, <1>a, <2>1, <2>2, <2>3 DEF MainState, Loaded, CommandKinds, LuaMoves, BothMove
  <2>6. \A u \in LuaWorker : WorkerState(u)'
    BY <1>0, <1>a, <2>1, <2>2, <2>3 DEF WorkerState, LuaMoves, BothMove
  <2>7. WorkersBetween'
    BY <1>0, <1>a, <2>1, <2>2, <2>3 DEF WorkersBetween, CommandKinds, CreateFailed, LuaMoves, BothMove
  <2>8. ReporterState'
    BY <1>0, <1>a, <2>1, <2>2, <2>3 DEF ReporterState, CommandKinds, LuaMoves, BothMove, MainState, Loaded
  <2>9. Told'
    BY <1>0, <1>a, <2>1, <2>2, <2>3 DEF Told, CommandKinds, LuaMoves, BothMove, WorkersBetween, LuaTypes
  <2>10. NoUseAfterClose'
    BY <1>0, <1>a, <2>1, <2>2, <2>3 DEF NoUseAfterClose
  <2>11. OptionsAreThere'
    BY <1>0, <1>a, <2>1, <2>2, <2>3 DEF OptionsAreThere
  <2>12. QED
    BY <2>4, <2>5, <2>6, <2>7, <2>8, <2>9, <2>10, <2>11 DEF LuaInv
<1>11. CASE sb_lua_report_cumulative
  <2>1. UNCHANGED <<cmd, lua, tls, gstate, states, slot, luaCalls, luaReports, luaCreated, luaSilent, luaError>>
    BY <1>11 DEF sb_lua_report_cumulative, interp, luaArray, run
  <2>2. luaPc[LuaMain] = "cumulative" /\ lua[LuaMain] = "open" /\ exported[LuaMain]
    BY <1>0, <1>a, <1>11, <2>1 DEF sb_lua_report_cumulative, MainState, Loaded
  <2>3. luaRc' = (IF luaError THEN "failure" ELSE "success")
    BY <1>0, <1>a, <1>11, <2>1, <2>2 DEF sb_lua_report_cumulative
  <2>4. LuaMoves(LuaMain, "done")
    BY <1>0, <1>a, <1>11, <2>1, <2>2, <2>3, LuaGoes DEF sb_lua_report_cumulative, LuaPlaces, MainPlaces, WorkerPlaces, ReporterPlaces, CommandKinds
  <2>5. KnowsOptions(LuaMain)
    BY <1>0, <1>a, <1>11, <2>1, <2>2, <2>3, <2>4, OptionsExported DEF sb_lua_report_cumulative, ExportsForMain, KnowsOptions, LuaTypes
  <2>6. MisuseOnly({})
    <3>1. CallMisuse(LuaMain, exported'[LuaMain]) = {} /\ CloseMisuse(LuaMain) = {}
      BY <1>0, <1>a, <1>11, <2>1, <2>2, <2>3, <2>4, <2>5, CallIsGood DEF KnowsOptions
    <3>2. QED
      BY <1>11, <3>1 DEF sb_lua_report_cumulative, MisuseOnly
  <2>7. LuaTypes'
    BY <1>0, <1>a, <2>1, <2>2, <2>3, <2>4, <2>5, <2>6 DEF LuaTypes, LuaPlaces, MainPlaces, WorkerPlaces, ReporterPlaces, CommandKinds, LuaMoves, BothMove, KnowsOptions
  <2>8. MainState'
    BY <1>0, <1>a, <2>1, <2>2, <2>3, <2>4, <2>5, <2>6 DEF MainState, Loaded, CommandKinds, LuaMoves, BothMove, KnowsOptions
  <2>9. \A u \in LuaWorker : WorkerState(u)'
    BY <1>0, <1>a, <2>1, <2>2, <2>3, <2>4, <2>5, <2>6 DEF WorkerState, LuaMoves, BothMove, KnowsOptions
  <2>10. WorkersBetween'
    BY <1>0, <1>a, <2>1, <2>2, <2>3, <2>4, <2>5, <2>6 DEF WorkersBetween, CommandKinds, CreateFailed, LuaMoves, BothMove, MisuseOnly
  <2>11. ReporterState'
    BY <1>0, <1>a, <2>1, <2>2, <2>3, <2>4, <2>5, <2>6 DEF ReporterState, CommandKinds, LuaMoves, BothMove, KnowsOptions, MainState, Loaded
  <2>12. Told'
    BY <1>0, <1>a, <2>1, <2>2, <2>3, <2>4, <2>5, <2>6 DEF Told, CommandKinds, LuaMoves, BothMove, WorkersBetween, LuaTypes
  <2>13. NoUseAfterClose'
    BY <1>0, <1>a, <2>1, <2>2, <2>3, <2>4, <2>5, <2>6 DEF NoUseAfterClose, MisuseOnly
  <2>14. OptionsAreThere'
    BY <1>0, <1>a, <2>1, <2>2, <2>3, <2>4, <2>5, <2>6 DEF OptionsAreThere, MisuseOnly
  <2>15. QED
    BY <2>7, <2>8, <2>9, <2>10, <2>11, <2>12, <2>13, <2>14 DEF LuaInv
<1>12. CASE sb_lua_op_done
  <2>1. UNCHANGED <<cmd, exported, slot, luaCalls, luaReports, luaCreated, luaSilent, luaError, luaRc>>
    BY <1>12 DEF sb_lua_op_done, interp, luaArray, run, sb_lua_done
  <2>2. luaPc[LuaMain] = "done" /\ lua[LuaMain] = "open" /\ exported[LuaMain] /\ gstate = TRUE /\ cmd = "run" /\ states = "live"
    BY <1>0, <1>a, <1>12, <2>1 DEF sb_lua_op_done, MainState, Loaded, LuaTypes
  <2>3. LuaMoves(LuaMain, "end")
    BY <1>0, <1>a, <1>12, <2>1, <2>2, LuaGoes DEF sb_lua_op_done, LuaPlaces, MainPlaces, WorkerPlaces, ReporterPlaces, CommandKinds
  <2>4. \/ /\ InterpreterIs(LuaMain, "closed") /\ gstate' = FALSE /\ states' = "freed"
        \/ UNCHANGED <<lua, tls, gstate, states>>
    BY <1>0, <1>a, <1>12, <2>1, <2>2, <2>3, ClosedInterpreter DEF sb_lua_op_done, sb_lua_done, GstateAfterDone, interp, luaArray
  <2>5. MisuseOnly({})
    <3>1. CallMisuse(LuaMain, exported[LuaMain]) = {} /\ CloseMisuse(LuaMain) = {}
      BY <1>0, <1>a, <1>12, <2>1, <2>2, <2>3, <2>4, CallIsGood DEF KnowsOptions
    <3>2. QED
      BY <1>12, <3>1 DEF sb_lua_op_done, MisuseOnly
  <2>6. LuaTypes'
    BY <1>0, <1>a, <2>1, <2>2, <2>3, <2>4, <2>5 DEF LuaTypes, LuaPlaces, MainPlaces, WorkerPlaces, ReporterPlaces, CommandKinds, LuaMoves, BothMove, InterpreterIs
  <2>7. MainState'
    BY <1>0, <1>a, <2>1, <2>2, <2>3, <2>4, <2>5 DEF MainState, Loaded, CommandKinds, LuaMoves, BothMove, InterpreterIs
  <2>8. \A u \in LuaWorker : WorkerState(u)'
    BY <1>0, <1>a, <2>1, <2>2, <2>3, <2>4, <2>5 DEF WorkerState, LuaMoves, BothMove, InterpreterIs
  <2>9. WorkersBetween'
    BY <1>0, <1>a, <2>1, <2>2, <2>3, <2>4, <2>5 DEF WorkersBetween, CommandKinds, CreateFailed, LuaMoves, BothMove, MisuseOnly
  <2>10. ReporterState'
    BY <1>0, <1>a, <2>1, <2>2, <2>3, <2>4, <2>5 DEF ReporterState, CommandKinds, LuaMoves, BothMove, InterpreterIs, MainState, Loaded
  <2>11. Told'
    BY <1>0, <1>a, <2>1, <2>2, <2>3, <2>4, <2>5 DEF Told, CommandKinds, LuaMoves, BothMove, WorkersBetween, LuaTypes
  <2>12. NoUseAfterClose'
    BY <1>0, <1>a, <2>1, <2>2, <2>3, <2>4, <2>5 DEF NoUseAfterClose, MisuseOnly
  <2>13. OptionsAreThere'
    BY <1>0, <1>a, <2>1, <2>2, <2>3, <2>4, <2>5 DEF OptionsAreThere, MisuseOnly
  <2>14. QED
    BY <2>6, <2>7, <2>8, <2>9, <2>10, <2>11, <2>12, <2>13 DEF LuaInv
<1>13. CASE LuaEnd
  <2>1. UNCHANGED <<cmd, exported, slot, luaCalls, luaReports, luaCreated, luaSilent, luaError, luaRc>>
    BY <1>13 DEF LuaEnd, interp, luaArray, run, sb_lua_done
  <2>2. luaPc[LuaMain] = "end" /\ (gstate => lua[LuaMain] = "open")
    BY <1>0, <1>a, <1>13, <2>1 DEF LuaEnd, MainState
  <2>3. LuaMoves(LuaMain, "exit")
    BY <1>0, <1>a, <1>13, <2>1, <2>2, LuaGoes DEF LuaEnd, LuaPlaces, MainPlaces, WorkerPlaces, ReporterPlaces, CommandKinds
  <2>4. \/ /\ InterpreterIs(LuaMain, "closed") /\ gstate' = FALSE /\ states' = "freed"
        \/ UNCHANGED <<lua, tls, gstate, states>>
    BY <1>0, <1>a, <1>13, <2>1, <2>2, <2>3, ClosedInterpreter DEF LuaEnd, sb_lua_done, GstateAfterDone, interp, luaArray
  <2>5. gstate' \in BOOLEAN
    <3>1. gstate \in BOOLEAN
      BY <1>0 DEF LuaTypes
    <3>2. QED
      BY <2>4, <3>1, Zenon
  <2>6. MisuseOnly({})
    BY <1>0, <1>a, <1>13, <2>1, <2>2, <2>3, <2>4, <2>5 DEF LuaEnd, MisuseOnly, CloseMisuse
  <2>7. LuaTypes'
    BY <1>0, <1>a, <2>1, <2>2, <2>3, <2>4, <2>5, <2>6 DEF LuaTypes, LuaPlaces, MainPlaces, WorkerPlaces, ReporterPlaces, CommandKinds, LuaMoves, BothMove, InterpreterIs
  <2>8. MainState'
    BY <1>0, <1>a, <2>1, <2>2, <2>3, <2>4, <2>5, <2>6 DEF MainState, Loaded, CommandKinds, LuaMoves, BothMove, InterpreterIs
  <2>9. \A u \in LuaWorker : WorkerState(u)'
    BY <1>0, <1>a, <2>1, <2>2, <2>3, <2>4, <2>5, <2>6 DEF WorkerState, LuaMoves, BothMove, InterpreterIs
  <2>10. WorkersBetween'
    BY <1>0, <1>a, <2>1, <2>2, <2>3, <2>4, <2>5, <2>6 DEF WorkersBetween, CommandKinds, CreateFailed, LuaMoves, BothMove, MisuseOnly
  <2>11. ReporterState'
    BY <1>0, <1>a, <2>1, <2>2, <2>3, <2>4, <2>5, <2>6 DEF ReporterState, CommandKinds, LuaMoves, BothMove, InterpreterIs, MainState, Loaded
  <2>12. Told'
    BY <1>0, <1>a, <2>1, <2>2, <2>3, <2>4, <2>5, <2>6 DEF Told, CommandKinds, LuaMoves, BothMove, WorkersBetween, LuaTypes
  <2>13. NoUseAfterClose'
    BY <1>0, <1>a, <2>1, <2>2, <2>3, <2>4, <2>5, <2>6 DEF NoUseAfterClose, MisuseOnly
  <2>14. OptionsAreThere'
    BY <1>0, <1>a, <2>1, <2>2, <2>3, <2>4, <2>5, <2>6 DEF OptionsAreThere, MisuseOnly
  <2>15. QED
    BY <2>7, <2>8, <2>9, <2>10, <2>11, <2>12, <2>13, <2>14 DEF LuaInv
<1>14. ASSUME NEW w \in LuaWorker, ThreadInit(w) PROVE LuaInv'
  <2>1. UNCHANGED <<cmd, exported, gstate, states, slot, luaCalls, luaReports, luaCreated, luaSilent, luaRc, misuse>>
    BY <1>14 DEF ThreadInit, interp, luaArray, run
  <2>2. LuaAlive /\ luaPc[w] = "init" /\ lua[w] = "none" /\ cmd = "run"
    BY <1>0, <1>a, <1>14, <2>1 DEF ThreadInit, WorkerState
  <2>3. \/ InterpreterIs(w, "open") /\ LuaMoves(w, "store") /\ luaError' = luaError
        \/ InterpreterIs(w, "lost") /\ LuaMoves(w, "failed") /\ luaError' = TRUE
    <3>1. PICK ok \in BOOLEAN :
             /\ sb_lua_new_state(w, ok)
             /\ LuaGoto(w, IF ok THEN "store" ELSE "failed")
             /\ luaError' = (luaError \/ ~ok)
      BY <1>14 DEF ThreadInit
    <3>2. InterpreterIs(w, IF ok THEN "open" ELSE "lost")
      BY <1>0, <1>a, <2>2, <3>1, NewInterpreter
    <3>3. LuaMoves(w, IF ok THEN "store" ELSE "failed")
      BY <1>0, <1>a, <3>1, LuaGoes DEF LuaPlaces, MainPlaces, WorkerPlaces, ReporterPlaces, CommandKinds
    <3>4. QED
      BY <1>0, <3>1, <3>2, <3>3 DEF LuaTypes
  <2>4. LuaTypes'
    BY <1>0, <1>a, <1>14, <2>1, <2>2, <2>3 DEF LuaTypes, LuaPlaces, MainPlaces, WorkerPlaces, ReporterPlaces, CommandKinds, LuaMoves, BothMove, InterpreterIs
  <2>5. MainState'
    BY <1>0, <1>a, <1>14, <2>1, <2>2, <2>3 DEF MainState, Loaded, CommandKinds, LuaMoves, BothMove, InterpreterIs
  <2>6. \A u \in LuaWorker : WorkerState(u)'
    BY <1>0, <1>a, <1>14, <2>1, <2>2, <2>3 DEF WorkerState, LuaMoves, BothMove, InterpreterIs
  <2>7. WorkersBetween'
    BY <1>0, <1>a, <1>14, <2>1, <2>2, <2>3 DEF WorkersBetween, CommandKinds, CreateFailed, LuaMoves, BothMove, UseStates, MainState, Loaded, LuaAlive, LuaTypes, MainPlaces
  <2>8. ReporterState'
    BY <1>0, <1>a, <1>14, <2>1, <2>2, <2>3 DEF ReporterState, CommandKinds, LuaMoves, BothMove, InterpreterIs
  <2>9. Told'
    BY <1>0, <1>a, <1>14, <2>1, <2>2, <2>3 DEF Told, CommandKinds, LuaMoves, BothMove, LuaTypes
  <2>10. NoUseAfterClose'
    BY <1>0, <1>a, <1>14, <2>1, <2>2, <2>3 DEF NoUseAfterClose, UseStates
  <2>11. OptionsAreThere'
    BY <1>0, <1>a, <1>14, <2>1, <2>2, <2>3 DEF OptionsAreThere, UseStates
  <2>12. QED
    BY <2>4, <2>5, <2>6, <2>7, <2>8, <2>9, <2>10, <2>11 DEF LuaInv
<1>15. ASSUME NEW w \in LuaWorker, sb_lua_op_thread_init(w) PROVE LuaInv'
  <2>1. UNCHANGED <<cmd, lua, tls, gstate, states, luaCalls, luaReports, luaCreated, luaSilent, luaRc>>
    BY <1>15 DEF sb_lua_op_thread_init, interp, luaArray, run
  <2>2. LuaAlive /\ luaPc[w] = "store" /\ lua[w] = "open" /\ cmd = "run"
    BY <1>0, <1>a, <1>15, <2>1 DEF sb_lua_op_thread_init, WorkerState
  <2>3. slot' = slot \cup {w}
    BY <1>0, <1>a, <1>15, <2>1, <2>2 DEF sb_lua_op_thread_init
  <2>4. KnowsOptions(w)
    BY <1>0, <1>a, <1>15, <2>1, <2>2, <2>3, OptionsExported DEF sb_lua_op_thread_init
  <2>5. MisuseOnly(UseStates)
    <3>1. CallMisuse(w, exported'[w]) = {} /\ CloseMisuse(w) = {}
      BY <1>0, <1>a, <1>15, <2>1, <2>2, <2>3, <2>4, CallIsGood DEF KnowsOptions
    <3>2. QED
      BY <1>15, <3>1 DEF sb_lua_op_thread_init, MisuseOnly
  <2>6. luaError' \in BOOLEAN /\ (luaError => luaError')
    <3>1. luaError \in BOOLEAN
      BY <1>0 DEF LuaTypes
    <3>2. \E ok \in BOOLEAN : luaError' = (luaError \/ ~ok)
      BY <1>15 DEF sb_lua_op_thread_init
    <3>3. QED
      BY <3>1, <3>2, Zenon
  <2>7. LuaMoves(w, "barrier") \/ LuaMoves(w, "failed")
    BY <1>0, <1>a, <1>15, <2>1, <2>2, <2>3, <2>4, <2>5, <2>6, LuaGoes DEF sb_lua_op_thread_init, LuaPlaces, MainPlaces, WorkerPlaces, ReporterPlaces, CommandKinds
  <2>8. LuaTypes'
    BY <1>0, <1>a, <1>15, <2>1, <2>2, <2>3, <2>4, <2>5, <2>6, <2>7 DEF LuaTypes, LuaPlaces, MainPlaces, WorkerPlaces, ReporterPlaces, CommandKinds, LuaMoves, BothMove, KnowsOptions
  <2>9. MainState'
    BY <1>0, <1>a, <1>15, <2>1, <2>2, <2>3, <2>4, <2>5, <2>6, <2>7 DEF MainState, Loaded, CommandKinds, LuaMoves, BothMove, KnowsOptions
  <2>10. \A u \in LuaWorker : WorkerState(u)'
    BY <1>0, <1>a, <1>15, <2>1, <2>2, <2>3, <2>4, <2>5, <2>6, <2>7 DEF WorkerState, LuaMoves, BothMove, KnowsOptions
  <2>11. WorkersBetween'
    BY <1>0, <1>a, <1>15, <2>1, <2>2, <2>3, <2>4, <2>5, <2>6, <2>7 DEF WorkersBetween, CommandKinds, CreateFailed, LuaMoves, BothMove, MisuseOnly, UseStates, MainState, Loaded, LuaAlive, LuaTypes, MainPlaces
  <2>12. ReporterState'
    BY <1>0, <1>a, <1>15, <2>1, <2>2, <2>3, <2>4, <2>5, <2>6, <2>7 DEF ReporterState, CommandKinds, LuaMoves, BothMove, KnowsOptions
  <2>13. Told'
    BY <1>0, <1>a, <1>15, <2>1, <2>2, <2>3, <2>4, <2>5, <2>6, <2>7 DEF Told, CommandKinds, LuaMoves, BothMove, LuaTypes
  <2>14. NoUseAfterClose'
    BY <1>0, <1>a, <1>15, <2>1, <2>2, <2>3, <2>4, <2>5, <2>6, <2>7 DEF NoUseAfterClose, MisuseOnly, UseStates
  <2>15. OptionsAreThere'
    BY <1>0, <1>a, <1>15, <2>1, <2>2, <2>3, <2>4, <2>5, <2>6, <2>7 DEF OptionsAreThere, MisuseOnly, UseStates
  <2>16. QED
    BY <2>8, <2>9, <2>10, <2>11, <2>12, <2>13, <2>14, <2>15 DEF LuaInv
<1>16. ASSUME NEW w \in LuaWorker, sb_lua_op_thread_run(w) PROVE LuaInv'
  <2>1. UNCHANGED <<cmd, lua, tls, exported, gstate, states, slot, luaReports, luaCreated, luaSilent, luaRc>>
    BY <1>16 DEF sb_lua_op_thread_run, interp, luaArray, run
  <2>2. LuaAlive /\ luaPc[w] = "loop" /\ lua[w] = "open" /\ exported[w] /\ cmd = "run"
    BY <1>0, <1>a, <1>16, <2>1 DEF sb_lua_op_thread_run, WorkerState
  <2>3. luaCalls' \in [LuaWorker -> Nat]
    <3>1. luaCalls \in [LuaWorker -> Nat] /\ luaCalls[w] + 1 \in Nat
      BY <1>0, <1>16 DEF LuaTypes
    <3>2. luaCalls' = luaCalls \/ luaCalls' = [luaCalls EXCEPT ![w] = luaCalls[w] + 1]
      BY <1>16 DEF sb_lua_op_thread_run
    <3>3. QED
      BY <3>1, <3>2
  <2>4. MisuseOnly(UseStates)
    <3>1. CallMisuse(w, exported[w]) = {} /\ CloseMisuse(w) = {}
      BY <1>0, <1>a, <1>16, <2>1, <2>2, <2>3, CallIsGood DEF KnowsOptions
    <3>2. QED
      BY <1>16, <3>1 DEF sb_lua_op_thread_run, MisuseOnly
  <2>5. luaError' \in BOOLEAN /\ (luaError => luaError')
    <3>1. luaError \in BOOLEAN
      BY <1>0 DEF LuaTypes
    <3>2. luaError' = luaError \/ luaError' = TRUE
      BY <1>16 DEF sb_lua_op_thread_run
    <3>3. QED
      BY <3>1, <3>2, Zenon
  <2>6. luaPc' = luaPc \/ LuaMoves(w, "done") \/ LuaMoves(w, "gone")
    BY <1>0, <1>a, <1>16, <2>1, <2>2, <2>3, <2>4, <2>5, LuaGoes DEF sb_lua_op_thread_run, LuaPlaces, MainPlaces, WorkerPlaces, ReporterPlaces, CommandKinds
  <2>7. LuaTypes'
    BY <1>0, <1>a, <1>16, <2>1, <2>2, <2>3, <2>4, <2>5, <2>6 DEF LuaTypes, LuaPlaces, MainPlaces, WorkerPlaces, ReporterPlaces, CommandKinds, LuaMoves, BothMove
  <2>8. MainState'
    BY <1>0, <1>a, <1>16, <2>1, <2>2, <2>3, <2>4, <2>5, <2>6 DEF MainState, Loaded, CommandKinds, LuaMoves, BothMove
  <2>9. \A u \in LuaWorker : WorkerState(u)'
    BY <1>0, <1>a, <1>16, <2>1, <2>2, <2>3, <2>4, <2>5, <2>6 DEF WorkerState, LuaMoves, BothMove
  <2>10. WorkersBetween'
    BY <1>0, <1>a, <1>16, <2>1, <2>2, <2>3, <2>4, <2>5, <2>6 DEF WorkersBetween, CommandKinds, CreateFailed, LuaMoves, BothMove, MisuseOnly, UseStates, MainState, Loaded, LuaAlive, LuaTypes, MainPlaces
  <2>11. ReporterState'
    BY <1>0, <1>a, <1>16, <2>1, <2>2, <2>3, <2>4, <2>5, <2>6 DEF ReporterState, CommandKinds, LuaMoves, BothMove
  <2>12. Told'
    BY <1>0, <1>a, <1>16, <2>1, <2>2, <2>3, <2>4, <2>5, <2>6 DEF Told, CommandKinds, LuaMoves, BothMove, LuaTypes
  <2>13. NoUseAfterClose'
    BY <1>0, <1>a, <1>16, <2>1, <2>2, <2>3, <2>4, <2>5, <2>6 DEF NoUseAfterClose, MisuseOnly, UseStates
  <2>14. OptionsAreThere'
    BY <1>0, <1>a, <1>16, <2>1, <2>2, <2>3, <2>4, <2>5, <2>6 DEF OptionsAreThere, MisuseOnly, UseStates
  <2>15. QED
    BY <2>7, <2>8, <2>9, <2>10, <2>11, <2>12, <2>13, <2>14 DEF LuaInv
<1>17. ASSUME NEW w \in LuaWorker, sb_lua_op_thread_done(w) PROVE LuaInv'
  <2>1. UNCHANGED <<cmd, exported, gstate, states, slot, luaCalls, luaReports, luaCreated, luaSilent, luaError, luaRc>>
    BY <1>17 DEF sb_lua_op_thread_done, interp, luaArray, run
  <2>2. LuaAlive /\ luaPc[w] = "done" /\ lua[w] = "open" /\ exported[w] /\ cmd = "run"
    BY <1>0, <1>a, <1>17, <2>1 DEF sb_lua_op_thread_done, WorkerState
  <2>3. InterpreterIs(w, "closed")
    BY <1>0, <1>a, <1>17, <2>1, <2>2, ClosedInterpreter DEF sb_lua_op_thread_done
  <2>4. MisuseOnly(UseStates)
    <3>1. CallMisuse(w, exported[w]) = {} /\ CloseMisuse(w) = {}
      BY <1>0, <1>a, <1>17, <2>1, <2>2, <2>3, CallIsGood DEF KnowsOptions
    <3>2. QED
      BY <1>17, <3>1 DEF sb_lua_op_thread_done, MisuseOnly
  <2>5. LuaMoves(w, "gone")
    BY <1>0, <1>a, <1>17, <2>1, <2>2, <2>3, <2>4, LuaGoes DEF sb_lua_op_thread_done, LuaPlaces, MainPlaces, WorkerPlaces, ReporterPlaces, CommandKinds
  <2>6. LuaTypes'
    BY <1>0, <1>a, <1>17, <2>1, <2>2, <2>3, <2>4, <2>5 DEF LuaTypes, LuaPlaces, MainPlaces, WorkerPlaces, ReporterPlaces, CommandKinds, LuaMoves, BothMove, InterpreterIs
  <2>7. MainState'
    BY <1>0, <1>a, <1>17, <2>1, <2>2, <2>3, <2>4, <2>5 DEF MainState, Loaded, CommandKinds, LuaMoves, BothMove, InterpreterIs
  <2>8. \A u \in LuaWorker : WorkerState(u)'
    BY <1>0, <1>a, <1>17, <2>1, <2>2, <2>3, <2>4, <2>5 DEF WorkerState, LuaMoves, BothMove, InterpreterIs
  <2>9. WorkersBetween'
    BY <1>0, <1>a, <1>17, <2>1, <2>2, <2>3, <2>4, <2>5 DEF WorkersBetween, CommandKinds, CreateFailed, LuaMoves, BothMove, MisuseOnly, UseStates, MainState, Loaded, LuaAlive, LuaTypes, MainPlaces
  <2>10. ReporterState'
    BY <1>0, <1>a, <1>17, <2>1, <2>2, <2>3, <2>4, <2>5 DEF ReporterState, CommandKinds, LuaMoves, BothMove, InterpreterIs
  <2>11. Told'
    BY <1>0, <1>a, <1>17, <2>1, <2>2, <2>3, <2>4, <2>5 DEF Told, CommandKinds, LuaMoves, BothMove, LuaTypes
  <2>12. NoUseAfterClose'
    BY <1>0, <1>a, <1>17, <2>1, <2>2, <2>3, <2>4, <2>5 DEF NoUseAfterClose, MisuseOnly, UseStates
  <2>13. OptionsAreThere'
    BY <1>0, <1>a, <1>17, <2>1, <2>2, <2>3, <2>4, <2>5 DEF OptionsAreThere, MisuseOnly, UseStates
  <2>14. QED
    BY <2>6, <2>7, <2>8, <2>9, <2>10, <2>11, <2>12, <2>13 DEF LuaInv
<1>18. ASSUME NEW w \in LuaWorker, CommandState(w) PROVE LuaInv'
  <2>1. UNCHANGED <<cmd, exported, gstate, states, slot, luaCalls, luaReports, luaCreated, luaSilent, luaError, luaRc, misuse>>
    BY <1>18 DEF CommandState, interp, luaArray, run
  <2>2. LuaAlive /\ luaPc[w] = "command" /\ lua[w] = "none"
    BY <1>0, <1>a, <1>18, <2>1 DEF CommandState, WorkerState
  <2>3. \/ InterpreterIs(w, "open") /\ LuaMoves(w, "call")
        \/ InterpreterIs(w, "lost") /\ LuaMoves(w, "gone")
    <3>1. PICK ok \in BOOLEAN :
             /\ sb_lua_new_state(w, ok)
             /\ LuaGoto(w, IF ok THEN "call" ELSE "gone")
      BY <1>18 DEF CommandState
    <3>2. InterpreterIs(w, IF ok THEN "open" ELSE "lost")
      BY <1>0, <1>a, <2>2, <3>1, NewInterpreter
    <3>3. LuaMoves(w, IF ok THEN "call" ELSE "gone")
      BY <1>0, <1>a, <3>1, LuaGoes DEF LuaPlaces, MainPlaces, WorkerPlaces, ReporterPlaces, CommandKinds
    <3>4. QED
      BY <1>0, <3>1, <3>2, <3>3 DEF LuaTypes
  <2>4. LuaTypes'
    BY <1>0, <1>a, <1>18, <2>1, <2>2, <2>3 DEF LuaTypes, LuaPlaces, MainPlaces, WorkerPlaces, ReporterPlaces, CommandKinds, LuaMoves, BothMove, InterpreterIs
  <2>5. MainState'
    BY <1>0, <1>a, <1>18, <2>1, <2>2, <2>3 DEF MainState, Loaded, CommandKinds, LuaMoves, BothMove, InterpreterIs
  <2>6. \A u \in LuaWorker : WorkerState(u)'
    BY <1>0, <1>a, <1>18, <2>1, <2>2, <2>3 DEF WorkerState, LuaMoves, BothMove, InterpreterIs
  <2>7. WorkersBetween'
    BY <1>0, <1>a, <1>18, <2>1, <2>2, <2>3 DEF WorkersBetween, CommandKinds, CreateFailed, LuaMoves, BothMove, UseStates, MainState, Loaded, LuaAlive, LuaTypes, MainPlaces
  <2>8. ReporterState'
    BY <1>0, <1>a, <1>18, <2>1, <2>2, <2>3 DEF ReporterState, CommandKinds, LuaMoves, BothMove, InterpreterIs
  <2>9. Told'
    BY <1>0, <1>a, <1>18, <2>1, <2>2, <2>3 DEF Told, CommandKinds, LuaMoves, BothMove, LuaTypes
  <2>10. NoUseAfterClose'
    BY <1>0, <1>a, <1>18, <2>1, <2>2, <2>3 DEF NoUseAfterClose, UseStates
  <2>11. OptionsAreThere'
    BY <1>0, <1>a, <1>18, <2>1, <2>2, <2>3 DEF OptionsAreThere, UseStates
  <2>12. QED
    BY <2>4, <2>5, <2>6, <2>7, <2>8, <2>9, <2>10, <2>11 DEF LuaInv
<1>19. ASSUME NEW w \in LuaWorker, cmd_worker_thread(w) PROVE LuaInv'
  <2>1. UNCHANGED <<cmd, gstate, states, slot, luaCalls, luaReports, luaCreated, luaSilent, luaError, luaRc>>
    BY <1>19 DEF cmd_worker_thread, interp, luaArray, run
  <2>2. LuaAlive /\ luaPc[w] = "call" /\ lua[w] = "open"
    BY <1>0, <1>a, <1>19, <2>1 DEF cmd_worker_thread, WorkerState
  <2>3. InterpreterIs(w, "closed")
    BY <1>0, <1>a, <1>19, <2>1, <2>2, ClosedInterpreter DEF cmd_worker_thread
  <2>4. KnowsOptions(w)
    BY <1>0, <1>a, <1>19, <2>1, <2>2, <2>3, OptionsExported DEF cmd_worker_thread
  <2>5. MisuseOnly({})
    <3>1. CallMisuse(w, exported'[w]) = {} /\ CloseMisuse(w) = {}
      BY <1>0, <1>a, <1>19, <2>1, <2>2, <2>3, <2>4, CallIsGood DEF KnowsOptions
    <3>2. QED
      BY <1>19, <3>1 DEF cmd_worker_thread, MisuseOnly
  <2>6. LuaMoves(w, "gone")
    BY <1>0, <1>a, <1>19, <2>1, <2>2, <2>3, <2>4, <2>5, LuaGoes DEF cmd_worker_thread, LuaPlaces, MainPlaces, WorkerPlaces, ReporterPlaces, CommandKinds
  <2>7. LuaTypes'
    BY <1>0, <1>a, <1>19, <2>1, <2>2, <2>3, <2>4, <2>5, <2>6 DEF LuaTypes, LuaPlaces, MainPlaces, WorkerPlaces, ReporterPlaces, CommandKinds, LuaMoves, BothMove, InterpreterIs, KnowsOptions
  <2>8. MainState'
    BY <1>0, <1>a, <1>19, <2>1, <2>2, <2>3, <2>4, <2>5, <2>6 DEF MainState, Loaded, CommandKinds, LuaMoves, BothMove, InterpreterIs, KnowsOptions
  <2>9. \A u \in LuaWorker : WorkerState(u)'
    BY <1>0, <1>a, <1>19, <2>1, <2>2, <2>3, <2>4, <2>5, <2>6 DEF WorkerState, LuaMoves, BothMove, InterpreterIs, KnowsOptions
  <2>10. WorkersBetween'
    BY <1>0, <1>a, <1>19, <2>1, <2>2, <2>3, <2>4, <2>5, <2>6 DEF WorkersBetween, CommandKinds, CreateFailed, LuaMoves, BothMove, MisuseOnly, UseStates, MainState, Loaded, LuaAlive, LuaTypes, MainPlaces
  <2>11. ReporterState'
    BY <1>0, <1>a, <1>19, <2>1, <2>2, <2>3, <2>4, <2>5, <2>6 DEF ReporterState, CommandKinds, LuaMoves, BothMove, InterpreterIs, KnowsOptions
  <2>12. Told'
    BY <1>0, <1>a, <1>19, <2>1, <2>2, <2>3, <2>4, <2>5, <2>6 DEF Told, CommandKinds, LuaMoves, BothMove, LuaTypes
  <2>13. NoUseAfterClose'
    BY <1>0, <1>a, <1>19, <2>1, <2>2, <2>3, <2>4, <2>5, <2>6 DEF NoUseAfterClose, MisuseOnly, UseStates
  <2>14. OptionsAreThere'
    BY <1>0, <1>a, <1>19, <2>1, <2>2, <2>3, <2>4, <2>5, <2>6 DEF OptionsAreThere, MisuseOnly, UseStates
  <2>15. QED
    BY <2>7, <2>8, <2>9, <2>10, <2>11, <2>12, <2>13, <2>14 DEF LuaInv
<1>20. CASE sb_lua_report_thread_init
  <2>1. UNCHANGED <<cmd, gstate, states, slot, luaCalls, luaReports, luaCreated, luaSilent, luaError, luaRc>>
    BY <1>20 DEF sb_lua_report_thread_init, interp, luaArray, run
  <2>2. LuaAlive /\ luaPc[Reporter] = "start" /\ lua[Reporter] = "none" /\ gstate
    BY <1>0, <1>a, <1>20, <2>1 DEF sb_lua_report_thread_init, ReporterState, LuaAlive
  <2>3. \/ InterpreterIs(Reporter, "open") /\ KnowsOptions(Reporter) /\ LuaMoves(Reporter, "ready")
        \/ /\ InterpreterIs(Reporter, "lost") /\ LuaMoves(LuaMain, "exit") /\ exported' \in [LuaThread -> BOOLEAN]
           /\ \A t \in LuaThread \ {Reporter} : exported'[t] = exported[t]
    <3>1. PICK ok \in BOOLEAN :
             /\ sb_lua_new_state(Reporter, ok)
             /\ exported' = [exported EXCEPT ![Reporter] = ok /\ ReportExports]
             /\ luaPc' = IF ok THEN [luaPc EXCEPT ![Reporter] = "ready"] ELSE [luaPc EXCEPT ![LuaMain] = "exit"]
      BY <1>20, <2>2 DEF sb_lua_report_thread_init
    <3>2. InterpreterIs(Reporter, IF ok THEN "open" ELSE "lost")
      BY <1>0, <1>a, <2>2, <3>1, NewInterpreter
    <3>3. IF ok THEN LuaMoves(Reporter, "ready") ELSE LuaMoves(LuaMain, "exit")
      BY <1>0, <1>a, <3>1 DEF LuaTypes, LuaMoves, LuaPlaces, MainPlaces, WorkerPlaces, ReporterPlaces, CommandKinds
    <3>4. exported \in [LuaThread -> BOOLEAN]
      BY <1>0 DEF LuaTypes
    <3>5. /\ exported' \in [LuaThread -> BOOLEAN] /\ (exported'[Reporter] <=> ok)
          /\ \A t \in LuaThread \ {Reporter} : exported'[t] = exported[t]
      BY <1>a, <3>1, <3>4, Zenon DEF ReportExports
    <3>6. ~exported[Reporter] \/ ok => \A t \in LuaThread : exported[t] => exported'[t]
      BY <3>5
    <3>7. ok => KnowsOptions(Reporter)
      BY <3>5 DEF KnowsOptions
    <3>8. QED
      BY <3>2, <3>3, <3>5, <3>7
  <2>4. MisuseOnly({"null"})
    BY <1>0, <1>a, <1>20, <2>1, <2>2, <2>3 DEF sb_lua_report_thread_init, MisuseOnly
  <2>5. LuaTypes'
    BY <1>0, <1>a, <2>1, <2>2, <2>3, <2>4 DEF LuaTypes, LuaPlaces, MainPlaces, WorkerPlaces, ReporterPlaces, CommandKinds, LuaMoves, BothMove, InterpreterIs, KnowsOptions
  <2>6. MainState'
    BY <1>0, <1>a, <2>1, <2>2, <2>3, <2>4 DEF MainState, Loaded, CommandKinds, LuaMoves, BothMove, InterpreterIs, KnowsOptions
  <2>7. \A u \in LuaWorker : WorkerState(u)'
    BY <1>0, <1>a, <2>1, <2>2, <2>3, <2>4 DEF WorkerState, LuaMoves, BothMove, InterpreterIs, KnowsOptions
  <2>8. WorkersBetween'
    BY <1>0, <1>a, <2>1, <2>2, <2>3, <2>4 DEF WorkersBetween, CommandKinds, CreateFailed, LuaMoves, BothMove, MisuseOnly
  <2>9. ReporterState'
    BY <1>0, <1>a, <2>1, <2>2, <2>3, <2>4 DEF ReporterState, CommandKinds, LuaMoves, BothMove, InterpreterIs, KnowsOptions, MainState, Loaded
  <2>10. Told'
    BY <1>0, <1>a, <2>1, <2>2, <2>3, <2>4 DEF Told, CommandKinds, LuaMoves, BothMove, WorkersBetween, LuaTypes
  <2>11. NoUseAfterClose'
    BY <1>0, <1>a, <2>1, <2>2, <2>3, <2>4 DEF NoUseAfterClose, MisuseOnly
  <2>12. OptionsAreThere'
    BY <1>0, <1>a, <2>1, <2>2, <2>3, <2>4 DEF OptionsAreThere, MisuseOnly
  <2>13. QED
    BY <2>5, <2>6, <2>7, <2>8, <2>9, <2>10, <2>11, <2>12 DEF LuaInv
<1>21. CASE LuaSetCreated
  <2>1. UNCHANGED <<cmd, lua, tls, exported, gstate, states, slot, luaCalls, luaReports, luaSilent, luaError, luaRc, misuse>>
    BY <1>21 DEF LuaSetCreated, interp, luaArray, run
  <2>2. LuaAlive /\ luaPc[Reporter] = "flag"
    BY <1>0, <1>a, <1>21, <2>1 DEF LuaSetCreated
  <2>3. luaCreated' = TRUE
    BY <1>0, <1>a, <1>21, <2>1, <2>2 DEF LuaSetCreated
  <2>4. LuaMoves(Reporter, "sleep")
    BY <1>0, <1>a, <1>21, <2>1, <2>2, <2>3, LuaGoes DEF LuaSetCreated, LuaPlaces, MainPlaces, WorkerPlaces, ReporterPlaces, CommandKinds
  <2>5. LuaTypes'
    BY <1>0, <1>a, <2>1, <2>2, <2>3, <2>4 DEF LuaTypes, LuaPlaces, MainPlaces, WorkerPlaces, ReporterPlaces, CommandKinds, LuaMoves, BothMove
  <2>6. MainState'
    BY <1>0, <1>a, <2>1, <2>2, <2>3, <2>4 DEF MainState, Loaded, CommandKinds, LuaMoves, BothMove
  <2>7. \A u \in LuaWorker : WorkerState(u)'
    BY <1>0, <1>a, <2>1, <2>2, <2>3, <2>4 DEF WorkerState, LuaMoves, BothMove
  <2>8. WorkersBetween'
    BY <1>0, <1>a, <2>1, <2>2, <2>3, <2>4 DEF WorkersBetween, CommandKinds, CreateFailed, LuaMoves, BothMove
  <2>9. ReporterState'
    BY <1>0, <1>a, <2>1, <2>2, <2>3, <2>4 DEF ReporterState, CommandKinds, LuaMoves, BothMove, MainState, Loaded
  <2>10. Told'
    BY <1>0, <1>a, <2>1, <2>2, <2>3, <2>4 DEF Told, CommandKinds, LuaMoves, BothMove, WorkersBetween, LuaTypes
  <2>11. NoUseAfterClose'
    BY <1>0, <1>a, <2>1, <2>2, <2>3, <2>4 DEF NoUseAfterClose
  <2>12. OptionsAreThere'
    BY <1>0, <1>a, <2>1, <2>2, <2>3, <2>4 DEF OptionsAreThere
  <2>13. QED
    BY <2>5, <2>6, <2>7, <2>8, <2>9, <2>10, <2>11, <2>12 DEF LuaInv
<1>22. CASE sb_lua_report_intermediate
  <2>1. UNCHANGED <<cmd, luaPc, lua, tls, exported, gstate, states, slot, luaCalls, luaCreated, luaSilent, luaError, luaRc>>
    BY <1>22 DEF sb_lua_report_intermediate, interp, luaArray, run
  <2>2. LuaAlive /\ luaPc[Reporter] = "sleep" /\ lua[Reporter] = "open" /\ exported[Reporter]
    BY <1>0, <1>a, <1>22, <2>1 DEF sb_lua_report_intermediate, ReporterState
  <2>3. ~luaSilent /\ luaReports' \in Nat
    BY <1>0, <1>a, <1>22, <2>1, <2>2 DEF sb_lua_report_intermediate, LuaTypes
  <2>4. MisuseOnly({})
    <3>1. CallMisuse(Reporter, exported[Reporter]) = {} /\ CloseMisuse(Reporter) = {}
      BY <1>0, <1>a, <1>22, <2>1, <2>2, <2>3, CallIsGood DEF KnowsOptions
    <3>2. QED
      BY <1>22, <3>1 DEF sb_lua_report_intermediate, MisuseOnly
  <2>5. LuaTypes'
    BY <1>0, <1>a, <2>1, <2>2, <2>3, <2>4 DEF LuaTypes, LuaPlaces, MainPlaces, WorkerPlaces, ReporterPlaces, CommandKinds
  <2>6. MainState'
    BY <1>0, <1>a, <2>1, <2>2, <2>3, <2>4 DEF MainState, Loaded, CommandKinds
  <2>7. \A u \in LuaWorker : WorkerState(u)'
    BY <1>0, <1>a, <2>1, <2>2, <2>3, <2>4 DEF WorkerState
  <2>8. WorkersBetween'
    BY <1>0, <1>a, <2>1, <2>2, <2>3, <2>4 DEF WorkersBetween, CommandKinds, CreateFailed, MisuseOnly
  <2>9. ReporterState'
    BY <1>0, <1>a, <2>1, <2>2, <2>3, <2>4 DEF ReporterState, CommandKinds, MainState, Loaded
  <2>10. Told'
    BY <1>0, <1>a, <2>1, <2>2, <2>3, <2>4 DEF Told, CommandKinds, WorkersBetween, LuaTypes
  <2>11. NoUseAfterClose'
    BY <1>0, <1>a, <2>1, <2>2, <2>3, <2>4 DEF NoUseAfterClose, MisuseOnly
  <2>12. OptionsAreThere'
    BY <1>0, <1>a, <2>1, <2>2, <2>3, <2>4 DEF OptionsAreThere, MisuseOnly
  <2>13. QED
    BY <2>5, <2>6, <2>7, <2>8, <2>9, <2>10, <2>11, <2>12 DEF LuaInv
<1>23. CASE sb_lua_report_thread_done
  <2>1. UNCHANGED <<cmd, exported, gstate, states, slot, luaCalls, luaReports, luaCreated, luaSilent, luaError, luaRc>>
    BY <1>23 DEF sb_lua_report_thread_done, interp, luaArray, run
  <2>2. LuaAlive /\ luaPc[Reporter] = "cancelled" /\ lua[Reporter] = "open" /\ luaPc[LuaMain] = "reap" /\ gstate
    BY <1>0, <1>a, <1>23, <2>1 DEF sb_lua_report_thread_done, ReporterState, MainState, Loaded, LuaAlive
  <2>3. InterpreterIs(Reporter, "closed")
    BY <1>0, <1>a, <1>23, <2>1, <2>2, ClosedInterpreter DEF sb_lua_report_thread_done
  <2>4. MisuseOnly({})
    BY <1>0, <1>a, <1>23, <2>1, <2>2, <2>3 DEF sb_lua_report_thread_done, MisuseOnly, CloseMisuse
  <2>5. LuaMoves(Reporter, "gone")
    BY <1>0, <1>a, <1>23, <2>1, <2>2, <2>3, <2>4, LuaGoes DEF sb_lua_report_thread_done, LuaPlaces, MainPlaces, WorkerPlaces, ReporterPlaces, CommandKinds
  <2>6. LuaTypes'
    BY <1>0, <1>a, <2>1, <2>2, <2>3, <2>4, <2>5 DEF LuaTypes, LuaPlaces, MainPlaces, WorkerPlaces, ReporterPlaces, CommandKinds, LuaMoves, BothMove, InterpreterIs
  <2>7. MainState'
    BY <1>0, <1>a, <2>1, <2>2, <2>3, <2>4, <2>5 DEF MainState, Loaded, CommandKinds, LuaMoves, BothMove, InterpreterIs
  <2>8. \A u \in LuaWorker : WorkerState(u)'
    BY <1>0, <1>a, <2>1, <2>2, <2>3, <2>4, <2>5 DEF WorkerState, LuaMoves, BothMove, InterpreterIs
  <2>9. WorkersBetween'
    BY <1>0, <1>a, <2>1, <2>2, <2>3, <2>4, <2>5 DEF WorkersBetween, CommandKinds, CreateFailed, LuaMoves, BothMove, MisuseOnly
  <2>10. ReporterState'
    BY <1>0, <1>a, <2>1, <2>2, <2>3, <2>4, <2>5 DEF ReporterState, CommandKinds, LuaMoves, BothMove, InterpreterIs, MainState, Loaded
  <2>11. Told'
    BY <1>0, <1>a, <2>1, <2>2, <2>3, <2>4, <2>5 DEF Told, CommandKinds, LuaMoves, BothMove, WorkersBetween, LuaTypes
  <2>12. NoUseAfterClose'
    BY <1>0, <1>a, <2>1, <2>2, <2>3, <2>4, <2>5 DEF NoUseAfterClose, MisuseOnly
  <2>13. OptionsAreThere'
    BY <1>0, <1>a, <2>1, <2>2, <2>3, <2>4, <2>5 DEF OptionsAreThere, MisuseOnly
  <2>14. QED
    BY <2>6, <2>7, <2>8, <2>9, <2>10, <2>11, <2>12, <2>13 DEF LuaInv
<1>24. QED
  BY <1>1, <1>2, <1>3, <1>4, <1>5, <1>6, <1>7, <1>8, <1>9, <1>10, <1>11, <1>12, <1>13, <1>14, <1>15, <1>16, <1>17, <1>18, <1>19, <1>20, <1>21, <1>22, <1>23 DEF LuaNext, MainStep, WorkerStep, ReporterStep

-----------------------------------------------------------------------------
(* The logger: who compares holds text_mutex, and the handler is idle until it runs. *)
LEMMA LogInitInv == LogInit => LogInv
  BY DEF LogInit, LogInv, LogTypeOK, OneCompares, Actor

LEMMA LogNextInv ==
    ASSUME LogInv, LogNext
    PROVE  LogInv'
<1>0. /\ LogTypeOK /\ OneCompares /\ (on = None => logPc[Handler] = "idle")
      /\ None \notin Actor /\ Handler \in Actor /\ Handler \notin LogThread /\ LogThread \subseteq Actor
  BY LogAssumption DEF LogInv, Actor
<1>1. ASSUME NEW t \in LogThread, log_text(t) PROVE LogInv'
  <2>1. logPc[t] = "idle" /\ t \in Actor /\ t # Handler /\ UNCHANGED <<mutex, text_cnt, on>>
    BY <1>0, <1>1 DEF log_text
  <2>2. logPc' = logPc \/ logPc' = [logPc EXCEPT ![t] = "lock"] \/ logPc' = [logPc EXCEPT ![t] = "print"]
    BY <1>1 DEF log_text, LogGoto
  <2>3. QED
    BY <1>0, <2>1, <2>2 DEF LogInv, LogTypeOK, OneCompares
<1>2. ASSUME NEW t \in Actor, TakeMutex(t) PROVE LogInv'
  BY <1>0, <1>2 DEF TakeMutex, LogRuns, LogGoto, LogInv, LogTypeOK, OneCompares
<1>3. ASSUME NEW t \in Actor, Duplicate(t) PROVE LogInv'
  BY <1>0, <1>3 DEF Duplicate, LogRuns, LogGoto, LogInv, LogTypeOK, OneCompares
<1>4. ASSUME NEW t \in Actor, Different(t) PROVE LogInv'
  BY <1>0, <1>4 DEF Different, LogRuns, LogGoto, LogInv, LogTypeOK, OneCompares
<1>5. ASSUME NEW t \in Actor, PrintText(t) PROVE LogInv'
  BY <1>0, <1>5 DEF PrintText, LogRuns, LogGoto, LogInv, LogTypeOK, OneCompares
<1>6. CASE AlarmGoesOff
  BY <1>0, <1>6 DEF AlarmGoesOff, LogGoto, LogInv, LogTypeOK, OneCompares
<1>7. CASE HandlerExits
  BY <1>0, <1>7 DEF HandlerExits, LogInv, LogTypeOK, OneCompares
<1>8. QED
  BY <1>1, <1>2, <1>3, <1>4, <1>5, <1>6, <1>7 DEF LogNext, Process

-----------------------------------------------------------------------------
(***************************************************************************)
(* sysbench.  A behaviour runs one component, whose invariant holds.       *)
(***************************************************************************)
LEMMA SysbenchInitInv == SysbenchInit => SysbenchInv
<1> SUFFICES ASSUME SysbenchInit PROVE SysbenchInv
  OBVIOUS
<1>1. RunInit /\ LuaInit /\ (part = "logger" => LogInit)
  BY DEF SysbenchInit
<1>2. QED
  BY <1>1, RunInitInv, HandlerInit, LuaInitInv, LogInitInv DEF SysbenchInv

LEMMA StepOfPart ==
    ASSUME [SysbenchNext]_sysbenchVars
    PROVE  /\ part' = part
           /\ part = "run" => RunNext \/ UNCHANGED runVars
           /\ part = "lua" => LuaNext \/ UNCHANGED luaVars
           /\ part = "logger" => LogNext \/ UNCHANGED logVars
<1>1. CASE UNCHANGED sysbenchVars
  BY <1>1 DEF sysbenchVars
<1>2. CASE SysbenchNext
  BY <1>2 DEF SysbenchNext
<1>3. QED
  BY <1>1, <1>2

(* A component that makes no step keeps its invariant. *)
LEMMA RunStays == RunInv /\ UNCHANGED runVars => RunInv'
<1> SUFFICES ASSUME RunInv, UNCHANGED runVars PROVE RunInv'
  OBVIOUS
<1>1. RunTypes' /\ Arrivals' /\ Failures' /\ Counts' /\ Phases' /\ MissedReporterIsQuiet'
  BY DEF RunInv, runVars, RunTypes, Arrivals, Failures, Counts, Phases, MissedReporterIsQuiet
<1>2. QED
  BY <1>1 DEF RunInv

LEMMA LuaStays == LuaInv /\ UNCHANGED luaVars => LuaInv'
<1> SUFFICES ASSUME LuaInv, UNCHANGED luaVars PROVE LuaInv'
  OBVIOUS
<1>1. LuaTypes' /\ MainState'
  BY DEF LuaInv, luaVars, LuaTypes, MainState
<1>2. \A w \in LuaWorker : WorkerState(w)'
  BY DEF LuaInv, luaVars, WorkerState
<1>3. WorkersBetween' /\ ReporterState' /\ Told'
  BY DEF LuaInv, luaVars, WorkersBetween, CreateFailed, ReporterState, Told
<1>4. NoUseAfterClose' /\ OptionsAreThere'
  BY DEF LuaInv, luaVars, NoUseAfterClose, OptionsAreThere
<1>5. QED
  BY <1>1, <1>2, <1>3, <1>4 DEF LuaInv

LEMMA LogStays == LogInv /\ UNCHANGED logVars => LogInv'
  BY DEF LogInv, logVars, LogTypeOK, OneCompares

LEMMA SysbenchNextInv == SysbenchInv /\ [SysbenchNext]_sysbenchVars => SysbenchInv'
<1> SUFFICES ASSUME SysbenchInv, [SysbenchNext]_sysbenchVars PROVE SysbenchInv'
  OBVIOUS
<1>1. /\ part' = part
      /\ part = "run" => RunInv /\ handler \in Handlers /\ (RunNext \/ UNCHANGED runVars)
      /\ part = "lua" => LuaInv /\ (LuaNext \/ UNCHANGED luaVars)
      /\ part = "logger" => LogInv /\ (LogNext \/ UNCHANGED logVars)
  BY StepOfPart DEF SysbenchInv
<1>2. part = "run" => RunInv' /\ handler' \in Handlers
  <2>1. UNCHANGED runVars => handler' = handler
    BY DEF runVars
  <2>2. QED
    BY <1>1, <2>1, RunNextInv, HandlerNext, RunStays
<1>3. part = "lua" => LuaInv'
  BY <1>1, LuaNextInv, LuaStays
<1>4. part = "logger" => LogInv'
  BY <1>1, LogNextInv, LogStays
<1>5. Handlers' = Handlers
  BY DEF Handlers
<1>6. QED
  BY <1>1, <1>2, <1>3, <1>4, <1>5 DEF SysbenchInv

(* The invariants say what RunOrdered promises. *)
LEMMA RunInvOrdered ==
    RunInv /\ handler \in Handlers =>
        RunTypeOK /\ FailedInitStopsAll /\ WarmupUnlimited /\ RunningCountExact /\ MissedReporterIsQuiet
<1> SUFFICES ASSUME RunInv, handler \in Handlers
             PROVE  RunTypeOK /\ FailedInitStopsAll /\ WarmupUnlimited /\ RunningCountExact /\ MissedReporterIsQuiet
  OBVIOUS
<1>0. RunTypes /\ Arrivals /\ Failures /\ Counts /\ Phases /\ MissedReporterIsQuiet
  BY DEF RunInv
<1>a. \A w \in RunWorkers : worker_barrier.open => runPc[w] \notin {"none", "start", "initfailed"}
  BY <1>0 DEF Arrivals, WorkerParty
<1>1. RunTypeOK
  <2>1. {runError, limited, runSilent} \subseteq BOOLEAN
    BY <1>0 DEF RunTypes
  <2>2. threads_running \in 0 .. runThreads
    BY <1>0, RunNames DEF RunTypes, Counts
  <2>3. QED
    BY <1>0, <2>1, <2>2 DEF RunTypes, RunTypeOK
<1>2. FailedInitStopsAll
  <2> SUFFICES ASSUME NEW w \in RunWorkers, runPc[w] \in {"initfailed", "leave"}
               PROVE  (\A u \in RunWorkers : runPc[u] # "run") /\ outcome # "ok"
    BY DEF FailedInitStopsAll
  <2>1. ~worker_barrier.open \/ worker_barrier.failed
    BY <1>0, <1>a DEF Failures
  <2>2. outcome # "ok"
    BY <1>0 DEF Failures
  <2>3. QED
    BY <1>0, <2>1, <2>2 DEF Failures
<1>3. WarmupUnlimited
  BY <1>0, <1>a DEF Failures, Phases, WarmupUnlimited
<1>4. RunningCountExact
  BY <1>0 DEF Counts, RunningCountExact
<1>5. QED
  BY <1>0, <1>1, <1>2, <1>3, <1>4

LEMMA LuaInvOrdered ==
    LuaInv => /\ LuaTypeOK /\ NoUseAfterClose /\ OptionsAreThere /\ StatesOutliveWorkers
              /\ ReportIsClosed /\ FailureIsReported
<1> SUFFICES ASSUME LuaInv
             PROVE  /\ LuaTypeOK /\ NoUseAfterClose /\ OptionsAreThere /\ StatesOutliveWorkers
                    /\ ReportIsClosed /\ FailureIsReported
  OBVIOUS
<1>0. LuaTypes /\ WorkersBetween /\ ReporterState /\ Told /\ NoUseAfterClose /\ OptionsAreThere
  BY DEF LuaInv
<1>1. LuaTypeOK
  BY <1>0 DEF LuaTypes, LuaTypeOK
<1>2. StatesOutliveWorkers
  BY <1>0 DEF WorkersBetween, StatesOutliveWorkers
<1>3. ReportIsClosed
  BY <1>0 DEF ReporterState, ReportIsClosed
<1>4. FailureIsReported
  BY <1>0 DEF Told, FailureIsReported
<1>5. QED
  BY <1>0, <1>1, <1>2, <1>3, <1>4

\* run_test, sb_lua_op_thread_run and text_handler_process: however many
\* workers, a failed initialisation lets nobody run events, the limit holds only
\* after the warmup and threads_running is the number that run; no interpreter
\* is used after it was closed or without the options, states[] outlives its
\* workers, a failure is told; only the thread with text_mutex compares.
THEOREM RunAlwaysOrdered == SysbenchSpec => []RunOrdered
<1>1. SysbenchInv => RunOrdered
  BY RunInvOrdered, LuaInvOrdered DEF SysbenchInv, RunOrdered, LogInv
<1>2. QED
  BY SysbenchInitInv, SysbenchNextInv, <1>1, PTL DEF SysbenchSpec
=============================================================================
