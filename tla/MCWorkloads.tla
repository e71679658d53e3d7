---------------------------- MODULE MCWorkloads -----------------------------
(***************************************************************************)
(* What the benchmarks do, on small instances: the file, memory, mutex and *)
(* threads tests of sysbench and its random numbers, its OLTP load over    *)
(* both database drivers, and four programs of UnixBench.  Each behaviour  *)
(* runs one of them, named by part; the others stay where they start.      *)
(***************************************************************************)
EXTENDS SbTests, DbLoad, DbMysql, UnixBench

CONSTANT Parts          \* the components this run explores

VARIABLE part

loadVars == <<part, cmdVars, fileVars, randVars, memoryVars, locksVars,
              bulkVars, createVars, oltpVars, vars, contextVars, spawnVars,
              fstimeVars, dhryVars>>

CmdLine(n, t, m, io) == [num |-> n, total |-> t, block |-> 2, mode |-> m, io |-> io, backlog |-> 1]
SomeCmdLines == {CmdLine(2, 8, "seqrd", "sync"), CmdLine(1, 5, "rndrw", "async"),
                 CmdLine(2, 6, "seqwr", "mmap"), CmdLine(0, 4, "seqrd", "sync")}
Setting(t, num, bytes, mode, io, freq, end, b, v, n) ==
    [threads |-> t, num_files |-> num, total_size |-> bytes, block_size |-> 2, merged |-> 0,
     test_mode |-> mode, io_mode |-> io, fsync_freq |-> freq, fsync_all |-> FALSE,
     fsync_end |-> end, rw_ratio |-> <<1, 1>>, backlog |-> b, validate |-> v, requests |-> n]
SomeSettings ==
    {Setting({"t1", "t2"}, 2, 10, "seqrewr", "sync", 2, TRUE, 1, TRUE, 6),
     Setting({"t1"}, 2, 8, "rndrw", "sync", 2, TRUE, 1, TRUE, 5),
     Setting({"t1", "t2"}, 2, 4, "rndrw", "sync", 1, TRUE, 1, TRUE, 3),
     Setting({"t1", "t2"}, 2, 4, "rndrw", "async", 1, TRUE, 2, FALSE, 2),
     Setting({"t1"}, 2, 10, "rndrd", "mmap", 1, TRUE, 1, TRUE, 2),
     Setting({"t1"}, 1, 4, "seqrd", "sync", 1, TRUE, 1, TRUE, 3),
     [Setting({"t1"}, 2, 4, "rndwr", "async", 1, TRUE, 2, FALSE, 2) EXCEPT !.fsync_all = TRUE],
     [Setting({"t1"}, 2, 4, "seqwr", "sync", 1, TRUE, 1, TRUE, 3) EXCEPT !.fsync_all = TRUE]}
SomeSeedAdd  == [index |-> 1, offset |-> 5]
SomeRanges   == {<<0, 15>>, <<3, 9>>, <<15, 15>>}
SomeTypes    == {"uniform", "gaussian", "pareto", "zipfian"}
SomeSeeds    == {<<3, 9>>, <<15, 1>>}
SmallEvent   == <<"begin", "point_selects", "index_updates", "inserts", "commit">>
SmallWrites  == {"index_updates", "inserts"}
SomeFailures == {"deadlock", "lock_timeout", "lost", "gone", "tcp", "other"}
IgnoredToo   == {"deadlock", "lock_timeout", "lost", "gone", "tcp"}

Pg == INSTANCE DbPgsql

\* The variables of a component the behaviour does not run hold this value.
Unused == "unused"

CmdUnused ==
    /\ file = Unused /\ cmd = Unused /\ commands = Unused
    /\ prepared = Unused
FileUnused ==
    /\ position = Unused /\ current_file = Unused /\ fsynced_file = Unused
    /\ is_dirty = Unused /\ req_performed_file = Unused /\ prev_req = Unused
    /\ warned = Unused /\ filePc = Unused /\ req = Unused /\ used = Unused
    /\ buffer = Unused /\ queue = Unused /\ counters = Unused
    /\ executed = Unused /\ blocks = Unused /\ unsynced = Unused
    /\ refused = Unused /\ setting = Unused
    /\ overlap = Unused /\ clashed = Unused
RandUnused ==
    /\ rand_type = Unused /\ rand_unique_index = Unused
    /\ rand_unique_offset = Unused /\ got = Unused /\ unique = Unused
    /\ randCalls = Unused /\ draw = Unused
MemoryUnused ==
    /\ block = Unused /\ total = Unused /\ scope = Unused /\ oper = Unused
    /\ rnd = Unused /\ hugetlb = Unused /\ memoryStage = Unused
    /\ buffers = Unused /\ size = Unused /\ mem = Unused
    /\ thread_counters = Unused /\ memoryPc = Unused /\ at = Unused
    /\ touched = Unused /\ events = Unused
BulkUnused ==
    /\ bulkPc = Unused /\ table = Unused /\ row = Unused /\ bulk = Unused
    /\ server = Unused
CreateUnused ==
    /\ createPc = Unused /\ once = Unused /\ global = Unused
    /\ timers = Unused /\ enabled = Unused /\ createLock = Unused
    /\ initialized = Unused /\ inits = Unused /\ library = Unused
    /\ pos = Unused /\ conns = Unused
MysqlUnused ==
    /\ con = Unused /\ calls = Unused
DhryUnused ==
    /\ dhryPc = Unused /\ Run_Index = Unused /\ dhryS = Unused
    /\ dhryPrinted = Unused

LoadInit ==
    /\ part \in Parts
    /\ IF part = "file_cmd" THEN CmdInit ELSE CmdUnused
    /\ IF part = "fileio" THEN FileInit ELSE FileUnused
    /\ IF part = "rand" THEN RandInit ELSE RandUnused
    /\ IF part = "memory" THEN MemoryInit ELSE MemoryUnused
    /\ LocksInit /\ (part # "locks" => locksTest = "mutex" /\ asked = 2)
    /\ IF part = "bulk" THEN BulkInitial ELSE BulkUnused
    /\ IF part = "create" THEN CreateInit ELSE CreateUnused
    /\ OltpInit
    /\ CASE part = "mysql" -> Init
         [] part = "pgsql" -> Pg!Init
         [] OTHER -> MysqlUnused
    /\ ContextInit
    /\ SpawnInit /\ (part # "spawn" => program = "spawn")
    /\ FstimeInit /\ (part # "fstime" => fstimeTest = "w")
    /\ IF part = "dhrystone" THEN DhryInit ELSE DhryUnused

LoadNext ==
    \/ /\ part = "file_cmd" /\ CmdNext
       /\ UNCHANGED <<part, fileVars, randVars, memoryVars, locksVars,
                      bulkVars, createVars, oltpVars, vars, contextVars,
                      spawnVars, fstimeVars, dhryVars>>
    \/ /\ part = "fileio" /\ FileNext
       /\ UNCHANGED <<part, cmdVars, randVars, memoryVars, locksVars,
                      bulkVars, createVars, oltpVars, vars, contextVars,
                      spawnVars, fstimeVars, dhryVars>>
    \/ /\ part = "rand" /\ RandNext
       /\ UNCHANGED <<part, cmdVars, fileVars, memoryVars, locksVars,
                      bulkVars, createVars, oltpVars, vars, contextVars,
                      spawnVars, fstimeVars, dhryVars>>
    \/ /\ part = "memory" /\ MemoryNext
       /\ UNCHANGED <<part, cmdVars, fileVars, randVars, locksVars, bulkVars,
                      createVars, oltpVars, vars, contextVars, spawnVars,
                      fstimeVars, dhryVars>>
    \/ /\ part = "locks" /\ LocksNext
       /\ UNCHANGED <<part, cmdVars, fileVars, randVars, memoryVars,
                      bulkVars, createVars, oltpVars, vars, contextVars,
                      spawnVars, fstimeVars, dhryVars>>
    \/ /\ part = "bulk" /\ BulkNext
       /\ UNCHANGED <<part, cmdVars, fileVars, randVars, memoryVars,
                      locksVars, createVars, oltpVars, vars, contextVars,
                      spawnVars, fstimeVars, dhryVars>>
    \/ /\ part = "create" /\ CreateNext
       /\ UNCHANGED <<part, cmdVars, fileVars, randVars, memoryVars,
                      locksVars, bulkVars, oltpVars, vars, contextVars,
                      spawnVars, fstimeVars, dhryVars>>
    \/ /\ part = "oltp" /\ OltpNext
       /\ UNCHANGED <<part, cmdVars, fileVars, randVars, memoryVars,
                      locksVars, bulkVars, createVars, vars, contextVars,
                      spawnVars, fstimeVars, dhryVars>>
    \/ /\ part = "mysql" /\ Next
       /\ UNCHANGED <<part, cmdVars, fileVars, randVars, memoryVars,
                      locksVars, bulkVars, createVars, oltpVars, contextVars,
                      spawnVars, fstimeVars, dhryVars>>
    \/ /\ part = "pgsql" /\ Pg!Next
       /\ UNCHANGED <<part, cmdVars, fileVars, randVars, memoryVars,
                      locksVars, bulkVars, createVars, oltpVars, contextVars,
                      spawnVars, fstimeVars, dhryVars>>
    \/ /\ part = "context" /\ ContextNext
       /\ UNCHANGED <<part, cmdVars, fileVars, randVars, memoryVars,
                      locksVars, bulkVars, createVars, oltpVars, vars,
                      spawnVars, fstimeVars, dhryVars>>
    \/ /\ part = "spawn" /\ SpawnNext
       /\ UNCHANGED <<part, cmdVars, fileVars, randVars, memoryVars,
                      locksVars, bulkVars, createVars, oltpVars, vars,
                      contextVars, fstimeVars, dhryVars>>
    \/ /\ part = "fstime" /\ FstimeNext
       /\ UNCHANGED <<part, cmdVars, fileVars, randVars, memoryVars,
                      locksVars, bulkVars, createVars, oltpVars, vars,
                      contextVars, spawnVars, dhryVars>>
    \/ /\ part = "dhrystone" /\ DhryNext
       /\ UNCHANGED <<part, cmdVars, fileVars, randVars, memoryVars,
                      locksVars, bulkVars, createVars, oltpVars, vars,
                      contextVars, spawnVars, fstimeVars>>

\* Threads that can run do run, a mutex that is free again and again is got
\* by each who waits, and an alarm that is set rings.
LoadSpec ==
    /\ LoadInit /\ [][LoadNext]_loadVars
    /\ WF_locksVars(part = "locks" /\ Destroy)
    /\ \A t \in LocksThread : SF_locksVars(part = "locks" /\ LocksWork(t))
    /\ WF_oltpVars(part = "oltp" /\ OltpNext)
    /\ WF_contextVars(part = "context" /\ Master)
    /\ WF_contextVars(part = "context" /\ Slave)
    /\ WF_contextVars(part = "context" /\ ContextRing)
    /\ WF_fstimeVars(part = "fstime" /\ Program)
    /\ WF_fstimeVars(part = "fstime" /\ FstimeRing)

-----------------------------------------------------------------------------
\* sb_fileio.c: a run finds the files its prepare made, unless a write of it was
\* short; requests stay in the files, in order in the sequential modes; each is
\* counted once, when it is over; validation refuses nothing that was written;
\* what is called clean or ended is on disk and drained.  This holds wherever
\* threads, completions and failures strike, but for what the code leaves open: a
\* single file warns when it wraps, two threads that draw fsyncs or claim a block
\* at once, writes under way while an fsync is drawn, and queued writes and reads,
\* which the last fsyncs and the validation do not wait for.
FilesExact ==
    /\ part = "file_cmd" => CmdTypeOK /\ PreparedIsEnough /\ PreparedRuns /\ PreparedValidates
    /\ part = "fileio" =>
         /\ FileTypeOK /\ DrawnInFiles /\ NoSeqWarning /\ CountedOnce /\ NoFalseAlarm
         /\ DirtyKnown /\ EndIsDurable /\ DoneIsDrained

\* sb_memory.c, sb_mutex.c, sb_threads.c, sb_rand.c and the UnixBench programs:
\* no number is drawn twice or out of range, memory stays in its block and its
\* total, a mutex is held by one and taken as often as asked (for 0, as often as
\* an unsigned int has values), and whenever the alarm strikes the count printed
\* is that of the work done or one less; in fstime one more for a call cut short,
\* and no such bound after a read of the copy test was.
WorkExact ==
    /\ part = "rand" => RandTypeOK /\ Unique /\ InRange
    /\ part = "memory" => MemoryTypeOK /\ StaysInBlock /\ LocalIsPrivate /\ TotalIsALimit
    /\ part = "locks" => LocksTypeOK /\ HoldsOne /\ DoneAsAsked /\ InTurn
    /\ part = "context" => InStep
    /\ part = "spawn" => CountsGoodChildren
    /\ part = "fstime" => CreditsWhatMoved /\ CopyInStep /\ WholeFile /\ OwnAlarm
    /\ part = "dhrystone" => FinalValues /\ CallsAsSaid

\* db_driver.c over drv_mysql.c and drv_pgsql.c, and oltp_common.lua: whatever
\* the server answers, statistics count what it did, results are freed and
\* read within their rows, tables end with a prefix of their rows and none
\* lost, only a row longer than the buffer that comes after a flush passes it,
\* no event runs on a stale statement, and none commits in part but what a lock
\* timeout left behind.
DatabaseExact ==
    /\ part = "bulk" => BulkTypeOK /\ TablesComplete /\ PrefixOnly /\ OnlyLongRowsPass
    /\ part = "create" => CreateTypeOK /\ InitializedOnce /\ ReportHasTimers /\ SpreadEvenly
    /\ part = "oltp" => OltpTypeOK /\ StatementsFresh /\ WholeEvents /\ CountedAreCommitted
    /\ part = "mysql" => TypeOK /\ StatisticsExact /\ RowFitsResult /\ HandleWillBeFreed
    /\ part = "pgsql" =>
         /\ Pg!TypeOK /\ Pg!StatisticsExact /\ Pg!ResultsCleared
         /\ Pg!ResultSetHasHandle /\ Pg!RowsFromTheFirst

\* spawn never has two children; the mutex and threads tests, a thread of the
\* OLTP load, both processes of context1 and fstime end, and fstime leaves no
\* file behind.
WorkEnds ==
    /\ OneChildAtATime
    /\ part = "locks" => LocksEnds
    /\ part = "oltp" => ThreadEnds
    /\ part = "context" => BothEnd
    /\ part = "fstime" => EndsClean
=============================================================================
