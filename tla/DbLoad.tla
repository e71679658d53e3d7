------------------------------- MODULE DbLoad -------------------------------
(***************************************************************************)
(* The load on a database, in three parts: filling tables, starting the    *)
(* database layer, and a thread of the OLTP scripts.                       *)
(***************************************************************************)
EXTENDS Integers, Sequences, SequencesExt, FiniteSets

(***************************************************************************)
(* Filling the tables: the prepare command of the OLTP scripts             *)
(* (oltp_common.lua), run by every thread on its share of the tables, and  *)
(* the multi-row inserts of the database layer it uses (db_driver.c).  A   *)
(* row is its number in the table; what counts of its text is its length.  *)
(***************************************************************************)

CONSTANTS
    BulkThreads,                \* --threads: the threads are 0..Threads-1
    Tables,                 \* --tables: the tables are 1..Tables
    TableSize,              \* --table-size
    RowLens,                \* lengths of the text of a row
    QueryLen,               \* length of "INSERT INTO ... VALUES"
    BufLen,                 \* BULK_PACKET_SIZE
    CommitMax               \* ROWS_BEFORE_COMMIT, or 0 when the driver
                            \* needs no COMMIT

VARIABLES
    bulkPc,                     \* where each thread's script is
    table,                  \* the table it works on
    row,                    \* the rows of it that were passed on
    bulk,                   \* bulk_* of its connection
    server                  \* per table: its rows that are committed and open,
                            \* its INSERTs, and whether its index exists

bulkVars == <<bulkPc, table, row, bulk, server>>

Tids == 0..(BulkThreads - 1)
NoBulk == [buffer |-> FALSE, rows |-> << >>, ptr |-> 0, cnt |-> 0, commits |-> 0]
NoTable == [made |-> 0, open |-> << >>, committed |-> << >>, indexed |-> FALSE]

BulkInitial == /\ bulkPc = [t \in Tids |-> "tables"]
               /\ table = [t \in Tids |-> 0]
               /\ row = [t \in Tids |-> 0]
               /\ bulk = [t \in Tids |-> NoBulk]
               /\ server = [n \in 1..Tables |-> NoTable]

-----------------------------------------------------------------------------
(* The script's loop over the tables.                                      *)

FirstTable(t) == (t % BulkThreads) + 1

NextTable(t) == IF table[t] = 0 THEN FirstTable(t) ELSE table[t] + BulkThreads

\* db_bulk_insert_init: the buffer starts with the text of the query.
BulkInit == [NoBulk EXCEPT !.buffer = TRUE, !.ptr = QueryLen]

create_table(t) ==
    LET n == NextTable(t) IN
    /\ bulkPc[t] = "tables"
    /\ n <= Tables
    /\ n >= 1
    /\ table' = [table EXCEPT ![t] = n]
    /\ server' = [server EXCEPT ![n].made = @ + 1]
    /\ row' = [row EXCEPT ![t] = 0]
    /\ bulk' = [bulk EXCEPT ![t] = BulkInit]
    /\ bulkPc' = [bulkPc EXCEPT ![t] = "rows"]

TablesDone(t) ==
    /\ bulkPc[t] = "tables"
    /\ NextTable(t) > Tables
    /\ bulkPc' = [bulkPc EXCEPT ![t] = "end"]
    /\ UNCHANGED <<table, row, bulk, server>>

-----------------------------------------------------------------------------
(* db_bulk_insert_next, db_bulk_do_insert, db_bulk_insert_done.            *)

Needs(b, len) == b.ptr + len + 1 + (IF b.cnt > 0 THEN 1 ELSE 0)

\* The buffer with one more row in it.
Append1(b, r, len) == [b EXCEPT !.rows = Append(@, r), !.cnt = @ + 1,
                                !.ptr = @ + len + (IF b.cnt > 0 THEN 1 ELSE 0)]

CommitNow(b, is_last) == is_last \/ b.commits + b.cnt >= CommitMax

\* The database after the INSERT, and after the COMMIT that may follow it.
Inserted(s, b) == IF CommitMax = 0 THEN [s EXCEPT !.committed = @ \o b.rows]
                                   ELSE [s EXCEPT !.open = @ \o b.rows]
Committed(s) == [s EXCEPT !.committed = @ \o s.open, !.open = << >>]

\* The outcomes of db_bulk_do_insert: what it returns, the buffer and the table.
Flushed(b, commits) == [b EXCEPT !.ptr = QueryLen, !.cnt = 0, !.rows = << >>,
                                 !.commits = commits]
db_bulk_do_insert(b, s, is_last) ==
    IF b.cnt = 0 THEN {[rc |-> 0, b |-> b, s |-> s]}
    ELSE LET i == Inserted(s, b) IN
         {[rc |-> 1, b |-> b, s |-> s]}                              \* INSERT fails
         \cup (IF CommitMax = 0 THEN {[rc |-> 0, b |-> Flushed(b, 0), s |-> i]}
               ELSE IF ~CommitNow(b, is_last)
                    THEN {[rc |-> 0, b |-> Flushed(b, b.commits + b.cnt), s |-> i]}
               ELSE {[rc |-> 0, b |-> Flushed(b, 0), s |-> Committed(i)],
                     [rc |-> 1, b |-> [b EXCEPT !.commits = @ + b.cnt], s |-> i]})

\* The script numbers the rows from one.
RowOfLoop(t) == row[t] + 1

\* One step of the script's loop: a row of some length is passed on.  A failure
\* makes the script's assertion fail and ends the thread's command.  The room is
\* not looked at again after a flush: what a thread does that has written behind
\* its buffer is undefined, and left out.
db_bulk_insert_next(t, len) ==
    LET b == bulk[t]
        n == table[t]
        full == Needs(b, len) > BufLen
        r == RowOfLoop(t)
    IN  /\ bulkPc[t] = "rows"
        /\ row[t] < TableSize
        /\ \E o \in IF full /\ b.cnt > 0 THEN db_bulk_do_insert(b, server[n], FALSE)
                    ELSE {[rc |-> IF full THEN 1 ELSE 0, b |-> b, s |-> server[n]]} :
              /\ server' = [server EXCEPT ![n] = o.s]
              /\ IF o.rc # 0
                 THEN /\ bulk' = [bulk EXCEPT ![t] = o.b]
                      /\ bulkPc' = [bulkPc EXCEPT ![t] = "failed"]
                      /\ UNCHANGED row
                 ELSE /\ bulk' = [bulk EXCEPT ![t] = Append1(o.b, r, len)]
                      /\ row' = [row EXCEPT ![t] = r]
                      /\ bulkPc' = [bulkPc EXCEPT ![t] = IF bulk'[t].ptr + 1 > BufLen THEN "overrun" ELSE @]
        /\ UNCHANGED table

CreateIndex(s) == [s EXCEPT !.indexed = TRUE]

\* The last flush, and the secondary index that the script then creates.
db_bulk_insert_done(t) ==
    LET n == table[t] IN
    /\ bulkPc[t] = "rows"
    /\ row[t] = TableSize
    /\ \E o \in db_bulk_do_insert(bulk[t], server[n], TRUE) :
          IF o.rc # 0
          THEN /\ server' = [server EXCEPT ![n] = o.s]
               /\ bulk' = [bulk EXCEPT ![t] = o.b]
               /\ bulkPc' = [bulkPc EXCEPT ![t] = "failed"]
          ELSE /\ server' = [server EXCEPT ![n] = CreateIndex(o.s)]
               /\ bulk' = [bulk EXCEPT ![t] = [o.b EXCEPT !.buffer = FALSE]]
               /\ bulkPc' = [bulkPc EXCEPT ![t] = "tables"]
    /\ UNCHANGED <<table, row>>

BulkNext == \E t \in Tids : \/ create_table(t)
                            \/ TablesDone(t)
                            \/ \E len \in RowLens : db_bulk_insert_next(t, len)
                            \/ db_bulk_insert_done(t)

BulkSpec == BulkInitial /\ [][BulkNext]_bulkVars

BulkFairSpec == BulkSpec /\ \A t \in Tids : WF_bulkVars(create_table(t) \/ TablesDone(t)
                                                    \/ db_bulk_insert_done(t)
                                                    \/ \E len \in RowLens : db_bulk_insert_next(t, len))

-----------------------------------------------------------------------------

AllRows == [i \in 1..TableSize |-> i]

BulkTypeOK ==
    /\ bulkPc \in [Tids -> {"tables", "rows", "failed", "overrun", "end"}]
    /\ \A t \in Tids : /\ table[t] \in 0..Tables
                       /\ row[t] \in 0..TableSize
                       /\ bulk[t].cnt = Len(bulk[t].rows)

\* When every thread has finished, every table was created once, by one thread,
\* holds every row exactly once and in order, durably, and has its index
\* (cmd_prepare's division of the tables, the flushes at a full buffer and the
\* commit of the last, partial batch).
TablesComplete ==
    (\A t \in Tids : bulkPc[t] = "end") =>
        \A n \in 1..Tables : /\ server[n].made = 1
                             /\ server[n].committed = AllRows
                             /\ server[n].open = << >>
                             /\ server[n].indexed

\* A thread that stops half-way leaves a prefix of the rows in the table: no row
\* is missing from the middle, and none is there twice.
PrefixOnly ==
    \A n \in 1..Tables :
        IsPrefix(server[n].committed \o server[n].open, AllRows)

\* "Reserve space for '\0' and ',' (if not the first chunk in a bulk insert"
\* (db_driver.c:992-995): the room is enough, whatever flushes, failures and
\* lengths came before, for every row that would fit an empty buffer; a longer
\* one is refused as a first row and passes only right after a flush.
Fits(len) == QueryLen + len + 1 <= BufLen
OnlyLongRowsPass ==
    \A t \in Tids : bulkPc[t] = "overrun" =>
        bulk[t].cnt = 1 /\ ~Fits(bulk[t].ptr - QueryLen)

-----------------------------------------------------------------------------
(***************************************************************************)
(* Starting the database layer: every worker thread calls db_create and    *)
(* connects (db_driver.c, with the parts of drv_mysql.c they call), and    *)
(* the main thread ends it with db_done once the workers are joined, while *)
(* a report thread may ask whether there are database statistics.  The     *)
(* list of hosts (of ports, of sockets) is a ring whose item 0 is its      *)
(* head.                                                                   *)
(***************************************************************************)

CONSTANTS
    CreateThreads,                \* the worker threads
    Hosts, Ports, Sockets,  \* how many of each --mysql-host etc. names
    Debug,                  \* --db-debug
    OptionsOK,              \* --db-ps-mode is valid
    InitMayFail             \* mysql_drv_init may refuse its options

ASSUME PoolAssumption == Hosts \in Nat \ {0} /\ Ports \in Nat \ {0} /\ Sockets \in Nat

VARIABLES
    createPc,                     \* per thread, and "main" and "report"
    once,                   \* pthread_once: "new" | "running" | "done"
    global,                 \* db_global_initialized
    timers,                 \* exec_timers and fetch_timers are allocated
    enabled,                \* stats_enabled
    createLock,                   \* holder of drv->mutex, or "free"
    initialized,            \* drv->initialized
    inits,                  \* ghost: successful calls of drv->ops.init
    library,                \* ghost: the client library is usable
    pos,                    \* hosts_pos, ports_pos, sockets_pos
    conns                   \* ghost: the address of each connection, in order

createVars == <<createPc, once, global, timers, enabled, createLock, initialized, inits, library,
          pos, conns>>

Everyone == CreateThreads \cup {"main", "report"}

CreateInit ==
    /\ createPc = [t \in Everyone |-> IF t \in CreateThreads THEN "once"
                                ELSE IF t = "main" THEN "join" ELSE "idle"]
    /\ once = "new"
    /\ global = FALSE
    /\ timers = FALSE
    /\ enabled = FALSE
    /\ createLock = "free"
    /\ initialized = FALSE
    /\ inits = 0
    /\ library = FALSE
    /\ pos = [host |-> 1, port |-> 1, socket |-> 0]
    /\ conns = << >>

CreateGoto(t, l) == createPc' = [createPc EXCEPT ![t] = l]

-----------------------------------------------------------------------------
(* db_create.                                                              *)

\* pthread_once: one thread runs db_init, the others wait until it returns.
OnceStart(t) == /\ createPc[t] = "once" /\ once = "new"
                /\ once' = "running"
                /\ CreateGoto(t, "db_init")
                /\ UNCHANGED <<global, timers, enabled, createLock, initialized, inits, library, pos, conns>>

OncePast(t) == /\ createPc[t] = "once" /\ once = "done"
               /\ CreateGoto(t, IF global THEN "lock" ELSE "failed")
               /\ UNCHANGED <<once, global, timers, enabled, createLock, initialized, inits, library, pos, conns>>

\* db_init: the options, the timers, then the statistics and the flag.
TimersNow == Debug /\ OptionsOK

ParseOptions(t) ==
    /\ createPc[t] = "db_init"
    /\ timers' = TimersNow
    /\ once' = IF OptionsOK THEN once ELSE "done"
    /\ CreateGoto(t, IF OptionsOK THEN "enable" ELSE "failed")
    /\ UNCHANGED <<global, enabled, createLock, initialized, inits, library, pos, conns>>

enable_print_stats(t) ==
    /\ createPc[t] = "enable"
    /\ enabled' = TRUE
    /\ CreateGoto(t, "global")
    /\ UNCHANGED <<once, global, timers, createLock, initialized, inits, library, pos, conns>>

InitReturns(t) ==
    /\ createPc[t] = "global"
    /\ global' = TRUE
    /\ once' = "done"
    /\ CreateGoto(t, "lock")
    /\ UNCHANGED <<timers, enabled, createLock, initialized, inits, library, pos, conns>>

TakeLock(t) == createLock = "free" /\ createLock' = t

CreateLock(t) == /\ createPc[t] = "lock"
                 /\ TakeLock(t)
                 /\ CreateGoto(t, "init")
                 /\ UNCHANGED <<once, global, timers, enabled, initialized, inits, library, pos, conns>>

NeedsInit == ~initialized

\* drv->ops.init() reads the options and rewinds the lists of addresses.
DrvInit(t) ==
    /\ createPc[t] = "init"
    /\ IF NeedsInit
       THEN \/ /\ inits' = inits + 1
               /\ pos' = [host |-> 1, port |-> 1, socket |-> 0]
               /\ library' = TRUE
               /\ CreateGoto(t, "initialized")
            \/ /\ InitMayFail
               /\ CreateGoto(t, "init_failed")
               /\ UNCHANGED <<inits, pos, library>>
       ELSE CreateGoto(t, "unlock") /\ UNCHANGED <<inits, pos, library>>
    /\ UNCHANGED <<once, global, timers, enabled, createLock, initialized, conns>>

DrvInitialized(t) ==
    /\ createPc[t] = "initialized"
    /\ initialized' = TRUE
    /\ CreateGoto(t, "unlock")
    /\ UNCHANGED <<once, global, timers, enabled, createLock, inits, library, pos, conns>>

Released == "free"

Unlock(t) ==
    /\ createPc[t] \in {"unlock", "init_failed"}
    /\ createLock' = Released
    /\ CreateGoto(t, IF createPc[t] = "unlock" THEN "connect" ELSE "failed")
    /\ UNCHANGED <<once, global, timers, enabled, initialized, inits, library, pos, conns>>

-----------------------------------------------------------------------------
(* mysql_drv_connect, whose choice of an address is one critical section.  *)

NextItem(i, n) == IF i = n THEN 0 ELSE i + 1
SkipHead(i, n) == IF NextItem(i, n) = 0 THEN 1 ELSE NextItem(i, n)

NextPort(p) == [p EXCEPT !.port = SkipHead(@, Ports),
                         !.host = IF NextItem(p.port, Ports) = 0 THEN SkipHead(@, Hosts) ELSE @]

mysql_drv_connect(t) ==
    /\ createPc[t] = "connect"
    /\ IF Sockets = 0
       THEN /\ conns' = Append(conns, <<pos.host, pos.port>>)
            /\ pos' = NextPort(pos)
       ELSE LET n == SkipHead(pos.socket, Sockets) IN
            /\ conns' = Append(conns, <<n>>)
            /\ pos' = [pos EXCEPT !.socket = n]
    /\ CreateGoto(t, "end")
    /\ UNCHANGED <<once, global, timers, enabled, createLock, initialized, inits, library>>

-----------------------------------------------------------------------------
(* The report thread (check_print_stats, then the statistics) and db_done. *)

check_print_stats ==
    /\ createPc["report"] = "idle"
    /\ createPc["main"] = "join"                 \* it is cancelled later
    /\ enabled
    /\ CreateGoto("report", "sql")
    /\ UNCHANGED <<once, global, timers, enabled, createLock, initialized, inits, library, pos, conns>>

db_report == /\ createPc["report"] = "sql"
             /\ CreateGoto("report", "idle")
             /\ UNCHANGED <<once, global, timers, enabled, createLock, initialized, inits, library, pos, conns>>

Join == /\ createPc["main"] = "join"
        /\ \A t \in CreateThreads : createPc[t] \in {"end", "failed"}
        /\ CreateGoto("main", "cancel")
        /\ UNCHANGED <<once, global, timers, enabled, createLock, initialized, inits, library, pos, conns>>

\* The report thread is cancelled while it sleeps, and joined.
Cancel == /\ createPc["main"] = "cancel" /\ createPc["report"] = "idle"
          /\ CreateGoto("main", "db_done")
          /\ UNCHANGED <<once, global, timers, enabled, createLock, initialized, inits, library, pos, conns>>

db_done ==
    /\ createPc["main"] = "db_done"
    /\ CreateGoto("main", "end")
    /\ IF global
       THEN /\ enabled' = FALSE
            /\ timers' = (timers /\ ~Debug)
            /\ library' = (library /\ ~initialized)
       ELSE UNCHANGED <<enabled, timers, library>>
    /\ UNCHANGED <<once, global, createLock, initialized, inits, pos, conns>>

Worker(t) == \/ OnceStart(t) \/ OncePast(t) \/ ParseOptions(t)
             \/ enable_print_stats(t) \/ InitReturns(t)
             \/ DrvInit(t) \/ DrvInitialized(t) \/ Unlock(t) \/ mysql_drv_connect(t)

CreateNext == \/ \E t \in CreateThreads : Worker(t) \/ CreateLock(t)
              \/ check_print_stats \/ db_report \/ Join \/ Cancel \/ db_done

CreateSpec == /\ CreateInit
              /\ [][CreateNext]_createVars
              /\ \A t \in CreateThreads : WF_createVars(Worker(t)) /\ SF_createVars(CreateLock(t))
              /\ WF_createVars(Join) /\ WF_createVars(Cancel) /\ WF_createVars(db_done) /\ WF_createVars(db_report)

-----------------------------------------------------------------------------

CreateTypeOK ==
    /\ once \in {"new", "running", "done"}
    /\ createLock \in CreateThreads \cup {"free"}
    /\ pos.host \in 1..Hosts /\ pos.port \in 1..Ports /\ pos.socket \in 0..Sockets
    /\ Len(conns) <= Cardinality(CreateThreads)

\* The driver is initialized once, and no thread connects or goes past db_create
\* before that is complete (pthread_once and drv->mutex).
InitializedOnce ==
    /\ inits <= 1
    /\ \A t \in CreateThreads : createPc[t] \in {"connect", "end"} => inits = 1 /\ initialized

\* The connections are spread evenly over every host and port, or socket: the
\* numbers of connections of two addresses differ by at most one.
Addresses == IF Sockets = 0 THEN (1..Hosts) \X (1..Ports)
                            ELSE { <<n>> : n \in 1..Sockets }
Connections(a) == Cardinality({ i \in DOMAIN conns : conns[i] = a })
SpreadEvenly == \A a, b \in Addresses : Connections(a) <= Connections(b) + 1

\* A report that prints database statistics finds the timers it merges, even
\* when it runs while another thread is still inside db_init.
ReportHasTimers == createPc["report"] = "sql" /\ Debug => timers

-----------------------------------------------------------------------------
(***************************************************************************)
(* A worker thread of the OLTP scripts: the event loop that restarts an    *)
(* event after an error that may be ignored (sysbench.lua), what the SQL   *)
(* API makes of an error (sysbench.sql.lua), and the transaction, the      *)
(* prepared statements and the reconnects of the script (oltp_common.lua,  *)
(* oltp_read_write.lua).  A statement is prepared in one session of the    *)
(* server and dies with it.                                                *)
(***************************************************************************)

CONSTANTS
    Event,                  \* the statements of one event, in order
    Writes,                 \* those of them that change rows
    ReconnectEvery,         \* --reconnect
    Failures,               \* kinds of error the server may answer with
    OltpIgnored,                \* --mysql-ignore-errors
    OltpMaxEvents, MaxErrors    \* bounds

VARIABLES
    oltpPc,                     \* "more" | "event" | "hook" | "check" | "failed" | "done"
    step,                   \* statements of the event done in this attempt
    stmt,                   \* the session each statement was prepared in, 0: closed
    transactions,           \* the script's counter
    session,                \* the server's session of this connection
    work,                   \* ghost: rows changed by the open transaction
    left_over,              \* ghost: the open transaction has work of an attempt given up
    batches,                \* ghost: what each transaction committed, and whether that was left over
    stopped,                \* events counted by sb_event_stop
    error,                  \* the error the restart hook is told
    stale,                  \* ghost: a statement of an older session was executed
    errors

oltpVars == <<oltpPc, step, stmt, transactions, session, work, left_over, batches, stopped, error,
          stale, errors>>

Statements == Range(Event)
Lost == {"lost", "gone", "tcp"}         \* errors after which the driver reconnects

OltpInit ==
    /\ oltpPc = "more"
    /\ step = 0
    /\ session = 1
    /\ stmt = [k \in Statements |-> 1]  \* thread_init has prepared them
    /\ transactions = 0
    /\ work = {}
    /\ left_over = FALSE
    /\ batches = << >>
    /\ stopped = 0
    /\ error = "none"
    /\ stale = FALSE
    /\ errors = 0

-----------------------------------------------------------------------------
(* thread_run.                                                             *)

sb_more_events ==
    /\ oltpPc = "more"
    /\ oltpPc' = IF stopped < OltpMaxEvents THEN "event" ELSE "done"
    /\ step' = 0
    /\ UNCHANGED <<stmt, transactions, session, work, left_over, batches, stopped, error, stale, errors>>

-----------------------------------------------------------------------------
(* One statement of the event: the server's answers, and check_error.      *)

\* BEGIN commits what an open transaction has done, COMMIT ends it.
Batch == [rows |-> work, left_over |-> left_over]
Effect(k) ==
    CASE k = "begin" -> /\ work' = {} /\ left_over' = FALSE
                        /\ batches' = IF work = {} THEN batches ELSE Append(batches, Batch)
      [] k = "commit" -> /\ batches' = Append(batches, Batch)
                         /\ work' = {} /\ left_over' = FALSE
      [] k \in Writes -> /\ work' = work \cup {k}
                         /\ UNCHANGED <<left_over, batches>>
      [] OTHER -> UNCHANGED <<work, left_over, batches>>

ExecuteOK ==
    LET k == Event[step + 1] IN
    /\ oltpPc = "event"
    /\ step < Len(Event)
    /\ Effect(k)
    /\ stale' = (stale \/ stmt[k] # session)
    /\ step' = step + 1
    /\ UNCHANGED <<oltpPc, stmt, transactions, session, stopped, error, errors>>

\* What the server undoes when a statement fails: everything, but only the
\* statement after a lock timeout.
RolledBack(e) == e # "lock_timeout"

\* An ignored error restarts the event after the hook of the script, any other
\* one ends the thread.
Restarts(e) == e \in OltpIgnored

ExecuteFails(e) ==
    /\ oltpPc = "event"
    /\ step < Len(Event)
    /\ errors < MaxErrors
    /\ errors' = errors + 1
    /\ work' = IF RolledBack(e) THEN {} ELSE work
    /\ left_over' = (work' # {})
    /\ \/ UNCHANGED batches
       \/ e \in Lost /\ Event[step + 1] = "commit" /\ batches' = Append(batches, Batch)
    /\ session' = IF e \in Lost /\ Restarts(e) THEN session + 1 ELSE session
    /\ stale' = (stale \/ stmt[Event[step + 1]] # session)
    /\ error' = e
    /\ oltpPc' = IF Restarts(e) THEN "hook" ELSE "failed"
    /\ UNCHANGED <<step, stmt, transactions, stopped>>

-----------------------------------------------------------------------------
(* The restart hook, and the reconnect after every N events.               *)

ListsLostOnly(e) == e = "lost"
Reprepares(e) == e \in Lost

CloseStatements == [k \in Statements |-> 0]

\* close_statements, then prepare_statements, in the session of the connection.
Reprepared == [k \in Statements |-> session]

\* The loop of thread_run calls event() again, from its first statement, within
\* the same sb_event_start and sb_event_stop.
RestartAt == 0
AfterHook == "event"
CountedEvents == stopped

before_restart_event ==
    /\ oltpPc = "hook"
    /\ stmt' = IF Reprepares(error) THEN Reprepared ELSE stmt
    /\ step' = RestartAt
    /\ stopped' = CountedEvents
    /\ oltpPc' = AfterHook
    /\ UNCHANGED <<transactions, session, work, left_over, batches, error, stale, errors>>

\* A prepare that fails inside the hook is caught by nobody.
HookFails ==
    /\ oltpPc = "hook"
    /\ Reprepares(error)
    /\ errors < MaxErrors
    /\ errors' = errors + 1
    /\ stmt' = CloseStatements
    /\ oltpPc' = "failed"
    /\ UNCHANGED <<step, transactions, session, work, left_over, batches, stopped, error, stale>>

ReconnectNow(n) == ReconnectEvery > 0 /\ n % ReconnectEvery = 0

\* The end of event(): check_reconnect and, without an error, sb_event_stop.
check_reconnect ==
    LET n == IF ReconnectEvery > 0 THEN transactions + 1 ELSE transactions
        again == ReconnectNow(n)
    IN  /\ oltpPc = "event"
        /\ step = Len(Event)
        /\ transactions' = n
        /\ session' = IF again THEN session + 1 ELSE session
        /\ stmt' = IF again THEN [k \in Statements |-> session'] ELSE stmt
        /\ work' = IF again THEN {} ELSE work
        /\ left_over' = (left_over /\ ~again)
        /\ stopped' = stopped + 1
        /\ oltpPc' = "more"
        /\ UNCHANGED <<step, batches, error, stale, errors>>

\* con:reconnect() or a prepare after it fails: the assertion ends the thread.
ReconnectFails ==
    /\ oltpPc = "event"
    /\ step = Len(Event)
    /\ ReconnectNow(transactions + 1)
    /\ errors < MaxErrors
    /\ errors' = errors + 1
    /\ transactions' = transactions + 1
    /\ stmt' = CloseStatements
    /\ work' = {} /\ left_over' = FALSE
    /\ oltpPc' = "failed"
    /\ UNCHANGED <<step, session, batches, stopped, error, stale>>

OltpNext == \/ sb_more_events
            \/ ExecuteOK
            \/ \E e \in Failures : ExecuteFails(e)
            \/ before_restart_event \/ HookFails
            \/ check_reconnect \/ ReconnectFails

OltpSpec == OltpInit /\ [][OltpNext]_oltpVars /\ WF_oltpVars(OltpNext)

-----------------------------------------------------------------------------

OltpTypeOK ==
    /\ oltpPc \in {"more", "event", "hook", "failed", "done"}
    /\ step \in 0..Len(Event)
    /\ stmt \in [Statements -> 0..session]
    /\ work \subseteq Writes
    /\ stopped \in 0..OltpMaxEvents

\* No statement is executed in a session other than the one it was prepared in,
\* however often the connection is lost or renewed (the error numbers of the
\* restart hook have to be those after which the driver reconnects).
StatementsFresh == ~stale

\* Nothing of an attempt that was given up reaches the database, after a
\* deadlock or a lost connection in whatever statement: every transaction that
\* commits is a whole event, but for what a lock timeout left, which the BEGIN
\* of the restarted event commits.
WholeEvents == \A i \in DOMAIN batches : ~batches[i].left_over => batches[i].rows = Writes

\* No event is counted that did not commit.  One that committed may be repeated
\* when the answer to its COMMIT is lost, and is then counted once.
CountedAreCommitted ==
    stopped <= Cardinality({i \in DOMAIN batches : ~batches[i].left_over})

\* The thread ends when the errors do: it runs all its events or fails (an
\* error that is ignored for ever restarts the event for ever).
ThreadEnds == <>(oltpPc \in {"done", "failed"})
=============================================================================
