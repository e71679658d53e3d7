------------------------------ MODULE DbDriver ------------------------------
(***************************************************************************)
(* The database-independent layer of sysbench (db_driver.c): one           *)
(* connection, its result set and its prepared statements, under every     *)
(* sequence of calls a script can make.  The operations of a driver are    *)
(* parameters: each maps a connection to the set of [rc, s] it may return  *)
(* with.  A connection is one record:                                      *)
(*   state, error           db_conn_t's fields                             *)
(*   counter, nrows, nfields, statement, ptr, values, row   its db_result_t*)
(*   stmt                   the db_stmt_t of every handle                  *)
(*   cnt                    this thread's statistics                       *)
(*   lib                    what the client library and the server keep    *)
(*   got                    what the server really answered (ghost)        *)
(***************************************************************************)
EXTENDS Integers, FiniteSets

CONSTANTS
    Stmts,                  \* statement handles
    NoStmt,                 \* the null statement
    MaxCalls,               \* bound on the calls of a script
    Lib,                    \* the client library once connected
    Prepare(_, _), BindParam(_, _), Execute(_, _), Query(_),
    HasNextResult, NextResult(_), StmtNextResult(_, _), MoreResults(_),
    FetchRow(_), FreeResults(_), Close(_, _), Reconnect(_), Disconnect(_)

VARIABLES con, calls

vars == <<con, calls>>

Kinds == {"read", "write", "other"}
Counters == Kinds \cup {"error", "reconnect"}
Errors == {"none", "ignorable", "fatal"}

NoHandle == [open |-> FALSE, emulated |-> FALSE, ptr |-> FALSE,
             attached |-> FALSE, prepared |-> FALSE, bound |-> FALSE]

db_connection_create ==
    [state |-> "ready", error |-> "none", counter |-> "other",
     nrows |-> 0, nfields |-> 0, statement |-> NoStmt, ptr |-> FALSE, values |-> 0, row |-> 0,
     stmt |-> [p \in Stmts |-> NoHandle],
     cnt |-> [k \in Counters |-> 0],
     lib |-> Lib,
     got |-> [k \in Kinds \cup {"fail", "link", "odd"} |-> 0]]

Return(rc, s) == [rc |-> rc, s |-> s]

-----------------------------------------------------------------------------
(* Helpers of the layer.                                                   *)

\* Mutants: the row keeps its array; the connection stays in its old state.
Forget(s) == [s EXCEPT !.values = 0, !.nrows = 0, !.nfields = 0,
                       !.statement = NoStmt, !.state = "ready"]

db_free_results_int(s) == { Return(r.rc, Forget(r.s)) : r \in FreeResults(s) }

\* Every call that uses the connection first frees the result set it holds.
Ready(s) == IF s.state = "result_set" THEN db_free_results_int(s)
                                      ELSE {Return(0, s)}

\* What db_query, db_execute and the next-result calls do with the answer.
CountAlways(r) == [r.s EXCEPT !.error = r.rc, !.cnt[r.s.counter] = @ + 1]
Account(r) == CountAlways(r)

SetOnSuccess(r, s) == IF r.rc # "none" THEN s ELSE
                      [s EXCEPT !.state = IF s.counter = "read" THEN "result_set"
                                                                ELSE "ready"]
NewState(r, s) == SetOnSuccess(r, s)

Answer(r) == NewState(r, Account(r))

-----------------------------------------------------------------------------
(* The calls of the API.                                                   *)

Call(outcomes) == /\ calls < MaxCalls
                  /\ calls' = calls + 1
                  /\ con' \in outcomes

Usable == con.state # "invalid"

db_query == Call(
    IF ~Usable THEN {[con EXCEPT !.error = "fatal"]}
    ELSE UNION { IF f.rc # 0 THEN {[f.s EXCEPT !.error = "fatal"]}
                 ELSE { Answer(r) : r \in Query(f.s) } : f \in Ready(con) })

db_next_result == Call(
    IF ~Usable THEN {[con EXCEPT !.error = "fatal"]}
    ELSE UNION { IF f.rc # 0 THEN {[f.s EXCEPT !.error = "fatal"]}
                 ELSE IF ~HasNextResult THEN {[f.s EXCEPT !.error = "none"]}
                 ELSE { Answer(r) : r \in NextResult(f.s) } : f \in Ready(con) })

db_execute(p) ==
    /\ con.stmt[p].open
    /\ con.stmt[p].bound                  \* the scripts bind before they execute
    /\ Usable
    /\ Call(UNION { IF f.rc # 0 THEN {f.s}
                    ELSE { Answer(r) : r \in Execute([f.s EXCEPT !.statement = p], p) }
                    : f \in Ready(con) })

db_stmt_next_result(p) ==
    /\ con.stmt[p].open
    /\ Usable
    /\ Call(UNION { IF f.rc # 0 THEN {f.s}
                    ELSE LET s == [f.s EXCEPT !.statement = p] IN
                         IF ~HasNextResult THEN {[s EXCEPT !.error = "none"]}
                         ELSE { Answer(r) : r \in StmtNextResult(s, p) }
                    : f \in Ready(con) })

db_prepare(p) ==
    /\ ~con.stmt[p].open
    /\ Usable
    /\ Call({ IF r.rc # 0 THEN [r.s EXCEPT !.error = "fatal"]
              ELSE [r.s EXCEPT !.stmt[p].open = TRUE] : r \in Prepare(con, p) })

db_bind_param(p) ==
    /\ con.stmt[p].open
    /\ Usable
    /\ Call({ r.s : r \in BindParam(con, p) })

\* A closed connection leaves the statement allocated: nothing changes.
db_close(p) ==
    /\ con.stmt[p].open
    /\ Usable
    /\ Call(UNION { IF f.rc # 0 THEN {f.s}
                    ELSE { [r.s EXCEPT !.stmt[p] = NoHandle] : r \in Close(f.s, p) }
                    : f \in Ready(con) })

\* The row array is made for the fields of this result and kept until it is freed.
db_fetch_row ==
    /\ con.state = "result_set"
    /\ con.nrows > 0 /\ con.nfields > 0
    /\ con.ptr                            \* results of queries, not of statements
    /\ Call({FetchRow([con EXCEPT !.values = IF @ = 0 THEN con.nfields ELSE @])})

db_free_results ==
    /\ con.state = "result_set"
    /\ Call({ r.s : r \in db_free_results_int(con) })

db_connection_reconnect ==
    /\ Usable
    /\ Call(UNION { { IF r.rc = "fatal"
                      THEN [r.s EXCEPT !.state = "invalid", !.cnt["error"] = @ + 1]
                      ELSE [r.s EXCEPT !.state = "ready", !.cnt["reconnect"] = @ + 1]
                      : r \in Reconnect(f.s) } : f \in Ready(con) })

db_connection_close ==
    /\ Usable
    /\ Call({ [Disconnect(f.s) EXCEPT !.state = "invalid"] : f \in Ready(con) })

\* What db_more_results tells the script.
db_more_results == con.state = "result_set" /\ MoreResults(con)

Init == con = db_connection_create /\ calls = 0

Next == \/ db_query \/ db_next_result
        \/ db_fetch_row \/ db_free_results
        \/ db_connection_reconnect \/ db_connection_close
        \/ \E p \in Stmts : \/ db_prepare(p) \/ db_bind_param(p) \/ db_execute(p)
                            \/ db_stmt_next_result(p) \/ db_close(p)

Spec == Init /\ [][Next]_vars

-----------------------------------------------------------------------------
(* What the layer promises, whatever the driver.                           *)

TypeOK ==
    /\ con.state \in {"ready", "result_set", "invalid"}
    /\ con.error \in Errors
    /\ con.counter \in Counters
    /\ con.statement \in Stmts \cup {NoStmt}
    /\ con.ptr \in BOOLEAN
    /\ con.cnt \in [Counters -> Nat]
    /\ con.stmt \in [Stmts -> [open : BOOLEAN, emulated : BOOLEAN, ptr : BOOLEAN,
                               attached : BOOLEAN, prepared : BOOLEAN, bound : BOOLEAN]]
    /\ calls \in 0..MaxCalls

\* The statistics are what the server did: every answer is counted once under
\* its kind, and every failed command as an error or as a reconnect (db_query,
\* db_execute and the next-result calls count rs->counter, which several
\* functions of the driver set on several paths).
StatisticsExact ==
    /\ \A k \in Kinds : con.cnt[k] = con.got[k]
    /\ con.cnt["error"] + con.cnt["reconnect"] = con.got["fail"] + con.got["link"]

\* A row array exists only while its result set does and has its width
\* (db_fetch_row allocates it once per result set and the driver fills it).
RowFitsResult ==
    con.values # 0 => con.state = "result_set" /\ con.values = con.nfields

\* A driver's result handle is only held in the state in which some later call
\* frees it.
HandleWillBeFreed == con.ptr => con.state = "result_set"
=============================================================================
