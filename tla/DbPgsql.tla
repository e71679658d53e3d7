------------------------------ MODULE DbPgsql -------------------------------
(***************************************************************************)
(* The PostgreSQL driver (drv_pgsql.c) under the database layer            *)
(* (DbDriver).  lib.res counts the PGresult objects that are allocated,    *)
(* lib.wild says that a parameter was written through a null array.  A     *)
(* statement is `prepared' in the driver's eyes, `attached' when the       *)
(* server's session knows it.                                              *)
(***************************************************************************)
EXTENDS Integers

CONSTANTS Stmts, NoStmt, MaxCalls, UsePs

VARIABLES con, calls

Lib == [res |-> 0, wild |-> FALSE]

Return(rc, s) == [rc |-> rc, s |-> s]
Failed(s) == [s EXCEPT !.nrows = 0, !.counter = "error", !.got["fail"] = @ + 1]

-----------------------------------------------------------------------------

\* The PGresult of a command is cleared here: the layer frees only result sets.
ClearCommand(s) == s

\* pgsql_check_status, for every status the server may answer with, and the
\* assignment to rs->ptr that follows it.
Tuples(s) == { Return("none", [s EXCEPT !.nrows = n, !.nfields = f, !.counter = "read",
                                        !.ptr = TRUE, !.lib.res = @ + 1,
                                        !.got["read"] = @ + 1])
               : n \in 0..2, f \in 1..2 }
KindOfCommand(n) == IF n > 0 THEN "write" ELSE "other"
Command(s) == { Return("none", ClearCommand([s EXCEPT !.nrows = n, !.ptr = FALSE,
                                                      !.counter = KindOfCommand(n),
                                                      !.got[IF n > 0 THEN "write" ELSE "other"] = @ + 1]))
                : n \in 0..1 }
FatalError(s) == { Return("ignorable", [Failed(s) EXCEPT !.ptr = FALSE]),
                   Return("fatal", [Failed(s) EXCEPT !.ptr = FALSE]) }
\* Any other status: an error whose PGresult nobody clears.
OtherStatus(s) == { Return("fatal", [Failed(s) EXCEPT !.ptr = FALSE, !.lib.res = @ + 1,
                                                      !.got["odd"] = @ + 1]) }

pgsql_check_status(s) == Tuples(s) \cup Command(s) \cup FatalError(s) \cup OtherStatus(s)

pgsql_drv_query(s) == pgsql_check_status(s)

\* The parameters are copied into the arrays that bind_param allocates.
pgsql_drv_execute(s, p) ==
    IF s.stmt[p].emulated THEN pgsql_drv_query(s)
    ELSE IF ~s.stmt[p].prepared THEN {Return("fatal", [Failed(s) EXCEPT !.lib.wild = TRUE])}
    ELSE IF ~s.stmt[p].attached THEN FatalError(s)
    ELSE pgsql_check_status(s)

\* Without parameters PQprepare is called here, with parameters on the first bind.
pgsql_drv_prepare(s, p) ==
    IF ~UsePs THEN {Return(0, [s EXCEPT !.stmt[p].emulated = TRUE])}
    ELSE { Return(0, [s EXCEPT !.stmt[p].ptr = TRUE]),
           Return(0, [s EXCEPT !.stmt[p] = [@ EXCEPT !.ptr = TRUE, !.attached = TRUE,
                                                     !.prepared = TRUE, !.bound = TRUE]]),
           Return(1, s) }

pgsql_drv_bind_param(s, p) ==
    LET b == [s EXCEPT !.stmt[p].bound = TRUE] IN
    IF s.stmt[p].emulated \/ s.stmt[p].prepared THEN {Return(0, b)}
    ELSE { Return(0, [b EXCEPT !.stmt[p] = [@ EXCEPT !.attached = TRUE, !.prepared = TRUE]]),
           Return(1, b) }

ClearResult(s) == [s EXCEPT !.ptr = FALSE, !.lib.res = @ - 1, !.row = 0]

pgsql_drv_free_results(s) == IF s.ptr THEN {Return(0, ClearResult(s))} ELSE {Return(1, s)}

\* row->ptr is the number of the next row.
pgsql_drv_fetch_row(s) == IF s.row >= s.nrows THEN s ELSE [s EXCEPT !.row = @ + 1]

pgsql_drv_close(s, p) == {Return(IF s.stmt[p].ptr THEN 0 ELSE 1, s)}

pgsql_drv_disconnect(s) ==
    [s EXCEPT !.stmt = [p \in Stmts |-> [s.stmt[p] EXCEPT !.attached = FALSE]]]

pgsql_drv_reconnect(s) ==
    LET d == [pgsql_drv_disconnect(s) EXCEPT !.got["link"] = @ + 1]
    IN  { Return("ignorable", d), Return("fatal", d) }

NoOp(s) == {}
NoOpStmt(s, p) == {}
Never(s) == FALSE

-----------------------------------------------------------------------------

Db == INSTANCE DbDriver WITH
    Prepare <- pgsql_drv_prepare, BindParam <- pgsql_drv_bind_param,
    Execute <- pgsql_drv_execute, Query <- pgsql_drv_query,
    HasNextResult <- FALSE, NextResult <- NoOp, StmtNextResult <- NoOpStmt,
    MoreResults <- Never, FetchRow <- pgsql_drv_fetch_row,
    FreeResults <- pgsql_drv_free_results, Close <- pgsql_drv_close,
    Reconnect <- pgsql_drv_reconnect, Disconnect <- pgsql_drv_disconnect

vars == Db!vars
Init == Db!Init
Next == Db!Next
Spec == Init /\ [][Next]_vars

-----------------------------------------------------------------------------

TypeOK == Db!TypeOK /\ con.lib.res \in Nat /\ con.row \in Nat
StatisticsExact == Db!StatisticsExact

\* Every PGresult but those of an unexpected status is cleared exactly once:
\* the ones allocated are the one the connection holds and the unexpected ones.
ResultsCleared ==
    con.lib.res = (IF con.ptr THEN 1 ELSE 0) + con.got["odd"]

\* The state of the connection says whether there is a result to free, so
\* pgsql_drv_free_results never reports a failure to a call that is about to
\* use the connection.
ResultSetHasHandle == con.state = "result_set" <=> con.ptr

\* The rows of a result set are numbered from its first row: the number left
\* by one result set is never used for the next one (row->ptr).
RowsFromTheFirst ==
    /\ con.row <= con.nrows
    /\ con.state # "result_set" => con.row = 0

=============================================================================
