------------------------------ MODULE DbMysql -------------------------------
(***************************************************************************)
(* The MySQL driver (drv_mysql.c) under the database layer (DbDriver).     *)
(* lib.wire is what the server has answered and the client has not read    *)
(* yet, lib.res counts the MYSQL_RES objects that are allocated.           *)
(***************************************************************************)
EXTENDS Integers, Sequences

CONSTANTS
    Stmts, NoStmt, MaxCalls,
    UsePs,                  \* --db-ps-mode is not "disable"
    Ignored,                \* --mysql-ignore-errors
    MaxResults              \* bound on the results of one command

VARIABLES con, calls

Kinds == {"read", "write", "other"}
Lib == [up |-> TRUE, wire |-> << >>, res |-> 0]

Return(rc, s) == [rc |-> rc, s |-> s]

-----------------------------------------------------------------------------
(* The client library and the server.                                      *)

Replies == UNION { [1..n -> Kinds] : n \in 1..MaxResults }

\* mysql_close: the link goes, and every prepared statement loses its connection.
Hangup(s) == [s EXCEPT !.lib.up = FALSE, !.lib.wire = << >>,
                       !.stmt = [p \in Stmts |-> [s.stmt[p] EXCEPT !.attached = FALSE]]]

\* A command fails at once when an earlier answer is still unread.
Send(s) ==
    IF s.lib.wire # << >> THEN {Return("sync", s)}
    ELSE IF ~s.lib.up THEN {Return("lost", s)}
    ELSE { Return("", [s EXCEPT !.lib.wire = w]) : w \in Replies }
         \cup {Return("deadlock", s), Return("lost", [s EXCEPT !.lib.up = FALSE])}

-----------------------------------------------------------------------------
(* The driver.                                                             *)

mysql_drv_reconnect(s) ==
    LET h == Hangup(s) IN
    { Return("ignorable", [h EXCEPT !.lib.up = TRUE]), Return("fatal", h) }

Reconnect(s) ==
    { Return(r.rc, [r.s EXCEPT !.got["link"] = @ + 1]) : r \in mysql_drv_reconnect(s) }

check_error(s, e) ==
    LET f == [s EXCEPT !.got["fail"] = @ + 1] IN
    IF e \notin Ignored THEN {Return("fatal", [f EXCEPT !.counter = "error"])}
    ELSE IF e = "lost" THEN mysql_drv_reconnect([f EXCEPT !.counter = "reconnect"])
    ELSE {Return("ignorable", [f EXCEPT !.counter = "error"])}

\* mysql_store_result and what follows it; `stored' says whether the result is
\* an object of the driver or stays inside the statement.
RowsOfWrite(s) == [s EXCEPT !.nrows = 1, !.counter = "write"]
StoreResult(s, stored) ==
    LET k == Head(s.lib.wire)
        t == [s EXCEPT !.lib.wire = Tail(@), !.got[k] = @ + 1]
    IN  CASE k = "read" ->
               { Return("none", [t EXCEPT !.counter = "read", !.nrows = n, !.nfields = f,
                                          !.ptr = stored \/ @,
                                          !.lib.res = IF stored THEN @ + 1 ELSE @])
                 : n \in 0..1, f \in 1..2 }
          [] k = "write" -> {Return("none", RowsOfWrite(t))}
          [] k = "other" -> {Return("none", [t EXCEPT !.counter = "other"])}

Run(s, stored) ==
    UNION { IF c.rc # "" THEN check_error(c.s, c.rc) ELSE StoreResult(c.s, stored)
            : c \in Send(s) }

mysql_drv_query(s) == Run(s, TRUE)

mysql_drv_execute(s, p) ==
    IF s.stmt[p].emulated THEN mysql_drv_query(s)
    ELSE IF ~s.stmt[p].attached THEN check_error(s, "detached")
    ELSE Run(s, FALSE)

\* No more results (-1) counts as one "other" query.
Ended(s) == Return("none", [s EXCEPT !.counter = "other", !.got["other"] = @ + 1])

\* A mutant: a statement's result stays unread.
Advance(s, stored) ==
    IF s.lib.wire = << >> THEN {Ended(s)}
    ELSE StoreResult(s, stored)
         \cup check_error([s EXCEPT !.lib.up = FALSE, !.lib.wire = << >>], "lost")

mysql_drv_next_result(s) == Advance(s, TRUE)

mysql_drv_stmt_next_result(s, p) == Advance(s, s.stmt[p].emulated)

mysql_drv_more_results(s) == s.lib.wire # << >>

mysql_drv_prepare(s, p) ==
    LET ok == [s EXCEPT !.stmt[p] = [@ EXCEPT !.ptr = TRUE, !.attached = TRUE]]
        emulate(ptr) == [s EXCEPT !.stmt[p] = [@ EXCEPT !.ptr = ptr, !.emulated = TRUE]]
    IN  IF ~UsePs THEN {Return(0, emulate(FALSE))}
        ELSE (IF s.lib.up /\ s.lib.wire = << >>
              THEN {Return(0, ok), Return(0, emulate(TRUE))} ELSE {})
             \cup {Return(1, s)}

mysql_drv_bind_param(s, p) ==
    {Return(0, [s EXCEPT !.stmt[p].bound = TRUE])}

\* Is this a result set of a prepared statement?  The flag of a statement that
\* was closed is read from freed memory.
IsPrepared(s) == IF s.statement = NoStmt THEN {FALSE}
                 ELSE IF s.stmt[s.statement].open THEN {~s.stmt[s.statement].emulated}
                 ELSE BOOLEAN

FreePtr(s) == IF s.ptr THEN [s EXCEPT !.ptr = FALSE, !.lib.res = @ - 1] ELSE s

mysql_drv_free_results(s) ==
    { Return(0, IF prepared THEN [s EXCEPT !.ptr = FALSE] ELSE FreePtr(s))
      : prepared \in IsPrepared(s) }

mysql_drv_fetch_row(s) == s             \* the library keeps the position

mysql_drv_close(s, p) == {Return(IF s.stmt[p].ptr THEN 0 ELSE 1, s)}

mysql_drv_disconnect(s) == Hangup(s)

-----------------------------------------------------------------------------

Db == INSTANCE DbDriver WITH
    Prepare <- mysql_drv_prepare, BindParam <- mysql_drv_bind_param,
    Execute <- mysql_drv_execute, Query <- mysql_drv_query,
    HasNextResult <- TRUE, NextResult <- mysql_drv_next_result,
    StmtNextResult <- mysql_drv_stmt_next_result,
    MoreResults <- mysql_drv_more_results,
    FetchRow <- mysql_drv_fetch_row,
    FreeResults <- mysql_drv_free_results, Close <- mysql_drv_close,
    Reconnect <- Reconnect, Disconnect <- mysql_drv_disconnect

vars == <<con, calls>>
Init == Db!Init
Next == Db!Next
Spec == Init /\ [][Next]_vars

-----------------------------------------------------------------------------

TypeOK == /\ Db!TypeOK
          /\ con.lib.up \in BOOLEAN
          /\ Len(con.lib.wire) < MaxResults
          /\ con.lib.res \in Nat
StatisticsExact == Db!StatisticsExact
RowFitsResult == Db!RowFitsResult
HandleWillBeFreed == Db!HandleWillBeFreed

=============================================================================
