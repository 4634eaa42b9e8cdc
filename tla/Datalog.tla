------------------------------ MODULE Datalog ------------------------------
(***************************************************************************)
(* The log in a database: one table a day, made when the first record of   *)
(* the day is inserted, and a connection that is opened again when a query *)
(* finds it lost.                                                          *)
(*                                                                         *)
(* db_execute_nonquery opens the connection again and selects the database *)
(* by db_use_logdb, which is a call of db_execute_nonquery: each further   *)
(* loss goes one call deeper.  On the way back every call repeats its own  *)
(* query once, until one fails: then all the others fail with it.          *)
(*                                                                         *)
(* All of it is synchronous, in the one thread that also writes the error  *)
(* log (LogBuf); the caller goes on when write_log has returned.  The      *)
(* server, its client library and the network are external: a query may be *)
(* refused, and a connection lost before or after the query was executed.  *)
(***************************************************************************)
EXTENDS LogBuf, FiniteSetsExt

CONSTANTS
    Records,      \* the calls of db_insert_log
    Days,         \* bound: days the process runs, 1..Days
    ReconnectLen, \* length of the lines about reconnecting
    Lens,         \* lengths of the other lines of the log
    MaxLosses,    \* bound: connections that are lost
    MaxLines      \* bound: other lines

ASSUME DatalogAssumption ==
    /\ Days \in Nat \ {0}
    /\ ReconnectLen \in 1..(BufLen - 1)
    /\ Lens \subseteq Nat \ {0}
    /\ MaxLosses \in Nat
    /\ MaxLines \in Nat

VARIABLES
    made,     \* the database exists
    tables,   \* the days whose tables exist
    copies,   \* rows of each record in the table of each day
    today,
    conn,     \* the connection: "closed", "open", "lost" (which nobody has seen)
    using,    \* it has the database selected
    refused,  \* the last USE on it was refused (history)
    tb,       \* database.tb: the day of the table last made, 0 for none
    pc,       \* where the thread is: "open", "query", "connect", "retry",
              \* "failed" and "exit" at the start, "idle" outside
    stmt,     \* the query of the outermost db_execute_nonquery
    rec,      \* the record of db_insert_log
    depth,    \* calls of db_use_logdb that are pending below that
    dayOf,    \* the day each record was logged, 0 for not yet
    answer,   \* what db_insert_log has returned for it
    losses, lines   \* (bounds)

server == <<made, tables, copies>>
session == <<conn, using, refused, losses>>
call == <<tb, pc, stmt, rec, depth, answer>>
vars == <<logVars, server, session, call, today, dayOf, lines>>

\* The server may have the database and the table of an earlier process.
Init ==
    /\ LogInit
    /\ \/ made = FALSE /\ tables = {}
       \/ made = TRUE /\ tables \in {{}, {1}}
    /\ copies = [r \in Records |-> [d \in 1..Days |-> 0]]
    /\ today = 1
    /\ conn = "closed" /\ using = FALSE /\ refused = FALSE /\ losses = 0
    /\ tb = 0
    /\ pc = "open" /\ stmt = "createdb" /\ rec \in Records /\ depth = 0
    /\ dayOf = [r \in Records |-> 0]
    /\ answer = [r \in Records |-> "none"]
    /\ lines = 0

-----------------------------------------------------------------------------
(* mysql_real_query (external): 0 for success, "lost" for CR_SERVER_LOST.  *)

Legal(q) ==
    \/ q = "createdb"
    \/ q = "use" /\ made
    \/ q = "create" /\ using
    \/ q = "insert" /\ using /\ tb \in tables

Effect(q) ==
    /\ made' = (made \/ q = "createdb")
    /\ tables' = IF q = "create" THEN tables \union {dayOf[rec]} ELSE tables
    /\ copies' = IF q = "insert" THEN [copies EXCEPT ![rec][tb] = @ + 1] ELSE copies

Loses ==
    /\ conn = "open"
    /\ losses < MaxLosses
    /\ conn' = "lost"
    /\ using' = FALSE
    /\ losses' = losses + 1
    /\ UNCHANGED refused

RealQuery(q, res) ==
    \* executed
    \/ /\ res = "ok" /\ conn = "open" /\ Legal(q)
       /\ Effect(q)
       /\ using' = (using \/ q = "use")
       /\ refused' = (refused /\ q # "use")
       /\ UNCHANGED <<conn, losses>>
    \* refused
    \/ /\ res = "error" /\ conn = "open"
       /\ refused' = (refused \/ q = "use")
       /\ UNCHANGED <<server, conn, using, losses>>
    \* the connection breaks before or after that; the library does not always
    \* call it lost
    \/ /\ res \in {"lost", "error"} /\ Loses
       /\ \/ UNCHANGED server
          \/ Legal(q) /\ Effect(q)
    \* it was broken or closed before
    \/ /\ res \in {"lost", "error"} /\ conn # "open"
       /\ UNCHANGED <<server, session>>

Results == {"ok", "error", "lost"}

-----------------------------------------------------------------------------
(* What follows a statement.                                               *)

Answers(a) == answer' = [answer EXCEPT ![rec] = a] /\ pc' = "idle"

\* db_insert_log notes the table when it has been made, and inserts the record.
CreatedNoted(ok) ==      \* mutant: noted before it is made
    /\ tb' = dayOf[rec]
    /\ IF ok THEN pc' = "query" /\ stmt' = "insert" /\ UNCHANGED answer
             ELSE Answers("error") /\ UNCHANGED stmt
Created(ok) ==
    IF ok THEN tb' = dayOf[rec] /\ pc' = "query" /\ stmt' = "insert" /\ UNCHANGED answer
          ELSE Answers("error") /\ UNCHANGED <<tb, stmt>>

\* pxy_init_logdb makes the database and selects it.
Finish(ok) ==
    \/ /\ stmt = "createdb"
       /\ IF ok THEN pc' = "query" /\ stmt' = "use" ELSE pc' = "failed" /\ UNCHANGED stmt
       /\ UNCHANGED <<tb, answer>>
    \/ /\ stmt = "use"
       /\ pc' = IF ok THEN "idle" ELSE "failed"
       /\ UNCHANGED <<tb, stmt, answer>>
    \/ stmt = "create" /\ Created(ok)
    \/ /\ stmt = "insert"
       /\ Answers(IF ok THEN "ok" ELSE "error")
       /\ UNCHANGED <<tb, stmt>>

ReturnedDeep(res) ==     \* mutant: the outermost call repeats its query as well
    /\ UNCHANGED rec
    /\ IF res = "ok"
       THEN depth' = depth - 1 /\ pc' = "retry" /\ UNCHANGED <<tb, stmt, answer>>
       ELSE depth' = 0 /\ Finish(FALSE)
\* One db_execute_nonquery returns to the next: that repeats its query if the
\* USE has succeeded, and fails as well if not.
Returned(res) ==
    /\ UNCHANGED rec
    /\ IF depth > 0 /\ res = "ok"
       THEN depth' = depth - 1 /\ pc' = "retry" /\ UNCHANGED <<tb, stmt, answer>>
       ELSE depth' = 0 /\ Finish(res = "ok")

Elsewhere == UNCHANGED <<today, dayOf, lines>>

-----------------------------------------------------------------------------
(* db_execute_nonquery.                                                    *)

Top == IF depth > 0 THEN "use" ELSE stmt

At(where) == LogIdle /\ pc = where

\* Any error but a lost connection is returned.
ReconnectsAlways(res) == res # "ok"      \* mutant: if (result)
Reconnects(res) == res = "lost"

Query ==
    /\ At("query")
    /\ \E res \in Results :
          /\ RealQuery(Top, res)
          /\ IF Reconnects(res)
             THEN /\ WriteLog(ReconnectLen)
                  /\ pc' = "connect"
                  /\ UNCHANGED <<tb, stmt, rec, depth, answer>>
             ELSE Returned(res) /\ UNCHANGED logVars
    /\ Elsewhere

Opens(ok) ==
    /\ conn' = IF ok THEN "open" ELSE "closed"
    /\ using' = FALSE
    /\ refused' = FALSE
    /\ UNCHANGED <<server, losses>>

\* db_open_connection after a loss, then USE.
ConnectOnly ==                           \* mutant: no USE
    /\ At("connect")
    /\ WriteLog(ReconnectLen)
    /\ \/ Opens(TRUE) /\ pc' = "retry" /\ UNCHANGED <<tb, stmt, rec, depth, answer>>
       \/ Opens(FALSE) /\ Returned("error")
    /\ Elsewhere
Connect ==
    /\ At("connect")
    /\ WriteLog(ReconnectLen)
    /\ \/ Opens(TRUE) /\ depth' = depth + 1 /\ pc' = "query" /\ UNCHANGED <<tb, stmt, rec, answer>>
       \/ Opens(FALSE) /\ Returned("error")
    /\ Elsewhere

\* The query again, once: now every error is returned.
RetryAsQuery ==                          \* mutant: through db_execute_nonquery
    /\ At("retry")
    /\ pc' = "query"
    /\ UNCHANGED <<logVars, server, session, tb, stmt, rec, depth, answer>>
    /\ Elsewhere
Retry ==
    /\ At("retry")
    /\ \E res \in Results : RealQuery(Top, res) /\ Returned(res)
    /\ UNCHANGED logVars
    /\ Elsewhere

-----------------------------------------------------------------------------
(* pxy_init_logdb.                                                         *)

Open ==
    /\ At("open")
    /\ \/ Opens(TRUE) /\ pc' = "query"
       \/ Opens(FALSE) /\ pc' = "failed"
    /\ UNCHANGED <<logVars, tb, stmt, rec, depth, answer>>
    /\ Elsewhere

\* The lines that say so, taken as one; then main returns.
Fail ==
    /\ At("failed")
    /\ WriteLog(ReconnectLen)
    /\ pc' = "exit"
    /\ UNCHANGED <<server, session, tb, stmt, rec, depth, answer>>
    /\ Elsewhere

-----------------------------------------------------------------------------
(* db_insert_log.                                                          *)

MadeOnce(day) == tb # 0                  \* mutant: the table of the first day
Made(day) == tb = day

Insert(r) ==
    /\ At("idle")
    /\ dayOf[r] = 0
    /\ dayOf' = [dayOf EXCEPT ![r] = today]
    /\ rec' = r
    /\ stmt' = IF Made(today) THEN "insert" ELSE "create"
    /\ pc' = "query"
    /\ UNCHANGED <<logVars, server, session, tb, depth, answer, today, lines>>

\* A field is too long.
InsertTooLong(r) ==
    /\ At("idle")
    /\ dayOf[r] = 0
    /\ dayOf' = [dayOf EXCEPT ![r] = today]
    /\ answer' = [answer EXCEPT ![r] = "error"]
    /\ UNCHANGED <<logVars, server, session, tb, pc, stmt, rec, depth, today, lines>>

-----------------------------------------------------------------------------
(* The rest of the process, the network and the clock.                     *)

OtherLine ==
    /\ At("idle")
    /\ lines < MaxLines
    /\ lines' = lines + 1
    /\ \E len \in Lens : WriteLog(len)
    /\ UNCHANGED <<server, session, call, today, dayOf>>

Break ==
    /\ Loses
    /\ UNCHANGED <<logVars, server, call>>
    /\ Elsewhere

Midnight ==
    /\ today < Days
    /\ today' = today + 1
    /\ UNCHANGED <<logVars, server, session, call, dayOf, lines>>

-----------------------------------------------------------------------------
LogRuns == LogStep /\ UNCHANGED <<server, session, call>> /\ Elsewhere

\* What the thread does once it is in one of the functions.
Thread == LogRuns \/ Query \/ Connect \/ Retry \/ Open \/ Fail

Next ==
    \/ Thread
    \/ \E r \in Records : Insert(r) \/ InsertTooLong(r)
    \/ OtherLine
    \/ Break
    \/ Midnight

Spec == Init /\ [][Next]_vars

-----------------------------------------------------------------------------
(* Properties.                                                             *)

TypeOK ==
    /\ step \in {"idle", "room", "flush", "store", "after", "crashed"}
    /\ line.no \in 0..count /\ size \in Nat
    /\ made \in BOOLEAN /\ tables \subseteq 1..Days /\ today \in 1..Days
    /\ copies \in [Records -> [1..Days -> Nat]]
    /\ conn \in {"closed", "open", "lost"}
    /\ using \in BOOLEAN /\ (using => conn = "open" /\ made)
    /\ tb \in 0..Days
    /\ pc \in {"open", "query", "connect", "retry", "failed", "exit", "idle"}
    /\ stmt \in {"createdb", "use", "create", "insert"}
    /\ rec \in Records
    /\ depth \in Nat
    /\ dayOf \in [Records -> 0..Days]
    /\ answer \in [Records -> {"none", "ok", "error"}]

\* A record whose db_insert_log has returned 0 is in the table of its day, and
\* none is in the table of another, whatever was lost on the way and whenever
\* the day changed.
Reported ==
    \A r \in Records :
        /\ answer[r] = "ok" => copies[r][dayOf[r]] > 0
        /\ \A d \in 1..Days : copies[r][d] > 0 => d = dayOf[r]

\* The name of a table is kept only when it exists: later records of the day do
\* not make it again.
TableMade == tb # 0 => tb \in tables

\* A lost connection may put a record into its table again, but only one more
\* time, however often connections are lost, and never without a loss.
AtMostTwice ==
    \A r \in Records, d \in 1..Days :
        copies[r][d] <= 1 + Min({1, losses})

\* Between calls, and when a query is repeated, an open connection has the
\* database selected, unless the server has refused that: otherwise all
\* later records would be refused until the connection is lost again.
Selected == pc \in {"idle", "retry"} /\ conn = "open" => using \/ refused

\* The calls inside each other come to an end: there are at most as many as
\* connections were lost, and the one that found it lost first.
Nested == depth <= losses + 1
=============================================================================
