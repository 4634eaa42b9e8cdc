---------------------------- MODULE DatalogProofs ----------------------------
(***************************************************************************)
(* Proofs about Datalog, for every number of records and days, any length  *)
(* of the log's buffer and its lines, and any number of losses.            *)
(***************************************************************************)
EXTENDS Datalog, FiniteSetTheorems, SequenceTheorems, TLAPS

-----------------------------------------------------------------------------
(* The depth of the calls.                                                 *)

\* Every call but the outermost has lost a connection of its own; the one that is
\* open now has not been lost yet.
DepthInv ==
    /\ losses \in Nat
    /\ depth \in Nat
    /\ depth <= losses + (IF conn = "open" THEN 1 ELSE 0)
    /\ pc = "connect" => conn # "open"
    /\ pc = "open" => depth = 0

LEMMA DepthInit == Init => DepthInv
BY DEF Init, DepthInv

\* What a statement leaves behind: the depth is at most what it was.
LEMMA ReturnedDepth ==
    ASSUME NEW res, depth \in Nat, Returned(res)
    PROVE  /\ depth' \in Nat
           /\ depth' <= depth
           /\ pc' \notin {"open", "connect"}
BY DEF Returned, Finish, Created, Answers

LEMMA QueryDepth ==
    ASSUME DepthInv, NEW q, NEW res, RealQuery(q, res)
    PROVE  /\ losses' \in Nat
           /\ depth <= losses' + (IF conn' = "open" THEN 1 ELSE 0)
           /\ res = "lost" => conn' # "open"
BY DEF DepthInv, RealQuery, Loses, session

LEMMA DepthStep == DepthInv /\ [Next]_vars => DepthInv'
<1> SUFFICES ASSUME DepthInv, [Next]_vars PROVE DepthInv'
    OBVIOUS
<1>1. ASSUME LogRuns PROVE DepthInv'
    BY <1>1 DEF LogRuns, session, call, DepthInv
<1>2. ASSUME Query PROVE DepthInv'
    <2>1. PICK res \in Results :
             /\ RealQuery(Top, res)
             /\ IF Reconnects(res)
                THEN pc' = "connect" /\ UNCHANGED depth
                ELSE Returned(res)
        BY <1>2 DEF Query
    <2>2. CASE Reconnects(res)
        BY <2>1, <2>2, QueryDepth DEF Reconnects, DepthInv
    <2>3. CASE ~Reconnects(res)
        <3>1. Returned(res) /\ pc = "query" /\ depth \in Nat /\ losses \in Nat
            BY <1>2, <2>1, <2>3 DEF Query, At, DepthInv
        <3> QED
            BY <2>1, <3>1, QueryDepth, ReturnedDepth DEF DepthInv
    <2> QED
        BY <2>2, <2>3
<1>3. ASSUME Connect PROVE DepthInv'
    <2>0. pc = "connect" /\ conn # "open" /\ depth \in Nat /\ losses \in Nat /\ depth <= losses
        BY <1>3 DEF Connect, At, DepthInv
    <2>1. CASE Opens(TRUE) /\ depth' = depth + 1 /\ pc' = "query"
        BY <2>0, <2>1 DEF Opens, DepthInv
    <2>2. CASE Opens(FALSE) /\ Returned("error")
        <3>1. depth' = 0 /\ losses' = losses /\ conn' = "closed"
            BY <2>2 DEF Opens, Returned
        <3> QED
            BY <2>0, <3>1 DEF DepthInv
    <2> QED
        BY <1>3, <2>1, <2>2 DEF Connect
<1>4. ASSUME Retry PROVE DepthInv'
    <2>1. PICK res \in Results : RealQuery(Top, res) /\ Returned(res)
        BY <1>4 DEF Retry
    <2>2. pc = "retry" /\ depth \in Nat /\ losses \in Nat
        BY <1>4 DEF Retry, At, DepthInv
    <2> QED
        BY <2>1, <2>2, QueryDepth, ReturnedDepth DEF DepthInv
<1>5. ASSUME Open PROVE DepthInv'
    BY <1>5 DEF Open, Opens, At, DepthInv
<1>6. ASSUME Fail PROVE DepthInv'
    BY <1>6 DEF Fail, session, DepthInv
<1>7. ASSUME NEW r \in Records, Insert(r) \/ InsertTooLong(r) PROVE DepthInv'
    BY <1>7 DEF Insert, InsertTooLong, session, At, DepthInv
<1>8. ASSUME OtherLine PROVE DepthInv'
    BY <1>8 DEF OtherLine, session, call, DepthInv
<1>9. ASSUME Break PROVE DepthInv'
    BY <1>9 DEF Break, Loses, call, DepthInv
<1>10. ASSUME Midnight \/ UNCHANGED vars PROVE DepthInv'
    BY <1>10 DEF Midnight, vars, session, call, DepthInv
<1> QED
    BY <1>1, <1>2, <1>3, <1>4, <1>5, <1>6, <1>7, <1>8, <1>9, <1>10 DEF Next, Thread

\* db_execute_nonquery and db_use_logdb, which call each other, are nested at most
\* once more than connections were lost.
THEOREM NestedAlways == Spec => []Nested
<1>1. DepthInv => Nested
    BY DEF DepthInv, Nested
<1> QED
    BY DepthInit, DepthStep, <1>1, PTL DEF Spec

-----------------------------------------------------------------------------
(* The selected database and the noted table.                              *)

\* Where an open connection must have the database selected: after a call, before
\* a query is repeated, and before one for a record is tried.
Needed ==
    \/ pc \in {"idle", "retry"}
    \/ pc = "query" /\ depth = 0 /\ stmt \in {"create", "insert"}

TableInv ==
    /\ depth \in Nat
    /\ using \in BOOLEAN /\ refused \in BOOLEAN
    /\ conn = "open" /\ Needed => using \/ refused
    /\ pc = "open" => stmt = "createdb"
    /\ TableMade

LEMMA TableInit == Init => TableInv
<1> SUFFICES ASSUME Init PROVE TableInv
    OBVIOUS
<1>1. using \in BOOLEAN /\ refused \in BOOLEAN
    BY DEF Init
<1>2. pc = "open" /\ stmt = "createdb" /\ depth = 0 /\ tb = 0 /\ conn = "closed"
    BY DEF Init
<1> QED
    BY <1>1, <1>2 DEF TableInv, TableMade, Needed

\* Tables are made and never dropped, and one that was made is there.
LEMMA QueryTables ==
    ASSUME NEW q, NEW res, RealQuery(q, res)
    PROVE  /\ tables \subseteq tables'
           /\ res = "ok" /\ q = "create" => dayOf[rec] \in tables'
BY DEF RealQuery, Effect, server

\* USE leaves the database selected, or was refused, or the connection is gone;
\* other queries do not change that.
LEMMA QuerySelects ==
    ASSUME NEW q, NEW res, RealQuery(q, res), using \in BOOLEAN, refused \in BOOLEAN
    PROVE  /\ using' \in BOOLEAN /\ refused' \in BOOLEAN
           /\ conn' = "open" => conn = "open"
           /\ conn' = "open" /\ (using \/ refused) => using' \/ refused'
           /\ conn' = "open" /\ q = "use" => using' \/ refused'
           /\ conn' = "open" /\ q \in {"create", "insert"} /\ res = "ok" => using'
           /\ res = "ok" => conn' = "open"
           /\ res = "ok" /\ q = "use" => using'
<1>1. CASE /\ res = "ok" /\ conn = "open" /\ Legal(q)
           /\ using' = (using \/ q = "use")
           /\ refused' = (refused /\ q # "use")
           /\ UNCHANGED conn
    <2>1. q \in {"create", "insert"} => using
        BY <1>1 DEF Legal
    <2>2. CASE q = "use"
        <3>1. using' = TRUE /\ refused' = FALSE
            BY <1>1, <2>2
        <3> QED
            BY <1>1, <2>2, <3>1
    <2>3. CASE q # "use"
        <3>1. using' = using /\ refused' = refused
            BY <1>1, <2>3
        <3> QED
            BY <1>1, <2>1, <2>3, <3>1
    <2> QED
        BY <2>2, <2>3
<1>2. CASE res = "error" /\ refused' = (refused \/ q = "use") /\ UNCHANGED <<conn, using>>
    <2>1. CASE q = "use"
        <3>1. refused' = TRUE /\ using' = using
            BY <1>2, <2>1
        <3> QED
            BY <1>2, <2>1, <3>1
    <2>2. CASE q # "use"
        <3>1. refused' = refused /\ using' = using
            BY <1>2, <2>2
        <3> QED
            BY <1>2, <2>2, <3>1
    <2> QED
        BY <2>1, <2>2
<1>3. CASE res # "ok" /\ conn' = "lost" /\ using' = FALSE /\ UNCHANGED refused
    BY <1>3
<1>4. CASE res # "ok" /\ conn # "open" /\ UNCHANGED session
    BY <1>4 DEF session
<1> QED
    BY <1>1, <1>2, <1>3, <1>4 DEF RealQuery, Loses

LEMMA StatementTable ==
    ASSUME TableInv, NEW res, RealQuery(Top, res), Returned(res), UNCHANGED dayOf,
           pc \in {"query", "retry"}
    PROVE  TableInv'
<1> DEFINE q == Top
<1>0. depth \in Nat /\ using \in BOOLEAN /\ refused \in BOOLEAN
    BY DEF TableInv
<1>1. /\ using' \in BOOLEAN /\ refused' \in BOOLEAN
      /\ conn' = "open" => conn = "open"
      /\ conn' = "open" /\ (using \/ refused) => using' \/ refused'
      /\ conn' = "open" /\ Top = "use" => using' \/ refused'
      /\ res = "ok" /\ Top \in {"use", "create", "insert"} => using'
    BY <1>0, QuerySelects
<1>2. /\ tables \subseteq tables'
      /\ res = "ok" /\ Top = "create" => dayOf[rec] \in tables'
    BY QueryTables
<1>3. CASE depth > 0 /\ res = "ok"
    <2>1. depth' = depth - 1 /\ pc' = "retry" /\ UNCHANGED tb /\ Top = "use"
        BY <1>3 DEF Returned, Top
    <2> QED
        BY <1>0, <1>1, <1>2, <1>3, <2>1 DEF TableInv, TableMade, Needed
<1>4. CASE ~(depth > 0 /\ res = "ok")
    <2>1. depth' = 0 /\ Finish(res = "ok")
        BY <1>4 DEF Returned
    <2>2. depth = 0 => Top = stmt
        BY <1>0 DEF Top
    <2>3. depth # 0 => Top = "use" /\ res # "ok"
        BY <1>0, <1>4 DEF Top
    <2>4. TableMade'
        <3>1. UNCHANGED tb \/ (tb' = dayOf[rec] /\ stmt = "create" /\ res = "ok")
            BY <2>1 DEF Finish, Created, Answers
        <3> QED
            BY <1>2, <2>2, <2>3, <3>1 DEF TableInv, TableMade
    <2>5. conn' = "open" /\ Needed' => using' \/ refused'
        <3> SUFFICES ASSUME conn' = "open", Needed' PROVE using' \/ refused'
            OBVIOUS
        <3>1. CASE depth # 0
            BY <1>1, <2>3, <3>1
        <3>2. CASE depth = 0 /\ stmt = "createdb"
            BY <2>1, <3>2 DEF Finish, Needed
        <3>3. CASE depth = 0 /\ stmt = "use"
            BY <1>1, <2>2, <3>3
        <3>4. CASE depth = 0 /\ stmt \in {"create", "insert"}
            <4>1. using \/ refused
                BY <1>1, <3>4 DEF TableInv, Needed
            <4> QED
                BY <1>1, <4>1
        <3>5. stmt \in {"createdb", "use", "create", "insert"}
            BY <2>1 DEF Finish
        <3> QED
            BY <3>1, <3>2, <3>3, <3>4, <3>5
    <2>6. pc' # "open"
        BY <2>1 DEF Finish, Created, Answers
    <2> QED
        BY <1>1, <2>1, <2>4, <2>5, <2>6 DEF TableInv
<1> QED
    BY <1>3, <1>4

LEMMA TableStep == TableInv /\ [Next]_vars => TableInv'
<1> SUFFICES ASSUME TableInv, [Next]_vars PROVE TableInv'
    OBVIOUS
<1>0. depth \in Nat /\ using \in BOOLEAN /\ refused \in BOOLEAN
    BY DEF TableInv
<1>1. ASSUME LogRuns PROVE TableInv'
    BY <1>1 DEF LogRuns, server, session, call, TableInv, TableMade, Needed
<1>2. ASSUME Query PROVE TableInv'
    <2>1. PICK res \in Results :
             /\ RealQuery(Top, res)
             /\ IF Reconnects(res)
                THEN pc' = "connect" /\ UNCHANGED <<tb, stmt, depth>>
                ELSE Returned(res)
        BY <1>2 DEF Query
    <2>2. pc = "query" /\ UNCHANGED dayOf
        BY <1>2 DEF Query, At, Elsewhere
    <2>3. CASE Reconnects(res)
        <3>1. using' \in BOOLEAN /\ refused' \in BOOLEAN /\ tables \subseteq tables'
            BY <1>0, <2>1, QuerySelects, QueryTables
        <3> QED
            BY <1>0, <2>1, <2>3, <3>1 DEF TableInv, TableMade, Needed
    <2> QED
        BY <2>1, <2>2, <2>3, StatementTable
<1>3. ASSUME Connect PROVE TableInv'
    <2>1. CASE Opens(TRUE) /\ depth' = depth + 1 /\ pc' = "query" /\ UNCHANGED tb
        <3>1. using' \in BOOLEAN /\ refused' \in BOOLEAN /\ UNCHANGED tables
            BY <2>1 DEF Opens, server
        <3>2. depth' \in Nat /\ depth' # 0
            BY <1>0, <2>1
        <3> QED
            BY <2>1, <3>1, <3>2 DEF TableInv, TableMade, Needed
    <2>2. CASE Opens(FALSE) /\ Returned("error")
        <3>1. depth' = 0 /\ conn' = "closed" /\ using' = FALSE /\ refused' = FALSE
              /\ UNCHANGED tables
            BY <2>2 DEF Opens, server, Returned
        <3>2. UNCHANGED tb /\ pc' # "open"
            BY <2>2 DEF Returned, Finish, Created, Answers
        <3>3. using' \in BOOLEAN /\ refused' \in BOOLEAN
            BY <3>1
        <3> QED
            BY <3>1, <3>2, <3>3 DEF TableInv, TableMade
    <2> QED
        BY <1>3, <2>1, <2>2 DEF Connect
<1>4. ASSUME Retry PROVE TableInv'
    <2>1. PICK res \in Results : RealQuery(Top, res) /\ Returned(res)
        BY <1>4 DEF Retry
    <2>2. pc = "retry" /\ UNCHANGED dayOf
        BY <1>4 DEF Retry, At, Elsewhere
    <2> QED
        BY <2>1, <2>2, StatementTable
<1>5. ASSUME Open PROVE TableInv'
    <2>1. UNCHANGED <<tb, depth, stmt, tables>> /\ pc' \in {"query", "failed"}
          /\ using' = FALSE /\ refused' = FALSE
        BY <1>5 DEF Open, Opens, server
    <2>2. stmt = "createdb"
        BY <1>5 DEF Open, At, TableInv
    <2>3. using' \in BOOLEAN /\ refused' \in BOOLEAN
        BY <2>1
    <2> QED
        BY <1>0, <2>1, <2>2, <2>3 DEF TableInv, TableMade, Needed
<1>6. ASSUME Fail PROVE TableInv'
    BY <1>6 DEF Fail, server, session, TableInv, TableMade, Needed
<1>7. ASSUME NEW r \in Records, Insert(r) \/ InsertTooLong(r) PROVE TableInv'
    BY <1>7 DEF Insert, InsertTooLong, server, session, At, TableInv, TableMade, Needed
<1>8. ASSUME OtherLine PROVE TableInv'
    BY <1>8 DEF OtherLine, server, session, call, TableInv, TableMade, Needed
<1>9. ASSUME Break PROVE TableInv'
    BY <1>9 DEF Break, Loses, server, call, TableInv, TableMade, Needed
<1>10. ASSUME Midnight \/ UNCHANGED vars PROVE TableInv'
    BY <1>10 DEF Midnight, vars, server, session, call, TableInv, TableMade, Needed
<1> QED
    BY <1>1, <1>2, <1>3, <1>4, <1>5, <1>6, <1>7, <1>8, <1>9, <1>10 DEF Next, Thread

\* The table that is noted exists.
THEOREM TableMadeAlways == Spec => []TableMade
<1>1. TableInv => TableMade
    BY DEF TableInv
<1> QED
    BY TableInit, TableStep, <1>1, PTL DEF Spec

\* An open connection has the database selected between calls and when a query is
\* repeated, unless the server has refused that.
THEOREM SelectedAlways == Spec => []Selected
<1>1. TableInv => Selected
    BY DEF TableInv, Selected, Needed
<1> QED
    BY TableInit, TableStep, <1>1, PTL DEF Spec

-----------------------------------------------------------------------------
(* The buffer of the log.                                                  *)

\* A line is only stored where there is room for it and its NUL; each line given
\* up has its own failed open.
BufInv ==
    /\ size \in 0..(BufLen - 1)
    /\ line.len \in Nat
    /\ step = "store" => size = 0 \/ size + line.len < BufLen
    /\ fails \in Nat
    /\ IsFiniteSet(dropped)
    /\ Cardinality(dropped) \in Nat
    /\ Cardinality(dropped) <= fails

LEMMA BufInit == Init => BufInv
<1> SUFFICES ASSUME Init PROVE BufInv
    OBVIOUS
<1>1. size = 0 /\ line.len = 0 /\ step = "idle" /\ fails = 0 /\ dropped = {}
    BY DEF Init, LogInit, NoLine
<1>2. IsFiniteSet({}) /\ Cardinality({}) = 0
    BY FS_EmptySet
<1> QED
    BY <1>1, <1>2, LogBufAssumption DEF BufInv

LEMMA WriteLogBuf ==
    ASSUME BufInv, NEW len \in Nat, WriteLog(len)
    PROVE  BufInv'
BY DEF WriteLog, Calls, BufInv

LEMMA LogStepBuf ==
    ASSUME BufInv, LogStep
    PROVE  BufInv'
<1>1. CASE Room
    BY <1>1 DEF Room, Fits, BufInv
<1>2. CASE Store
    <2>1. line' = line \/ line' = NoLine
        BY <1>2 DEF Store
    <2>2. line'.len \in Nat
        BY <2>1 DEF BufInv, NoLine
    <2>3. size' \in 0..(BufLen - 1) /\ step' # "store"
        BY <1>2, LogBufAssumption DEF Store, BufInv
    <2> QED
        BY <1>2, <2>2, <2>3 DEF Store, BufInv
<1>3. CASE StoreLong
    BY <1>3 DEF StoreLong, BufInv
<1>4. CASE Flush
    <2>1. line' = line \/ line' = NoLine
        BY <1>4 DEF Flush
    <2>2. line'.len \in Nat
        BY <2>1 DEF BufInv, NoLine
    <2> QED
        BY <1>4, <2>2, LogBufAssumption DEF Flush, BufInv
<1>5. CASE FlushFails
    <2>1. line'.len \in Nat /\ step' = "room" /\ UNCHANGED size /\ fails' = fails + 1
        BY <1>5, LogBufAssumption DEF FlushFails, Calls
    <2>2. dropped' = dropped \/ dropped' = dropped \union {line.no}
        BY <1>5 DEF FlushFails
    <2>3. /\ IsFiniteSet(dropped')
          /\ Cardinality(dropped') \in Nat
          /\ Cardinality(dropped') <= Cardinality(dropped) + 1
        BY <2>2, FS_AddElement DEF BufInv
    <2> QED
        BY <2>1, <2>3 DEF BufInv
<1> QED
    BY <1>1, <1>2, <1>3, <1>4, <1>5 DEF LogStep

LEMMA BufStep == BufInv /\ [Next]_vars => BufInv'
<1> SUFFICES ASSUME BufInv, [Next]_vars PROVE BufInv'
    OBVIOUS
<1>1. ReconnectLen \in Nat
    BY DatalogAssumption, LogBufAssumption
<1>2. LogRuns => BufInv'
    BY LogStepBuf DEF LogRuns
<1>3. Query \/ Connect \/ Fail => WriteLog(ReconnectLen) \/ UNCHANGED logVars
    BY DEF Query, Connect, Fail
<1>4. OtherLine => \E len \in Nat : WriteLog(len)
    BY DatalogAssumption DEF OtherLine
<1>5. Retry \/ Open \/ Break \/ Midnight \/ UNCHANGED vars => UNCHANGED logVars
    BY DEF Retry, Open, Break, Midnight, vars
<1>6. ASSUME NEW r \in Records, Insert(r) \/ InsertTooLong(r) PROVE UNCHANGED logVars
    BY <1>6 DEF Insert, InsertTooLong
<1>7. UNCHANGED logVars => BufInv'
    BY DEF logVars, BufInv
<1> QED
    BY <1>1, <1>2, <1>3, <1>4, <1>5, <1>6, <1>7, WriteLogBuf DEF Next, Thread

\* The log's buffer is never written behind its end, whatever fails to open, and
\* no more lines are given up than opens have failed.
THEOREM NoOverflowAlways == Spec => []NoOverflow
<1>1. BufInv => NoOverflow
    BY LogBufAssumption DEF BufInv, NoOverflow
<1> QED
    BY BufInit, BufStep, <1>1, PTL DEF Spec

-----------------------------------------------------------------------------
(* The rows of the records.                                                *)

InCall == pc \in {"query", "connect", "retry"}

\* The rows that the record of the current call can have: none before its INSERT
\* has been tried, and one if that was executed and its connection lost.
Rows ==
    IF stmt = "insert" /\ ~(pc = "query" /\ depth = 0) /\ losses > 0 THEN 1 ELSE 0

RowTypes ==
    /\ losses \in Nat /\ depth \in Nat
    /\ today \in 1..Days /\ tb \in 0..Days
    /\ rec \in Records
    /\ dayOf \in [Records -> 0..Days]
    /\ copies \in [Records -> [1..Days -> Nat]]
    /\ answer \in [Records -> {"none", "ok", "error"}]

RowsInPlace ==
    \A r \in Records, d \in 1..Days :
        /\ copies[r][d] > 0 => d = dayOf[r]
        /\ copies[r][d] <= IF losses > 0 THEN 2 ELSE 1

AnswersTrue ==
    \A r \in Records : answer[r] = "ok" => dayOf[r] # 0 /\ copies[r][dayOf[r]] > 0

\* What the thread knows of the record it is about to insert.
CallKnows ==
    InCall /\ stmt \in {"create", "insert"} =>
        /\ dayOf[rec] # 0
        /\ \A d \in 1..Days : copies[rec][d] <= Rows
        /\ stmt = "insert" => tb = dayOf[rec]

RowInv ==
    /\ RowTypes
    /\ RowsInPlace
    /\ AnswersTrue
    /\ pc = "open" => stmt = "createdb"
    /\ CallKnows

LEMMA RowInit == Init => RowInv
<1> SUFFICES ASSUME Init PROVE RowInv
    OBVIOUS
<1>1. RowTypes
    BY DatalogAssumption DEF Init, RowTypes
<1>2. \A r \in Records, d \in 1..Days : copies[r][d] = 0
    BY DEF Init
<1>3. RowsInPlace /\ AnswersTrue
    BY <1>2 DEF Init, RowsInPlace, AnswersTrue
<1> QED
    BY <1>1, <1>3 DEF Init, RowInv, CallKnows

\* A query adds at most one row, and only an INSERT does: to the record of the call,
\* in the table that is noted.  Where it says that it was executed it was, and where
\* it was but says otherwise a connection was lost.
LEMMA QueryRows ==
    ASSUME RowTypes, NEW q, NEW res, RealQuery(q, res)
    PROVE  /\ losses' \in Nat /\ losses <= losses'
           /\ \/ copies' = copies
              \/ /\ q = "insert"
                 /\ copies' = [copies EXCEPT ![rec][tb] = @ + 1]
                 /\ res = "ok" \/ losses' > 0
           /\ q = "insert" /\ res = "ok" => copies' = [copies EXCEPT ![rec][tb] = @ + 1]
BY DEF RowTypes, RealQuery, Effect, Loses, server, session

\* What the statement on top does to the rows.
LEMMA TopRows ==
    ASSUME RowInv, NEW res, RealQuery(Top, res), UNCHANGED dayOf, pc \in {"query", "retry"}
    PROVE  /\ losses' \in Nat /\ losses <= losses'
           /\ copies' \in [Records -> [1..Days -> Nat]]
           /\ RowsInPlace'
           /\ \A r \in Records, d \in 1..Days : copies[r][d] <= copies'[r][d]
           /\ Top # "insert" => copies' = copies
           /\ Top = "insert" /\ res = "ok" => copies'[rec][dayOf[rec]] > 0
           /\ stmt = "insert" /\ pc = "query" /\ res # "ok" =>
                 \A d \in 1..Days : copies'[rec][d] <= IF losses' > 0 THEN 1 ELSE 0
<1>0. RowTypes /\ RowsInPlace /\ CallKnows /\ InCall /\ Days \in Nat
    BY DatalogAssumption DEF RowInv, InCall
<1>1. losses' \in Nat /\ losses <= losses' /\ losses \in Nat
    BY <1>0, QueryRows DEF RowTypes
<1>2. CASE copies' = copies /\ ~(Top = "insert" /\ res = "ok")
    <2>1. RowsInPlace'
        <3> SUFFICES ASSUME NEW r \in Records, NEW d \in 1..Days
                     PROVE  /\ copies[r][d] > 0 => d = dayOf[r]
                            /\ copies[r][d] <= IF losses' > 0 THEN 2 ELSE 1
            BY <1>2 DEF RowsInPlace
        <3>1. copies[r][d] \in Nat
            BY <1>0 DEF RowTypes
        <3> QED
            BY <1>0, <1>1, <3>1 DEF RowsInPlace
    <2>2. \A r \in Records, d \in 1..Days : copies[r][d] <= copies'[r][d]
        <3> SUFFICES ASSUME NEW r \in Records, NEW d \in 1..Days PROVE copies[r][d] <= copies[r][d]
            BY <1>2
        <3>1. copies[r][d] \in Nat
            BY <1>0 DEF RowTypes
        <3> QED
            BY <3>1
    <2>3. ASSUME stmt = "insert", NEW d \in 1..Days
          PROVE  copies[rec][d] <= IF losses' > 0 THEN 1 ELSE 0
        <3>1. copies[rec][d] \in Nat /\ copies[rec][d] <= Rows
            BY <1>0, <2>3 DEF RowTypes, CallKnows
        <3> QED
            BY <1>1, <2>3, <3>1 DEF Rows
    <2> QED
        BY <1>0, <1>1, <1>2, <2>1, <2>2, <2>3 DEF RowTypes
<1>3. CASE /\ Top = "insert"
           /\ copies' = [copies EXCEPT ![rec][tb] = @ + 1]
           /\ res = "ok" \/ losses' > 0
    <2>1. stmt = "insert" /\ depth = 0 /\ tb = dayOf[rec] /\ tb \in 1..Days /\ rec \in Records
        BY <1>0, <1>3 DEF Top, CallKnows, RowTypes
    <2>2. /\ copies' \in [Records -> [1..Days -> Nat]]
          /\ copies'[rec][tb] = copies[rec][tb] + 1
          /\ \A r \in Records, d \in 1..Days :
                r # rec \/ d # tb => copies'[r][d] = copies[r][d]
        BY <1>0, <1>3, <2>1 DEF RowTypes
    <2>3. \A r \in Records, d \in 1..Days : copies[r][d] \in Nat
        BY <1>0 DEF RowTypes
    <2>4. \A d \in 1..Days : copies[rec][d] <= Rows
        BY <1>0, <2>1 DEF CallKnows
    <2>5. RowsInPlace'
        <3> SUFFICES ASSUME NEW r \in Records, NEW d \in 1..Days
                     PROVE  /\ copies'[r][d] > 0 => d = dayOf[r]
                            /\ copies'[r][d] <= IF losses' > 0 THEN 2 ELSE 1
            BY DEF RowsInPlace
        <3>1. CASE r = rec /\ d = tb
            <4>1. copies[rec][tb] \in Nat /\ copies[rec][tb] <= Rows
                BY <2>1, <2>3, <2>4
            <4>2. copies[rec][tb] <= IF losses > 0 THEN 1 ELSE 0
                BY <1>1, <4>1 DEF Rows
            <4>3. copies'[rec][tb] <= IF losses > 0 THEN 2 ELSE 1
                BY <1>1, <2>2, <4>1, <4>2
            <4>4. copies'[rec][tb] \in Nat
                BY <2>2, <4>1
            <4> QED
                BY <1>1, <2>1, <3>1, <4>3, <4>4
        <3>2. CASE r # rec \/ d # tb
            <4>1. copies'[r][d] = copies[r][d] /\ copies[r][d] \in Nat
                BY <2>2, <2>3, <3>2
            <4>2. /\ copies[r][d] > 0 => d = dayOf[r]
                  /\ copies[r][d] <= IF losses > 0 THEN 2 ELSE 1
                BY <1>0 DEF RowsInPlace
            <4> QED
                BY <1>1, <4>1, <4>2
        <3> QED
            BY <3>1, <3>2
    <2>6. ASSUME pc = "query", res # "ok", NEW d \in 1..Days
          PROVE  copies'[rec][d] <= IF losses' > 0 THEN 1 ELSE 0
        <3>1. copies[rec][d] = 0
            BY <2>1, <2>3, <2>4, <2>6 DEF Rows
        <3>2. copies'[rec][d] <= 1
            BY <2>1, <2>2, <3>1
        <3> QED
            BY <1>3, <2>6, <3>2
    <2>7. \A r \in Records, d \in 1..Days : copies[r][d] <= copies'[r][d]
        BY <2>1, <2>2, <2>3
    <2>8. copies'[rec][dayOf[rec]] > 0
        BY <2>1, <2>2, <2>3
    <2> QED
        BY <1>1, <1>3, <2>2, <2>5, <2>6, <2>7, <2>8
<1> QED
    BY <1>0, <1>2, <1>3, QueryRows

\* Answers that were right stay right when no row goes, and an "ok" is given with one.
LEMMA AnswersStay ==
    ASSUME RowTypes, AnswersTrue, UNCHANGED dayOf,
           copies' \in [Records -> [1..Days -> Nat]],
           \A r \in Records, d \in 1..Days : copies[r][d] <= copies'[r][d],
           \/ answer' = answer
           \/ \E a \in {"ok", "error"} :
                 /\ answer' = [answer EXCEPT ![rec] = a]
                 /\ a = "ok" => dayOf[rec] # 0 /\ copies'[rec][dayOf[rec]] > 0
    PROVE  AnswersTrue' /\ answer' \in [Records -> {"none", "ok", "error"}]
<1>1. answer' \in [Records -> {"none", "ok", "error"}]
    BY DEF RowTypes
<1> SUFFICES ASSUME NEW r \in Records, answer'[r] = "ok"
             PROVE  dayOf[r] # 0 /\ copies'[r][dayOf[r]] > 0
    BY <1>1 DEF AnswersTrue
<1>2. CASE answer[r] = "ok"
    <2>1. dayOf[r] \in 1..Days /\ copies[r][dayOf[r]] > 0
        BY <1>2, DatalogAssumption DEF AnswersTrue, RowTypes
    <2>2. copies[r][dayOf[r]] \in Nat /\ copies'[r][dayOf[r]] \in Nat
        BY <2>1 DEF RowTypes
    <2>3. copies[r][dayOf[r]] <= copies'[r][dayOf[r]]
        BY <2>1
    <2> QED
        BY <2>1, <2>2, <2>3
<1>3. CASE answer[r] # "ok"
    BY <1>3 DEF RowTypes
<1> QED
    BY <1>2, <1>3

LEMMA StatementRows ==
    ASSUME RowInv, NEW res, RealQuery(Top, res), Returned(res),
           UNCHANGED <<dayOf, today>>, pc \in {"query", "retry"}
    PROVE  RowInv'
<1>0. RowTypes /\ RowsInPlace /\ AnswersTrue /\ CallKnows /\ InCall
    BY DEF RowInv, InCall
<1>1. /\ losses' \in Nat /\ losses <= losses'
      /\ copies' \in [Records -> [1..Days -> Nat]]
      /\ RowsInPlace'
      /\ \A r \in Records, d \in 1..Days : copies[r][d] <= copies'[r][d]
      /\ Top # "insert" => copies' = copies
      /\ Top = "insert" /\ res = "ok" => copies'[rec][dayOf[rec]] > 0
    BY TopRows
<1>2. CASE depth > 0 /\ res = "ok"
    <2>1. depth' = depth - 1 /\ pc' = "retry" /\ UNCHANGED <<tb, stmt, answer, rec>> /\ Top = "use"
        BY <1>2 DEF Returned, Top
    <2>2. depth' \in Nat
        BY <1>0, <1>2, <2>1 DEF RowTypes
    <2>3. RowTypes' /\ copies' = copies
        BY <1>0, <1>1, <2>1, <2>2 DEF RowTypes
    <2>4. AnswersTrue'
        BY <2>1, <2>3, <1>0 DEF AnswersTrue
    <2>5. CallKnows'
        <3> SUFFICES ASSUME stmt \in {"create", "insert"}
                     PROVE  /\ dayOf[rec] # 0
                            /\ \A d \in 1..Days : copies[rec][d] <= Rows'
                            /\ stmt = "insert" => tb = dayOf[rec]
            BY <2>1, <2>3 DEF CallKnows
        <3>1. /\ dayOf[rec] # 0
              /\ \A d \in 1..Days : copies[rec][d] <= Rows
              /\ stmt = "insert" => tb = dayOf[rec]
            BY <1>0 DEF CallKnows
        <3>2. Rows' \in Nat /\ Rows \in Nat /\ Rows <= Rows'
            BY <1>0, <1>1, <1>2, <2>1 DEF Rows, RowTypes
        <3>3. \A d \in 1..Days : copies[rec][d] \in Nat
            BY <1>0 DEF RowTypes
        <3> QED
            BY <3>1, <3>2, <3>3
    <2> QED
        BY <1>1, <2>1, <2>3, <2>4, <2>5 DEF RowInv
<1>3. CASE ~(depth > 0 /\ res = "ok")
    <2>1. depth' = 0 /\ Finish(res = "ok") /\ UNCHANGED rec
        BY <1>3 DEF Returned
    <2>2. stmt \in {"create", "insert"} => dayOf[rec] \in 1..Days
        BY <1>0, DatalogAssumption DEF CallKnows, RowTypes
    <2>3. tb' \in 0..Days
        <3>1. tb' = tb \/ (stmt = "create" /\ tb' = dayOf[rec])
            BY <2>1 DEF Finish, Created
        <3> QED
            BY <1>0, <2>2, <3>1, DatalogAssumption DEF RowTypes
    <2>4. \/ answer' = answer
          \/ \E a \in {"ok", "error"} :
                /\ answer' = [answer EXCEPT ![rec] = a]
                /\ a = "ok" => dayOf[rec] # 0 /\ copies'[rec][dayOf[rec]] > 0
        <3>1. CASE stmt \in {"createdb", "use"}
            BY <2>1, <3>1 DEF Finish
        <3>2. CASE stmt = "create"
            BY <2>1, <3>2 DEF Finish, Created, Answers
        <3>3. CASE stmt = "insert"
            <4>1. answer' = [answer EXCEPT ![rec] = IF res = "ok" THEN "ok" ELSE "error"]
                BY <2>1, <3>3 DEF Finish, Answers
            <4>2. CASE res = "ok"
                <5>1. Top = "insert"
                    BY <1>0, <1>3, <3>3, <4>2 DEF Top, RowTypes
                <5>2. copies'[rec][dayOf[rec]] > 0 /\ dayOf[rec] # 0
                    BY <1>0, <1>1, <3>3, <4>2, <5>1 DEF CallKnows
                <5> QED
                    BY <4>1, <4>2, <5>2
            <4> QED
                BY <4>1, <4>2
        <3> QED
            BY <2>1, <3>1, <3>2, <3>3 DEF Finish
    <2>5. AnswersTrue' /\ answer' \in [Records -> {"none", "ok", "error"}]
        BY <1>0, <1>1, <2>4, AnswersStay
    <2>6. RowTypes'
        BY <1>0, <1>1, <2>1, <2>3, <2>5 DEF RowTypes
    <2>7. CallKnows'
        <3> SUFFICES ASSUME InCall', stmt' \in {"create", "insert"} PROVE CallKnows'
            BY DEF CallKnows
        <3>1. stmt = "create" /\ tb' = dayOf[rec] /\ pc' = "query" /\ stmt' = "insert"
            BY <2>1 DEF Finish, Created, Answers, InCall
        <3>2. copies' = copies
            BY <1>1, <3>1 DEF Top
        <3>3. \A d \in 1..Days : copies[rec][d] <= 0
            BY <1>0, <3>1 DEF CallKnows, Rows
        <3>4. Rows' = 0
            BY <2>1, <3>1 DEF Rows
        <3>5. dayOf[rec] # 0
            BY <1>0, <3>1 DEF CallKnows
        <3> QED
            BY <2>1, <3>1, <3>2, <3>3, <3>4, <3>5 DEF CallKnows
    <2>8. pc' # "open"
        BY <2>1 DEF Finish, Created, Answers
    <2> QED
        BY <1>1, <2>5, <2>6, <2>7, <2>8 DEF RowInv
<1> QED
    BY <1>2, <1>3

\* A call that finds no connection ends without another query, and with it those
\* around it.
LEMMA GivenUpRows ==
    ASSUME RowInv, Returned("error"), UNCHANGED <<dayOf, today, copies, losses>>, pc = "connect"
    PROVE  RowInv'
<1>0. RowTypes /\ RowsInPlace /\ AnswersTrue /\ CallKnows /\ InCall
    BY DEF RowInv, InCall
<1>1. depth' = 0 /\ Finish(FALSE) /\ UNCHANGED <<rec, tb>> /\ pc' \in {"idle", "failed"}
    BY DEF Returned, Finish, Created, Answers
<1>2. answer' = answer \/ answer' = [answer EXCEPT ![rec] = "error"]
    BY <1>1 DEF Finish, Created, Answers
<1>3. \A r \in Records, d \in 1..Days : copies[r][d] <= copies'[r][d]
    <2>1. \A r \in Records, d \in 1..Days : copies[r][d] \in Nat
        BY <1>0 DEF RowTypes
    <2> QED
        BY <2>1
<1>4. AnswersTrue' /\ answer' \in [Records -> {"none", "ok", "error"}]
    BY <1>0, <1>2, <1>3, AnswersStay DEF RowTypes
<1>5. RowTypes'
    BY <1>0, <1>1, <1>4 DEF RowTypes
<1>6. RowsInPlace'
    BY <1>0 DEF RowsInPlace
<1> QED
    BY <1>1, <1>4, <1>5, <1>6 DEF RowInv, CallKnows, InCall

\* The rows, the answers and the call are all that RowInv speaks about.
LEMMA RowsSame ==
    ASSUME RowInv, UNCHANGED <<call, copies, dayOf>>, losses' \in Nat, losses <= losses',
           today' \in 1..Days
    PROVE  RowInv'
<1>0. RowTypes /\ RowsInPlace /\ AnswersTrue /\ CallKnows
    BY DEF RowInv
<1>1. UNCHANGED <<tb, pc, stmt, rec, depth, answer>>
    BY DEF call
<1>2. RowTypes' /\ losses \in Nat
    BY <1>0, <1>1 DEF RowTypes
<1>3. \A r \in Records, d \in 1..Days : copies[r][d] \in Nat
    BY <1>0 DEF RowTypes
<1>4. RowsInPlace'
    <2> SUFFICES ASSUME NEW r \in Records, NEW d \in 1..Days
                 PROVE  /\ copies[r][d] > 0 => d = dayOf[r]
                        /\ copies[r][d] <= IF losses' > 0 THEN 2 ELSE 1
        BY DEF RowsInPlace
    <2>1. /\ copies[r][d] > 0 => d = dayOf[r]
          /\ copies[r][d] <= IF losses > 0 THEN 2 ELSE 1
        BY <1>0 DEF RowsInPlace
    <2> QED
        BY <1>2, <1>3, <2>1
<1>5. AnswersTrue'
    BY <1>0, <1>1 DEF AnswersTrue
<1>6. CallKnows'
    <2> SUFFICES ASSUME InCall, stmt \in {"create", "insert"}
                 PROVE  /\ dayOf[rec] # 0
                        /\ \A d \in 1..Days : copies[rec][d] <= Rows'
                        /\ stmt = "insert" => tb = dayOf[rec]
        BY <1>1 DEF CallKnows, InCall
    <2>1. /\ dayOf[rec] # 0
          /\ \A d \in 1..Days : copies[rec][d] <= Rows
          /\ stmt = "insert" => tb = dayOf[rec]
        BY <1>0 DEF CallKnows
    <2>2. Rows \in Nat /\ Rows' \in Nat /\ Rows <= Rows'
        BY <1>1, <1>2 DEF Rows
    <2>3. \A d \in 1..Days : copies[rec][d] \in Nat
        BY <1>0 DEF RowTypes
    <2> QED
        BY <2>1, <2>2, <2>3
<1> QED
    BY <1>0, <1>1, <1>2, <1>4, <1>5, <1>6 DEF RowInv

\* A record that was not logged before has no row, so its call begins with none.
LEMMA InsertRows ==
    ASSUME RowInv, NEW r \in Records, Insert(r) \/ InsertTooLong(r)
    PROVE  RowInv'
<1>0. RowTypes /\ RowsInPlace /\ AnswersTrue /\ 0 \notin 1..Days
    BY DatalogAssumption DEF RowInv
<1>1. /\ UNCHANGED <<copies, losses, tb, depth, today>>
      /\ dayOf' = [dayOf EXCEPT ![r] = today]
      /\ dayOf[r] = 0 /\ pc = "idle"
      /\ today \in 1..Days
    BY <1>0 DEF Insert, InsertTooLong, server, session, At, RowTypes
<1>2. \A d \in 1..Days : copies[r][d] = 0
    <2> SUFFICES ASSUME NEW d \in 1..Days PROVE copies[r][d] = 0
        OBVIOUS
    <2>1. copies[r][d] \in Nat
        BY <1>0 DEF RowTypes
    <2>2. copies[r][d] > 0 => d = dayOf[r]
        BY <1>0 DEF RowsInPlace
    <2>3. d # 0 /\ dayOf[r] = 0
        BY <1>0, <1>1
    <2> QED
        BY <2>1, <2>2, <2>3
<1>3. /\ dayOf' \in [Records -> 0..Days]
      /\ dayOf'[r] = today
      /\ \A s \in Records : s # r => dayOf'[s] = dayOf[s]
    BY <1>0, <1>1 DEF RowTypes
<1>4. /\ answer' \in [Records -> {"none", "ok", "error"}]
      /\ \A s \in Records : answer'[s] = "ok" => answer[s] = "ok"
    BY <1>0 DEF RowTypes, Insert, InsertTooLong
<1>5. rec' \in Records
    BY <1>0 DEF Insert, InsertTooLong, RowTypes
<1>6. RowTypes'
    BY <1>0, <1>1, <1>3, <1>4, <1>5 DEF RowTypes
<1>7. RowsInPlace'
    <2> SUFFICES ASSUME NEW s \in Records, NEW d \in 1..Days
                 PROVE  /\ copies[s][d] > 0 => d = dayOf'[s]
                        /\ copies[s][d] <= IF losses > 0 THEN 2 ELSE 1
        BY <1>1 DEF RowsInPlace
    <2>1. /\ copies[s][d] > 0 => d = dayOf[s]
          /\ copies[s][d] <= IF losses > 0 THEN 2 ELSE 1
        BY <1>0 DEF RowsInPlace
    <2> QED
        BY <1>2, <1>3, <2>1
<1>8. AnswersTrue'
    BY <1>0, <1>1, <1>3, <1>4 DEF AnswersTrue
<1>9. CallKnows'
    <2>1. CASE InsertTooLong(r)
        BY <1>1, <2>1 DEF InsertTooLong, CallKnows, InCall
    <2>2. CASE Insert(r)
        <3>1. rec' = r /\ (stmt' = "insert" => tb = today) /\ pc' = "query"
            BY <2>2 DEF Insert, Made
        <3>2. Rows' \in Nat
            BY DEF Rows
        <3>3. \A d \in 1..Days : copies'[rec'][d] <= Rows'
            BY <1>1, <1>2, <3>1, <3>2
        <3> QED
            BY <1>0, <1>1, <1>3, <3>1, <3>3 DEF CallKnows
    <2> QED
        BY <2>1, <2>2
<1>10. pc' # "open"
    BY <1>1 DEF Insert, InsertTooLong
<1> QED
    BY <1>6, <1>7, <1>8, <1>9, <1>10 DEF RowInv

LEMMA RowStep == RowInv /\ [Next]_vars => RowInv'
<1> SUFFICES ASSUME RowInv, [Next]_vars PROVE RowInv'
    OBVIOUS
<1>0. RowTypes /\ losses \in Nat /\ today \in 1..Days /\ losses <= losses
    BY DEF RowInv, RowTypes
<1>1. ASSUME LogRuns PROVE RowInv'
    BY <1>0, <1>1, RowsSame DEF LogRuns, server, session, Elsewhere
<1>2. ASSUME Query PROVE RowInv'
    <2>1. PICK res \in Results :
             /\ RealQuery(Top, res)
             /\ IF res = "lost"
                THEN pc' = "connect" /\ UNCHANGED <<tb, stmt, rec, depth, answer>>
                ELSE Returned(res)
        BY <1>2 DEF Query, Reconnects
    <2>2. pc = "query" /\ UNCHANGED <<dayOf, today>>
        BY <1>2 DEF Query, At, Elsewhere
    <2>3. CASE res = "lost"
        <3>1. /\ losses' \in Nat /\ losses <= losses'
              /\ copies' \in [Records -> [1..Days -> Nat]]
              /\ RowsInPlace'
              /\ \A r \in Records, d \in 1..Days : copies[r][d] <= copies'[r][d]
              /\ Top # "insert" => copies' = copies
              /\ stmt = "insert" => \A d \in 1..Days : copies'[rec][d] <= IF losses' > 0 THEN 1 ELSE 0
            BY <2>1, <2>2, <2>3, TopRows
        <3>2. pc' = "connect" /\ UNCHANGED <<tb, stmt, rec, depth, answer>>
            BY <2>1, <2>3
        <3>3. RowTypes'
            BY <1>0, <2>2, <3>1, <3>2 DEF RowTypes
        <3>4. AnswersTrue'
            BY <1>0, <2>2, <3>1, <3>2, AnswersStay DEF RowInv
        <3>5. CallKnows'
            <4> SUFFICES ASSUME stmt \in {"create", "insert"}
                         PROVE  /\ dayOf[rec] # 0
                                /\ \A d \in 1..Days : copies'[rec][d] <= Rows'
                                /\ stmt = "insert" => tb = dayOf[rec]
                BY <2>2, <3>2 DEF CallKnows
            <4>1. /\ dayOf[rec] # 0
                  /\ \A d \in 1..Days : copies[rec][d] <= Rows
                  /\ stmt = "insert" => tb = dayOf[rec]
                BY <2>2 DEF RowInv, CallKnows, InCall
            <4>2. CASE stmt = "insert"
                <5>1. Rows' = IF losses' > 0 THEN 1 ELSE 0
                    BY <3>2, <4>2 DEF Rows
                <5> QED
                    BY <3>1, <4>1, <4>2, <5>1
            <4>3. CASE stmt = "create"
                <5>1. Rows' = 0 /\ Rows = 0 /\ Top # "insert"
                    BY <3>2, <4>3 DEF Rows, Top
                <5> QED
                    BY <3>1, <4>1, <4>3, <5>1
            <4> QED
                BY <4>2, <4>3
        <3> QED
            BY <3>1, <3>2, <3>3, <3>4, <3>5 DEF RowInv
    <2> QED
        BY <2>1, <2>2, <2>3, StatementRows
<1>3. ASSUME Connect PROVE RowInv'
    <2>0. pc = "connect" /\ UNCHANGED <<dayOf, today, copies, losses>>
        BY <1>3 DEF Connect, At, Elsewhere, Opens, server
    <2>1. CASE depth' = depth + 1 /\ pc' = "query" /\ UNCHANGED <<tb, stmt, rec, answer>>
        <3>1. RowTypes'
            BY <1>0, <2>0, <2>1 DEF RowTypes
        <3>2. RowsInPlace' /\ AnswersTrue'
            BY <2>0, <2>1 DEF RowInv, RowsInPlace, AnswersTrue
        <3>3. depth' # 0 /\ Rows' = Rows
            BY <1>0, <2>0, <2>1 DEF RowTypes, Rows
        <3> QED
            BY <2>0, <2>1, <3>1, <3>2, <3>3 DEF RowInv, CallKnows, InCall
    <2>2. CASE Returned("error")
        BY <2>0, <2>2, GivenUpRows
    <2> QED
        BY <1>3, <2>1, <2>2 DEF Connect
<1>4. ASSUME Retry PROVE RowInv'
    <2>1. PICK res \in Results : RealQuery(Top, res) /\ Returned(res)
        BY <1>4 DEF Retry
    <2>2. pc = "retry" /\ UNCHANGED <<dayOf, today>>
        BY <1>4 DEF Retry, At, Elsewhere
    <2> QED
        BY <2>1, <2>2, StatementRows
<1>5. ASSUME Open PROVE RowInv'
    <2>1. /\ UNCHANGED <<tb, stmt, rec, depth, answer, dayOf, today, copies, losses>>
          /\ pc' \in {"query", "failed"} /\ stmt = "createdb"
        BY <1>5 DEF Open, Opens, server, Elsewhere, RowInv, At
    <2> QED
        BY <2>1 DEF RowInv, RowTypes, RowsInPlace, AnswersTrue, CallKnows
<1>6. ASSUME Fail PROVE RowInv'
    <2>1. /\ UNCHANGED <<tb, stmt, rec, depth, answer, dayOf, today, copies, losses>>
          /\ pc' = "exit"
        BY <1>6 DEF Fail, server, session, Elsewhere
    <2> QED
        BY <2>1 DEF RowInv, RowTypes, RowsInPlace, AnswersTrue, CallKnows, InCall
<1>7. ASSUME NEW r \in Records, Insert(r) \/ InsertTooLong(r) PROVE RowInv'
    BY <1>7, InsertRows
<1>8. ASSUME OtherLine PROVE RowInv'
    BY <1>0, <1>8, RowsSame DEF OtherLine, server, session
<1>9. ASSUME Break PROVE RowInv'
    <2>1. losses' \in Nat /\ losses <= losses'
        BY <1>0, <1>9 DEF Break, Loses
    <2> QED
        BY <1>0, <1>9, <2>1, RowsSame DEF Break, server, Elsewhere
<1>10. ASSUME Midnight PROVE RowInv'
    <2>1. today' \in 1..Days
        BY <1>0, <1>10, DatalogAssumption DEF Midnight
    <2> QED
        BY <1>0, <1>10, <2>1, RowsSame DEF Midnight, server, session
<1>11. ASSUME UNCHANGED vars PROVE RowInv'
    BY <1>0, <1>11, RowsSame DEF vars, server, session
<1> QED
    BY <1>1, <1>2, <1>3, <1>4, <1>5, <1>6, <1>7, <1>8, <1>9, <1>10, <1>11 DEF Next, Thread

\* A record whose db_insert_log has returned 0 is in the table of its day, and none
\* is in the table of another day.
THEOREM ReportedAlways == Spec => []Reported
<1>1. RowInv => Reported
    BY DEF RowInv, RowsInPlace, AnswersTrue, Reported
<1> QED
    BY RowInit, RowStep, <1>1, PTL DEF Spec

\* A record is at most twice in its table, and once as long as no connection was lost.
THEOREM AtMostTwiceAlways == Spec => []AtMostTwice
<1>1. ASSUME RowInv PROVE AtMostTwice
    <2>1. losses \in Nat
        BY <1>1 DEF RowInv, RowTypes
    <2>2. Min({1, losses}) = IF losses > 0 THEN 1 ELSE 0
        BY <2>1 DEF Min
    <2>3. \A r \in Records, d \in 1..Days : copies[r][d] <= IF losses > 0 THEN 2 ELSE 1
        BY <1>1 DEF RowInv, RowsInPlace
    <2> QED
        BY <2>1, <2>2, <2>3 DEF AtMostTwice
<1> QED
    BY RowInit, RowStep, <1>1, PTL DEF Spec

-----------------------------------------------------------------------------
(* The lines of the log.                                                   *)

Log == file \o Pending

LEMMA AppendBehind ==
    ASSUME NEW q \in Seq(Nat), NEW r \in Seq(Nat), NEW e \in Nat
    PROVE  q \o Append(r, e) = Append(q \o r, e)
<1>1. /\ <<e>> \in Seq(Nat) /\ q \o r \in Seq(Nat)
      /\ Append(r, e) = r \o <<e>>
    BY AppendIsConcat, ConcatProperties
<1>2. Append(q \o r, e) = (q \o r) \o <<e>>
    BY <1>1, AppendIsConcat
<1>3. (q \o r) \o <<e>> = q \o (r \o <<e>>)
    BY <1>1, ConcatAssociative
<1> QED
    BY <1>1, <1>2, <1>3

\* The lines that are through: a line that waits for room is not.
Waits == step \in {"room", "store", "flush"}
Through == (1..(IF Waits THEN count - 1 ELSE count)) \ dropped

\* Behind the flush for a line longer than the buffer the log is not what it was: the
\* flush wrote what an earlier one had left in the buffer.  The process then ends.
Spoilt == step = "crashed" \/ (step = "store" /\ line.len >= BufLen)

LogTypes ==
    /\ step \in {"idle", "room", "flush", "store", "after", "crashed"}
    /\ buf \in Seq(Nat) /\ file \in Seq(Nat)
    /\ count \in Nat /\ size \in Nat
    /\ line \in [no : 0..count, len : Nat]
    /\ dropped \in SUBSET (1..count)

\* The line in the hands of write_log is the last one, and not given up; the buffer is
\* flushed only when it holds something, or for a line that it cannot take.
LineInv ==
    /\ Waits \/ step = "after" => line.no = count /\ count > 0 /\ line.len > 0
    /\ Waits => count \notin dropped
    /\ step = "flush" => size > 0 \/ line.len >= BufLen
    /\ step = "after" => size > 0

InOrder(s, S) ==
    /\ Len(s) = Cardinality(S)
    /\ \A i \in 1..Len(s) : s[i] \in S /\ (i > 1 => s[i - 1] < s[i])

LogInv ==
    /\ LogTypes
    /\ LineInv
    /\ ~Spoilt => InOrder(Log, Through)

\* A number that is larger than all of a set goes to the end.
LEMMA InOrderAppend ==
    ASSUME NEW s \in Seq(Nat), NEW n \in Nat, NEW S \in SUBSET (1..n),
           InOrder(s, S)
    PROVE  InOrder(Append(s, n + 1), S \union {n + 1})
<1>0. IsFiniteSet(1..n)
    BY FS_Interval
<1>a. IsFiniteSet(S)
    BY <1>0, FS_Subset
<1>b. n + 1 \notin S
    OBVIOUS
<1>1. IsFiniteSet(S) /\ n + 1 \notin S
    BY <1>a, <1>b
<1>2. Cardinality(S \union {n + 1}) = Cardinality(S) + 1
    BY <1>1, FS_AddElement
<1>3. Len(Append(s, n + 1)) = Len(s) + 1 /\ Len(s) \in Nat
    OBVIOUS
<1>4. ASSUME NEW i \in 1..(Len(s) + 1)
      PROVE  /\ Append(s, n + 1)[i] \in S \union {n + 1}
             /\ i > 1 => Append(s, n + 1)[i - 1] < Append(s, n + 1)[i]
    <2>1. \A j \in 1..Len(s) : Append(s, n + 1)[j] = s[j] /\ s[j] \in S /\ s[j] < n + 1
        BY DEF InOrder
    <2>2. CASE i = Len(s) + 1
        <3>1. Append(s, n + 1)[i] = n + 1
            BY <2>2
        <3>2. i > 1 => i - 1 \in 1..Len(s)
            BY <1>3, <2>2
        <3> QED
            BY <2>1, <3>1, <3>2
    <2>3. CASE i \in 1..Len(s)
        <3>1. i > 1 => i - 1 \in 1..Len(s) /\ s[i - 1] < s[i]
            BY <1>3, <2>3 DEF InOrder
        <3> QED
            BY <2>1, <2>3, <3>1
    <2> QED
        BY <1>3, <2>2, <2>3
<1> QED
    BY <1>2, <1>3, <1>4 DEF InOrder

LEMMA LogInvInit == Init => LogInv
<1> SUFFICES ASSUME Init PROVE LogInv
    OBVIOUS
<1>1. /\ step = "idle" /\ buf = <<>> /\ file = <<>> /\ count = 0 /\ size = 0
      /\ line = [no |-> 0, len |-> 0] /\ dropped = {}
    BY DEF Init, LogInit, NoLine
<1>2. LogTypes
    BY <1>1 DEF LogTypes
<1>3. Through = {} /\ Log = <<>>
    BY <1>1 DEF Through, Waits, Log, Pending
<1>4. Cardinality({}) = 0
    BY FS_EmptySet
<1>5. InOrder(Log, Through)
    BY <1>3, <1>4 DEF InOrder
<1> QED
    BY <1>1, <1>2, <1>5 DEF LogInv, LineInv, Waits

\* A new line waits, so that those through are the same.
LEMMA CallsLog ==
    ASSUME LogTypes, NEW len \in Nat \ {0}, Calls(len), UNCHANGED <<buf, size, file>>,
           dropped' \in SUBSET (1..count),
           InOrder(Log, (1..count) \ dropped')
    PROVE  LogInv'
<1>1. line' = [no |-> count + 1, len |-> len] /\ count' = count + 1 /\ step' = "room"
    BY DEF Calls
<1>2. LogTypes'
    BY <1>1 DEF LogTypes
<1>3. LineInv'
    BY <1>1 DEF LineInv, Waits, LogTypes
<1>4. Log' = Log
    BY DEF Log, Pending
<1>5. Through' = (1..count) \ dropped'
    BY <1>1 DEF Through, Waits, LogTypes
<1> QED
    BY <1>2, <1>3, <1>4, <1>5 DEF LogInv

LEMMA LogStepKeeps ==
    ASSUME LogInv, BufInv, LogStep
    PROVE  LogInv'
<1>0. LogTypes /\ LineInv /\ BufLen \in Nat
    BY LogBufAssumption DEF LogInv
<1>1. CASE Room
    <2>1. step = "room" /\ step' \in {"store", "flush"} /\ ~Spoilt
          /\ UNCHANGED <<buf, size, file, line, count, dropped>>
        BY <1>1 DEF Room, Spoilt
    <2>2. LogTypes'
        BY <1>0, <2>1 DEF LogTypes
    <2>3. step' = "flush" => size > 0 \/ line.len >= BufLen
        BY <1>0, <1>1 DEF Room, Fits, LogTypes
    <2>4. LineInv'
        BY <1>0, <2>1, <2>3 DEF LineInv, Waits
    <2>5. Through' = Through /\ Log' = Log
        BY <2>1 DEF Through, Waits, Log, Pending
    <2> QED
        BY <2>1, <2>2, <2>4, <2>5 DEF LogInv
<1>2. CASE Store
    <2>1. /\ step = "store" /\ line.len < BufLen /\ line.no = count /\ count \in Nat \ {0}
          /\ count \notin dropped /\ line.len \in Nat \ {0}
          /\ ~Spoilt
        BY <1>0, <1>2 DEF Store, LogTypes, LineInv, Waits, Spoilt
    <2>2. /\ buf' = Append(Pending, count)
          /\ size' = size + line.len
          /\ step' \in {"after", "idle"}
          /\ line' = line \/ (line' = NoLine /\ step' = "idle")
          /\ UNCHANGED <<file, count, dropped>>
        BY <1>2, <2>1 DEF Store, Pending
    <2>3. Pending \in Seq(Nat) /\ file \in Seq(Nat)
        BY <1>0 DEF LogTypes, Pending
    <2>4. size' \in Nat /\ size' > 0
        BY <1>0, <2>1, <2>2 DEF LogTypes
    <2>5. LogTypes'
        <3>1. line' \in [no : 0..count, len : Nat]
            BY <1>0, <2>2 DEF LogTypes, NoLine
        <3>2. buf' \in Seq(Nat)
            BY <2>1, <2>2, <2>3
        <3> QED
            BY <1>0, <2>2, <2>4, <3>1, <3>2 DEF LogTypes
    <2>6. LineInv'
        BY <1>0, <2>1, <2>2, <2>4 DEF LineInv, Waits
    <2>7. Log' = Append(Log, count)
        <3>1. Log' = file \o Append(Pending, count)
            BY <2>2, <2>4 DEF Log, Pending
        <3>2. count \in Nat
            BY <2>1
        <3>3. file \o Append(Pending, count) = Append(file \o Pending, count)
            BY <2>3, <3>2, AppendBehind
        <3> QED
            BY <3>1, <3>3, Zenon DEF Log
    <2>8. Through' = Through \union {count}
        BY <1>0, <2>1, <2>2 DEF Through, Waits
    <2>9. InOrder(Log', Through')
        <3>1. Log \in Seq(Nat) /\ count - 1 \in Nat /\ Through \in SUBSET (1..(count - 1))
            BY <2>1, <2>3 DEF Log, Through, Waits
        <3>2. InOrder(Append(Log, (count - 1) + 1), Through \union {(count - 1) + 1})
            BY <2>1, <3>1, InOrderAppend DEF LogInv
        <3>3. (count - 1) + 1 = count
            BY <2>1
        <3> QED
            BY <2>7, <2>8, <3>2, <3>3
    <2> QED
        BY <2>5, <2>6, <2>9 DEF LogInv
<1>3. CASE StoreLong
    <2>1. step' = "crashed" /\ UNCHANGED <<buf, size, file, line, count, dropped>>
        BY <1>3 DEF StoreLong
    <2>2. LogTypes'
        BY <1>0, <2>1 DEF LogTypes
    <2> QED
        BY <2>1, <2>2 DEF LogInv, LineInv, Waits, Spoilt
<1>4. CASE Flush
    <2>1. /\ step \in {"flush", "after"} /\ ~Spoilt
          /\ file' = file \o buf /\ size' = 0
          /\ UNCHANGED <<buf, count, dropped>>
          /\ \/ step = "flush" /\ step' = "store" /\ line' = line
             \/ step = "after" /\ step' = "idle" /\ line' = NoLine
        BY <1>4 DEF Flush, Spoilt
    <2>2. line' \in [no : 0..count, len : Nat]
        BY <1>0, <2>1 DEF LogTypes, NoLine
    <2>3. LogTypes'
        BY <1>0, <2>1, <2>2 DEF LogTypes
    <2>4. LineInv'
        BY <1>0, <2>1 DEF LineInv, Waits
    <2>5. Through' = Through
        BY <2>1 DEF Through, Waits
    <2>6. ASSUME ~Spoilt' PROVE Log' = Log
        <3>1. size > 0
            BY <1>0, <2>1, <2>6 DEF LineInv, Spoilt, LogTypes
        <3>2. Log' = (file \o buf) \o <<>>
            BY <2>1 DEF Log, Pending
        <3>3. Log = file \o buf
            BY <3>1 DEF Log, Pending
        <3>4. file \o buf \in Seq(Nat)
            BY <1>0 DEF LogTypes
        <3> QED
            BY <3>2, <3>3, <3>4
    <2>7. ~Spoilt' => InOrder(Log', Through')
        BY <2>1, <2>5, <2>6 DEF LogInv
    <2> QED
        BY <2>3, <2>4, <2>7 DEF LogInv
<1>5. CASE FlushFails
    <2>1. /\ step \in {"flush", "after"} /\ ~Spoilt
          /\ dropped' = IF step = "flush" THEN dropped \union {line.no} ELSE dropped
          /\ Calls(OpenFailedLen)
          /\ UNCHANGED <<buf, size, file>>
        BY <1>5 DEF FlushFails, Spoilt
    <2>2. line.no = count /\ count \in Nat \ {0} /\ dropped \in SUBSET (1..count)
        BY <1>0, <2>1 DEF LineInv, LogTypes, Waits
    <2>3. dropped' \in SUBSET (1..count)
        BY <2>1, <2>2
    <2>4. (1..count) \ dropped' = Through
        <3>1. CASE step = "flush"
            <4>1. (1..count) \ {count} = 1..(count - 1)
                BY <2>2
            <4>2. dropped' = dropped \union {count} /\ Through = (1..(count - 1)) \ dropped
                BY <2>1, <2>2, <3>1 DEF Through, Waits
            <4> QED
                BY <4>1, <4>2
        <3>2. CASE step = "after"
            BY <2>1, <3>2 DEF Through, Waits
        <3> QED
            BY <2>1, <3>1, <3>2
    <2>5. InOrder(Log, (1..count) \ dropped')
        BY <2>1, <2>4 DEF LogInv
    <2>6. OpenFailedLen \in Nat \ {0}
        BY LogBufAssumption
    <2> QED
        BY <1>0, <2>1, <2>3, <2>5, <2>6, CallsLog
<1> QED
    BY <1>1, <1>2, <1>3, <1>4, <1>5 DEF LogStep

LEMMA WriteLogKeeps ==
    ASSUME LogInv, NEW len \in Nat \ {0}, WriteLog(len)
    PROVE  LogInv'
<1>1. step = "idle" /\ Calls(len) /\ UNCHANGED <<buf, size, file, dropped>>
    BY DEF WriteLog, LogIdle
<1>2. ~Spoilt /\ Through = (1..count) \ dropped'
    BY <1>1 DEF Spoilt, Through, Waits
<1>3. InOrder(Log, (1..count) \ dropped') /\ LogTypes /\ dropped' \in SUBSET (1..count)
    BY <1>1, <1>2 DEF LogInv, LogTypes
<1> QED
    BY <1>1, <1>3, CallsLog

LEMMA LogInvStep == LogInv /\ BufInv /\ [Next]_vars => LogInv'
<1> SUFFICES ASSUME LogInv, BufInv, [Next]_vars PROVE LogInv'
    OBVIOUS
<1>1. ReconnectLen \in Nat \ {0}
    BY DatalogAssumption, LogBufAssumption
<1>2. LogRuns => LogInv'
    BY LogStepKeeps DEF LogRuns
<1>3. Query \/ Connect \/ Fail => WriteLog(ReconnectLen) \/ UNCHANGED logVars
    BY DEF Query, Connect, Fail
<1>4. OtherLine => \E len \in Nat \ {0} : WriteLog(len)
    BY DatalogAssumption DEF OtherLine
<1>5. Retry \/ Open \/ Break \/ Midnight \/ UNCHANGED vars => UNCHANGED logVars
    BY DEF Retry, Open, Break, Midnight, vars
<1>6. ASSUME NEW r \in Records, Insert(r) \/ InsertTooLong(r) PROVE UNCHANGED logVars
    BY <1>6 DEF Insert, InsertTooLong
<1>7. ASSUME UNCHANGED logVars PROVE LogInv'
    <2>1. UNCHANGED <<buf, size, file, line, step, count, dropped>>
        BY <1>7 DEF logVars
    <2>2. LogTypes' /\ LineInv'
        BY <2>1 DEF LogInv, LogTypes, LineInv, Waits
    <2>3. Log' = Log /\ Through' = Through /\ Spoilt' = Spoilt
        BY <2>1 DEF Log, Pending, Through, Waits, Spoilt
    <2> QED
        BY <2>2, <2>3 DEF LogInv
<1> QED
    BY <1>1, <1>2, <1>3, <1>4, <1>5, <1>6, <1>7, WriteLogKeeps DEF Next, Thread

\* Files and buffer together hold each line that was not given up, once and in the
\* order of the calls, whenever no log function runs.
THEOREM KeptAlways == Spec => []Kept
<1>1. ASSUME LogInv PROVE Kept
    <2> SUFFICES ASSUME step = "idle" PROVE InOrder(Log, (1..count) \ dropped)
        BY DEF Kept, LogIdle, InOrder, Log
    <2>1. ~Spoilt /\ Through = (1..count) \ dropped
        BY DEF Spoilt, Through, Waits
    <2> QED
        BY <1>1, <2>1 DEF LogInv
<1>2. Init => LogInv /\ BufInv
    BY LogInvInit, BufInit
<1>3. LogInv /\ BufInv /\ [Next]_vars => LogInv' /\ BufInv'
    BY LogInvStep, BufStep
<1> QED
    BY <1>1, <1>2, <1>3, PTL DEF Spec

-----------------------------------------------------------------------------
(* Types.                                                                  *)

\* The rest of the types; the database is selected only on an open connection.
StateTypes ==
    /\ made \in BOOLEAN /\ tables \subseteq 1..Days
    /\ conn \in {"closed", "open", "lost"}
    /\ using \in BOOLEAN /\ (using => conn = "open" /\ made)
    /\ pc \in {"open", "query", "connect", "retry", "failed", "exit", "idle"}
    /\ stmt \in {"createdb", "use", "create", "insert"}

LEMMA TypesInit == Init => StateTypes
<1> SUFFICES ASSUME Init PROVE StateTypes
    OBVIOUS
<1>1. 1 \in 1..Days
    BY DatalogAssumption
<1>2. using \in BOOLEAN /\ (using => conn = "open" /\ made)
    BY DEF Init
<1>3. made \in BOOLEAN /\ tables \subseteq 1..Days
    BY <1>1 DEF Init
<1> QED
    BY <1>2, <1>3 DEF Init, StateTypes

LEMMA QueryTypes ==
    ASSUME StateTypes, RowTypes, NEW q, NEW res, RealQuery(q, res),
           q = "create" => dayOf[rec] \in 1..Days
    PROVE  /\ made' \in BOOLEAN /\ tables' \subseteq 1..Days
           /\ conn' \in {"closed", "open", "lost"}
           /\ using' \in BOOLEAN /\ (using' => conn' = "open" /\ made')
<1>1. /\ made' \in BOOLEAN /\ (made => made')
      /\ tables' \subseteq 1..Days
    BY DEF RealQuery, Effect, StateTypes, server
<1>2. CASE res = "ok" /\ conn = "open" /\ Legal(q) /\ Effect(q)
           /\ using' = (using \/ q = "use") /\ UNCHANGED conn
    <2>1. q = "use" => made
        BY <1>2 DEF Legal
    <2>2. using' \in BOOLEAN
        BY <1>2
    <2>3. using' => using \/ q = "use"
        BY <1>2
    <2> QED
        BY <1>1, <1>2, <2>1, <2>2, <2>3 DEF StateTypes
<1>3. CASE UNCHANGED <<conn, using>>
    BY <1>1, <1>3 DEF StateTypes
<1>4. CASE conn' = "lost" /\ using' = FALSE
    BY <1>1, <1>4
<1> QED
    BY <1>2, <1>3, <1>4 DEF RealQuery, Loses, session

LEMMA TypesStep == StateTypes /\ RowInv /\ [Next]_vars => StateTypes'
<1> SUFFICES ASSUME StateTypes, RowInv, [Next]_vars PROVE StateTypes'
    OBVIOUS
<1>0. RowTypes /\ CallKnows
    BY DEF RowInv
<1>1. ASSUME Returned("ok") \/ Returned("error") \/ Returned("lost")
      PROVE  /\ pc' \in {"open", "query", "connect", "retry", "failed", "exit", "idle"}
             /\ stmt' \in {"createdb", "use", "create", "insert"}
    BY <1>1 DEF Returned, Finish, Created, Answers, StateTypes
<1>2. ASSUME InCall PROVE Top = "create" => dayOf[rec] \in 1..Days
    BY <1>0, <1>2, DatalogAssumption DEF Top, CallKnows, RowTypes
<1>3. ASSUME Query \/ Retry PROVE StateTypes'
    <2>1. PICK res \in Results :
             /\ RealQuery(Top, res)
             /\ \/ pc' = "connect" /\ UNCHANGED stmt
                \/ Returned(res)
        BY <1>3 DEF Query, Retry
    <2>2. InCall
        BY <1>3 DEF Query, Retry, At, InCall
    <2>3. /\ pc' \in {"open", "query", "connect", "retry", "failed", "exit", "idle"}
          /\ stmt' \in {"createdb", "use", "create", "insert"}
        BY <1>1, <2>1 DEF Results, StateTypes
    <2> QED
        BY <1>0, <1>2, <2>1, <2>2, <2>3, QueryTypes DEF StateTypes
<1>4. ASSUME Opens(TRUE) \/ Opens(FALSE)
      PROVE  /\ UNCHANGED <<made, tables>> /\ conn' \in {"closed", "open"}
             /\ using' = FALSE
    BY <1>4 DEF Opens, server
<1>5. ASSUME Connect PROVE StateTypes'
    <2>1. /\ pc' \in {"open", "query", "connect", "retry", "failed", "exit", "idle"}
          /\ stmt' \in {"createdb", "use", "create", "insert"}
        BY <1>1, <1>5 DEF Connect, StateTypes
    <2>2. Opens(TRUE) \/ Opens(FALSE)
        BY <1>5 DEF Connect
    <2> QED
        BY <1>4, <2>1, <2>2 DEF StateTypes
<1>6. ASSUME Open PROVE StateTypes'
    <2>1. /\ Opens(TRUE) \/ Opens(FALSE)
          /\ pc' \in {"query", "failed"} /\ UNCHANGED stmt
        BY <1>6 DEF Open
    <2> QED
        BY <1>4, <2>1 DEF StateTypes
<1>7. ASSUME LogRuns \/ Fail \/ OtherLine \/ Midnight \/ UNCHANGED vars PROVE StateTypes'
    <2>1. UNCHANGED <<made, tables, conn, using, stmt>> /\ pc' \in {pc, "exit"}
        BY <1>7 DEF LogRuns, Fail, OtherLine, Midnight, vars, server, session, call
    <2> QED
        BY <2>1 DEF StateTypes
<1>8. ASSUME NEW r \in Records, Insert(r) \/ InsertTooLong(r) PROVE StateTypes'
    <2>1. /\ UNCHANGED <<made, tables, conn, using>>
          /\ pc' \in {pc, "query"} /\ stmt' \in {stmt, "insert", "create"}
        BY <1>8 DEF Insert, InsertTooLong, server, session
    <2> QED
        BY <2>1 DEF StateTypes
<1>9. ASSUME Break PROVE StateTypes'
    <2>1. UNCHANGED <<made, tables, pc, stmt>> /\ conn' = "lost" /\ using' = FALSE
        BY <1>9 DEF Break, Loses, server, call
    <2> QED
        BY <2>1 DEF StateTypes
<1> QED
    BY <1>3, <1>5, <1>6, <1>7, <1>8, <1>9 DEF Next, Thread

\* The state of the log and of the database stay in their types.
THEOREM DatalogTypeCorrect == Spec => []TypeOK
<1> DEFINE Inv == StateTypes /\ RowInv /\ LogInv /\ BufInv
<1>1. Init => Inv
    BY TypesInit, RowInit, LogInvInit, BufInit
<1>2. Inv /\ [Next]_vars => Inv'
    BY TypesStep, RowStep, LogInvStep, BufStep
<1>3. ASSUME Inv PROVE TypeOK
    <2>1. line.no \in 0..count
        BY <1>3 DEF LogInv, LogTypes
    <2> QED
        BY <1>3, <2>1 DEF TypeOK, StateTypes, RowInv, RowTypes, LogInv, LogTypes
<1> QED
    BY <1>1, <1>2, <1>3, PTL DEF Spec
=============================================================================
