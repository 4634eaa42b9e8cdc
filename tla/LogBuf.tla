------------------------------- MODULE LogBuf -------------------------------
(***************************************************************************)
(* The buffer of the error log.  write_log appends a line to the buffer    *)
(* and flush_log writes the buffer out, when the next line does not fit or *)
(* after every line.                                                       *)
(*                                                                         *)
(* flush_log reports that it cannot open its file by writing a line of its *)
(* own: write_log and flush_log call each other as often as the open fails *)
(* and there is no room for that line.  Since each failed flush is given   *)
(* up by its caller, the calls below the innermost only have to return.    *)
(***************************************************************************)
EXTENDS Integers, Sequences, FiniteSets

CONSTANTS
    BufLen,         \* LOG_BUF_SIZE: 8192
    OpenFailedLen,  \* length of "LOG FILE open failed!"
    MaxFails        \* bound: failed opens

ASSUME LogBufAssumption ==
    /\ BufLen \in Nat
    /\ OpenFailedLen \in 1..(BufLen - 1)
    /\ MaxFails \in Nat

VARIABLES
    buf,      \* the lines in log_buf->buf, which a flush leaves there
    size,     \* log_buf->size
    file,     \* the lines in the log's files
    line,     \* log_info of the innermost write_log
    step,     \* where that is: "idle", "room", "flush", "store", "after",
              \* or "crashed"
    count,    \* write_log calls so far: lines are numbered (history)
    dropped,  \* lines that were given up (history)
    fails     \* opens that failed (history)

logVars == <<buf, size, file, line, step, count, dropped, fails>>

NoLine == [no |-> 0, len |-> 0]

\* init_log.
LogInit ==
    /\ buf = <<>> /\ size = 0
    /\ file = <<>>
    /\ line = NoLine /\ step = "idle"
    /\ count = 0 /\ dropped = {} /\ fails = 0

\* The calling thread is in no log function.
LogIdle == step = "idle"

-----------------------------------------------------------------------------
(* write_log.                                                              *)

Calls(len) ==
    /\ line' = [no |-> count + 1, len |-> len]
    /\ count' = count + 1
    /\ step' = "room"

WriteLog(len) ==
    /\ LogIdle
    /\ Calls(len)
    /\ UNCHANGED <<buf, size, file, dropped, fails>>

FitsExactly == size + line.len <= BufLen      \* mutant: no room for the NUL
Fits == size + line.len < BufLen

Room ==
    /\ step = "room"
    /\ step' = IF Fits THEN "store" ELSE "flush"
    /\ UNCHANGED <<buf, size, file, line, count, dropped, fails>>

\* sprintf at log_buf->size overwrites what a flush has left.  For a line longer
\* than the buffer realloc_logbuffer makes a log_buf without any buf, and the
\* process ends at the write.  The line is flushed at once if setting.is_flush_log
\* says so, which reload_config may change between any two lines.
Store ==
    /\ step = "store"
    /\ line.len < BufLen
    /\ buf' = Append(IF size = 0 THEN <<>> ELSE buf, line.no)
    /\ size' = size + line.len
    /\ \/ step' = "after" /\ UNCHANGED line
       \/ step' = "idle" /\ line' = NoLine
    /\ UNCHANGED <<file, count, dropped, fails>>

StoreLong ==
    /\ step = "store"
    /\ line.len >= BufLen
    /\ step' = "crashed"
    /\ UNCHANGED <<buf, size, file, line, count, dropped, fails>>

-----------------------------------------------------------------------------
(* flush_log.                                                              *)

Flush ==
    /\ step \in {"flush", "after"}
    /\ file' = file \o buf
    /\ size' = 0
    /\ IF step = "flush" THEN step' = "store" /\ UNCHANGED line
                         ELSE step' = "idle" /\ line' = NoLine
    /\ UNCHANGED <<buf, count, dropped, fails>>

\* fopen fails: E, then -1.  A line that waited for room is given up, one that
\* is in the buffer stays there.
FlushFailsEmpties ==          \* mutant: log_buf->size is reset all the same
    /\ step \in {"flush", "after"}
    /\ fails < MaxFails
    /\ fails' = fails + 1
    /\ dropped' = IF step = "flush" THEN dropped \union {line.no} ELSE dropped
    /\ Calls(OpenFailedLen)
    /\ size' = 0
    /\ UNCHANGED <<buf, file>>
FlushFails ==
    /\ step \in {"flush", "after"}
    /\ fails < MaxFails
    /\ fails' = fails + 1
    /\ dropped' = IF step = "flush" THEN dropped \union {line.no} ELSE dropped
    /\ Calls(OpenFailedLen)
    /\ UNCHANGED <<buf, size, file>>

LogStep == Room \/ Store \/ StoreLong \/ Flush \/ FlushFails

-----------------------------------------------------------------------------
(* Properties.                                                             *)

\* What the buffer holds that is not in a file yet.
Pending == IF size = 0 THEN <<>> ELSE buf

\* The log is complete and in order: files and buffer together hold every line
\* once, in the order of the calls, but for those given up.
Kept ==
    LogIdle => /\ Len(file \o Pending) = Cardinality((1..count) \ dropped)
               /\ \A i \in 1..Len(file \o Pending) : 
                     LET at(j) == (file \o Pending)[j] IN
                     at(i) \notin dropped /\ (i > 1 => at(i - 1) < at(i))

\* A line is given up only when a file could not be opened, and for each such
\* failure at most one is; the buffer is never written behind its end, where the
\* NUL of the last line is.
NoOverflow == size < BufLen /\ Cardinality(dropped) <= fails
=============================================================================
