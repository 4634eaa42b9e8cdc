------------------------------ MODULE Upstream ------------------------------
(***************************************************************************)
(* The RPC client: mspc's connections to one backend address               *)
(* (mrpc_us_item_t), which forward what clients send and what mspc         *)
(* itself reports.                                                         *)
(*                                                                         *)
(* A message goes to the next connection that is up, or to the pending     *)
(* list when none is.  Each connection has an output buffer that outlives  *)
(* the socket: what could not be sent stays, and goes out first on the     *)
(* next socket.  A message is two pieces here, so that a socket can break  *)
(* between them; each attempt to send one takes the connection's next      *)
(* sequence number, under which the response is expected.  A message that  *)
(* cannot be packed fails before it has a number or is in the buffer.      *)
(*                                                                         *)
(* The backend reads each socket's stream, answers every whole message,    *)
(* and gives up a stream in which a message does not start with its first  *)
(* piece.                                                                  *)
(***************************************************************************)
EXTENDS Integers, Sequences, FiniteSets

CONSTANTS
    Msgs,         \* messages, each passed to mrpc_us_send at most once
    Unpackable,   \* those that pbc_pattern_pack does not get into content.len + 1024
                  \* bytes, for a long user_context; the header fits its 128 always
    ConnCount,    \* UP_CONN_COUNT: 3
    MaxPending,   \* MRPC_MAX_PENDING: 102400
    MaxErrors,    \* bound: failed calls of send()
    MaxBreaks,    \* bound: connections that break
    None

ASSUME UpstreamAssumption ==
    /\ Unpackable \subseteq Msgs
    /\ ConnCount \in Nat \ {0}
    /\ {MaxPending, MaxErrors, MaxBreaks} \subseteq Nat
    /\ None \notin Msgs \union Nat

VARIABLES
    status,     \* c->conn_status: "disconnected", "connecting" or "connected"
    out,        \* c->send_buf: pieces <<seq, 1 or 2>> not sent yet
    sent,       \* the messages c->seq was given to, in order: Len is c->seq
    stash,      \* c->root: sequence numbers with a response outstanding
    pending,    \* us->pending_list
    pendCount,  \* us->pend_count
    cur,        \* us->current_conn, modulo ConnCount
    ret,        \* what mrpc_us_send returned for a message
    wire,       \* pieces on their way to the backend, on the present socket
    half,       \* the message whose first piece the backend read last, or None
    misread,    \* the backend found the stream out of step
    back,       \* responses on their way, by sequence number
    delivered,  \* how many times the backend got each message in full
    cut,        \* the last break left the rest of a message in front in out (history)
    errors,     \* failed calls of send() (history)
    breaks      \* sockets that broke, other than those the backend gave up (history)

cliVars == <<status, out, sent, stash, pending, pendCount, cur, ret>>
svrVars == <<wire, half, misread, back, delivered>>
vars == <<cliVars, svrVars, cut, errors, breaks>>

Conns == 0..(ConnCount - 1)

Init ==
    /\ status \in [Conns -> {"disconnected", "connecting"}]
    /\ out = [c \in Conns |-> <<>>]
    /\ sent = [c \in Conns |-> <<>>]
    /\ stash = [c \in Conns |-> {}]
    /\ pending = <<>>
    /\ pendCount = 0
    /\ cur = 0
    /\ ret = [m \in Msgs |-> "none"]
    /\ wire = [c \in Conns |-> <<>>]
    /\ half = [c \in Conns |-> None]
    /\ misread = [c \in Conns |-> FALSE]
    /\ back = [c \in Conns |-> {}]
    /\ delivered = [m \in Msgs |-> 0]
    /\ cut = [c \in Conns |-> FALSE]
    /\ errors = 0
    /\ breaks = 0

-----------------------------------------------------------------------------
(* Sending.                                                                *)

\* The pieces of n messages with sequence numbers from base + 1 on.
Pieces(base, n) ==
    [i \in 1..(2 * n) |-> <<base + (i + 1) \div 2, IF i % 2 = 1 THEN 1 ELSE 2>>]

FromAhead(s, k) == SubSeq(s, k + 2, Len(s))   \* mutant: offset moved too far
From(s, k) == SubSeq(s, k + 1, Len(s))

\* _map_add and _map_remove on c->root.
Stashed(c, S) == [stash EXCEPT ![c] = @ \union S]
Unstashed(c, S) == [stash EXCEPT ![c] = @ \ S]

\* _cli_send, _send_inner and mrpc_send for the messages ms one after the other:
\* each takes a sequence number and goes into the output buffer, of which the
\* socket takes the first k pieces in all; those in ok are then stashed.
Attempt(c, ms, ok, k) ==
    LET base == Len(sent[c])
        all  == out[c] \o Pieces(base, Len(ms))
    IN  /\ k <= Len(all)
        /\ sent' = [sent EXCEPT ![c] = @ \o ms]
        /\ stash' = Stashed(c, {base + i : i \in ok})
        /\ out' = [out EXCEPT ![c] = From(all, k)]
        /\ wire' = [wire EXCEPT ![c] = @ \o SubSeq(all, 1, k)]

MaxPieces(c, n) == Len(out[c]) + 2 * n

\* _send_pending gets j messages out and stops at the first that fails, which stays
\* in the list: one whose send() fails has its pieces in the output buffer, one that
\* cannot be packed leaves nothing there.
GoesOut(j) == \A i \in 1..j : pending[i] \notin Unpackable
SendFails(j) == j < Len(pending) /\ pending[j + 1] \notin Unpackable
Tried(j) == SubSeq(pending, 1, IF SendFails(j) THEN j + 1 ELSE j)
LeftPendingNone(j) == <<>>                   \* mutant: the list is emptied
LeftPendingAll(j) == pending                 \* mutant: no list_del
LeftPending(j) == From(pending, j)
Broken(j) == IF SendFails(j) THEN 1 ELSE 0

PendingSent(c, j, k) ==
    /\ GoesOut(j)
    /\ errors' = errors + Broken(j)
    /\ errors' <= MaxErrors
    /\ Attempt(c, Tried(j), 1..j, k)
    /\ pending' = LeftPending(j)

\* _get_conn passes over the next n connections, and tries to connect those that
\* are disconnected; each attempt is under way or has failed when it returns.
Passed(n) == {(cur + i) % ConnCount : i \in 0..(n - 1)}
Scan(n) ==
    \E T \in SUBSET {c \in Passed(n) : status[c] = "disconnected"} :
        status' = [c \in Conns |-> IF c \in T THEN "connecting" ELSE status[c]]

\* mrpc_us_send when the n-th next connection is the first that is connected: the
\* pending messages go first, then m, whatever became of them.
NextUp(n) ==
    /\ status[(cur + n) % ConnCount] = "connected"
    /\ \A d \in Passed(n) : status[d] # "connected"
    /\ Scan(n)
    /\ cur' = (cur + n + 1) % ConnCount

UsSend(m, n) ==
    LET c == (cur + n) % ConnCount IN
    /\ ret[m] = "none" /\ m \notin Unpackable
    /\ NextUp(n)
    /\ \E j \in 0..Len(pending), fails \in {0, 1} :
          LET ms == Tried(j) \o <<m>> IN
          /\ GoesOut(j)
          /\ errors' = errors + Broken(j) + fails
          /\ errors' <= MaxErrors
          /\ \E k \in 0..(MaxPieces(c, Len(ms)) - fails) :
                Attempt(c, ms, (1..j) \union (IF fails = 0 THEN {Len(ms)} ELSE {}), k)
          /\ pending' = LeftPending(j)
          /\ ret' = [ret EXCEPT ![m] = IF fails = 1 THEN "failed" ELSE "ok"]
    /\ UNCHANGED <<pendCount, half, misread, back, delivered, cut, breaks>>

\* The same when m cannot be packed: only the pending messages call mrpc_send.
UsSendUnpacked(m, n) ==
    LET c == (cur + n) % ConnCount IN
    /\ ret[m] = "none" /\ m \in Unpackable
    /\ NextUp(n)
    /\ \E j \in 0..Len(pending) :
          \E k \in 0..(IF Tried(j) = <<>> THEN 0
                          ELSE MaxPieces(c, Len(Tried(j))) - Broken(j)) :
              PendingSent(c, j, k)
    /\ ret' = [ret EXCEPT ![m] = "failed"]
    /\ UNCHANGED <<pendCount, half, misread, back, delivered, cut, breaks>>

NoneUp == \A c \in Conns : status[c] # "connected"

\* mrpc_us_send when no connection is up: m joins the pending list ...
FullLate == pendCount > MaxPending    \* mutant
Full == pendCount >= MaxPending

UsQueue(m) ==
    /\ ret[m] = "none"
    /\ NoneUp
    /\ ~Full
    /\ Scan(ConnCount)
    /\ pending' = Append(pending, m)
    /\ pendCount' = pendCount + 1
    /\ ret' = [ret EXCEPT ![m] = "ok"]
    /\ UNCHANGED <<out, sent, stash, cur, svrVars, cut, errors, breaks>>

\* ... or is refused, with -4.
UsReject(m) ==
    /\ ret[m] = "none"
    /\ NoneUp
    /\ Full
    /\ Scan(ConnCount)
    /\ ret' = [ret EXCEPT ![m] = "full"]
    /\ UNCHANGED <<out, sent, stash, pending, pendCount, cur, svrVars, cut, errors, breaks>>

-----------------------------------------------------------------------------
(* Events on a connection.                                                 *)

\* mrpc_conn_close: the socket and all that was on it are gone; the output
\* buffer and the stash stay.
Closed(c) ==
    /\ status' = [status EXCEPT ![c] = "disconnected"]
    /\ half' = [half EXCEPT ![c] = None]
    /\ misread' = [misread EXCEPT ![c] = FALSE]
    /\ back' = [back EXCEPT ![c] = {}]

\* mrpc_cli_ev_out on a connection that has come up: the pending messages are
\* sent, and what the output buffer still holds.
Connected(c) ==
    /\ status[c] = "connecting"
    /\ status' = [status EXCEPT ![c] = "connected"]
    /\ \E j \in 0..Len(pending) :
          \E k \in 0..MaxPieces(c, Len(Tried(j))) : PendingSent(c, j, k)
    /\ UNCHANGED <<pendCount, cur, ret, half, misread, back, delivered, cut, breaks>>

\* mrpc_cli_ev_out when the attempt to connect has failed.
ConnectFails(c) ==
    /\ status[c] = "connecting"
    /\ status' = [status EXCEPT ![c] = "disconnected"]
    /\ UNCHANGED <<out, sent, stash, pending, pendCount, cur, ret, svrVars, cut, errors, breaks>>

\* mrpc_cli_ev_out: the socket takes more of the output buffer.
EvOut(c) ==
    /\ status[c] = "connected"
    /\ \E k \in 1..Len(out[c]) : Attempt(c, <<>>, {}, k)
    /\ UNCHANGED <<status, pending, pendCount, cur, ret, half, misread, back, delivered,
                   cut, errors, breaks>>

\* mrpc_cli_ev_in reads a response and takes its request out of the stash.
EvIn(c) ==
    /\ status[c] = "connected"
    /\ \E s \in back[c] :
          /\ back' = [back EXCEPT ![c] = @ \ {s}]
          /\ stash' = Unstashed(c, {s})
    /\ UNCHANGED <<status, out, sent, pending, pendCount, cur, ret, wire, half, misread,
                   delivered, cut, errors, breaks>>

\* mrpc_cli_ev_in at the end of the stream, or mrpc_cli_ev_out when send() fails.
\* A handler that sends and then fails is a sending action followed by this one:
\* the backend may read in between.  The backend ends every stream it cannot follow.
Break(c) ==
    /\ status[c] = "connected"
    /\ misread[c] \/ breaks < MaxBreaks
    /\ breaks' = IF misread[c] THEN breaks ELSE breaks + 1
    /\ Closed(c)
    /\ wire' = [wire EXCEPT ![c] = <<>>]
    /\ cut' = [cut EXCEPT ![c] = out[c] # <<>> /\ Head(out[c])[2] = 2]
    /\ UNCHANGED <<out, sent, stash, pending, pendCount, cur, ret, delivered, errors>>

\* The backend reads the next piece.
BackendReads(c) ==
    /\ wire[c] # <<>>
    /\ ~misread[c]
    /\ LET p == Head(wire[c])
           s == p[1]
       IN \/ /\ p[2] = 1 /\ half[c] = None
             /\ half' = [half EXCEPT ![c] = s]
             /\ UNCHANGED <<misread, back, delivered>>
          \/ /\ p[2] = 2 /\ half[c] = s
             /\ half' = [half EXCEPT ![c] = None]
             /\ back' = [back EXCEPT ![c] = @ \union {s}]
             /\ delivered' = [delivered EXCEPT ![sent[c][s]] = @ + 1]
             /\ UNCHANGED misread
          \/ /\ ~(p[2] = 1 /\ half[c] = None)
             /\ ~(p[2] = 2 /\ half[c] = s)
             /\ misread' = [misread EXCEPT ![c] = TRUE]
             /\ UNCHANGED <<half, back, delivered>>
    /\ wire' = [wire EXCEPT ![c] = Tail(@)]
    /\ UNCHANGED <<cliVars, cut, errors, breaks>>

Next ==
    \/ \E m \in Msgs, n \in Conns : UsSend(m, n) \/ UsSendUnpacked(m, n)
    \/ \E m \in Msgs : UsQueue(m) \/ UsReject(m)
    \/ \E c \in Conns : \/ Connected(c) \/ ConnectFails(c)
                        \/ EvOut(c) \/ EvIn(c) \/ Break(c)
                        \/ BackendReads(c)

Spec == Init /\ [][Next]_vars

-----------------------------------------------------------------------------
(* Properties.                                                             *)

InSeq(m, s) == \E i \in 1..Len(s) : s[i] = m

TypeOK ==
    /\ status \in [Conns -> {"disconnected", "connecting", "connected"}]
    /\ sent \in [Conns -> Seq(Msgs)]
    /\ {out, wire} \subseteq [Conns -> Seq(Nat \X {1, 2})]
    /\ {stash, back} \subseteq [Conns -> SUBSET Nat]
    /\ half \in [Conns -> Nat \union {None}]
    /\ {misread, cut} \subseteq [Conns -> BOOLEAN]
    /\ \A c \in Conns :
          /\ stash[c] \subseteq 1..Len(sent[c])
          /\ out[c] \in Seq((1..Len(sent[c])) \X {1, 2})
          /\ wire[c] \in Seq((1..Len(sent[c])) \X {1, 2})
          /\ half[c] \in (1..Len(sent[c])) \union {None}
          /\ back[c] \subseteq 1..Len(sent[c])
    /\ pending \in Seq(Msgs)
    /\ pendCount \in 0..MaxPending
    /\ cur \in Conns
    /\ ret \in [Msgs -> {"none", "ok", "failed", "full"}]
    /\ delivered \in [Msgs -> Nat]
    /\ errors \in Nat /\ breaks \in Nat

\* A message for which mrpc_us_send returned 0 is not forgotten: it is pending,
\* or its response is outstanding, or the backend has it.  Only a connection
\* that breaks takes a message away, and then the stash still knows of it.
NotForgotten ==
    \A m \in Msgs : ret[m] = "ok" =>
        \/ InSeq(m, pending)
        \/ \E c \in Conns : \E s \in stash[c] : sent[c][s] = m
        \/ delivered[m] > 0

\* As long as no call of send() fails, no message reaches the backend twice,
\* though connections break and pending messages are tried again.
NoDuplicates == errors = 0 => \A m \in Msgs : delivered[m] <= 1

\* The backend finds a stream out of step only if the connection's last socket broke
\* between the pieces of a message: every other stream of a connection starts with
\* the first piece of one, whatever broke before and whatever was left to send.
InStep == \A c \in Conns : misread[c] => cut[c]

\* As long as no call of send() fails, messages are left pending while a connection
\* is up only behind one that cannot be packed, which nothing takes off the list.
PendingGoesOut ==
    errors = 0 /\ (\E c \in Conns : status[c] = "connected") =>
        pending = <<>> \/ Head(pending) \in Unpackable

\* mrpc_us_send refuses a message with "max pending" only when that many are
\* pending (the return codes above mrpc_us_send in mrpc_cli.c).
RefusedOnlyWhenFull ==
    [][\A m \in Msgs : ret[m] = "none" /\ ret'[m] = "full" => Len(pending) >= MaxPending]_vars

\* A message for which mrpc_us_send returned "send failed" does not reach the
\* backend: its client has been told 502 (the return codes above mrpc_us_send).
FailedNotDelivered == \A m \in Msgs : ret[m] = "failed" => delivered[m] = 0
=============================================================================
