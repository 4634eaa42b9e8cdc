------------------------------- MODULE Stream -------------------------------
(***************************************************************************)
(* The way of framed messages over one socket: the sender's mrpc_buf_t,    *)
(* the kernel, the receiver's mrpc_buf_t.  Clients, backends and mspc all  *)
(* frame alike, so both ends are modelled with mspc's code.                *)
(*                                                                         *)
(* A byte is <<m, i>>, the i-th byte of message m; the first one carries   *)
(* the length.  Sockets are registered edge-triggered: a handler is called *)
(* when bytes arrive, or when space returns after send() found none, and   *)
(* not again until that happens again.                                     *)
(*                                                                         *)
(* A socket may end, and another takes its place.  Agents and the          *)
(* connections of mrpc_svr are freed with their sockets and buffers; the   *)
(* connections of mrpc_cli are not, and their receive buffer goes on with  *)
(* the next stream.                                                        *)
(***************************************************************************)
EXTENDS Integers, Sequences, FiniteSetsExt

CONSTANTS
    N,          \* messages 1..N are sent, in this order
    Length,     \* of each message, header included
    BufSize,    \* MRPC_BUF_SIZE, MSP_BUF_LEN
    Capacity,   \* of the two socket buffers together
    MaxBreaks   \* bound: sockets that end

ASSUME StreamAssumption ==
    /\ N \in Nat
    /\ Length \in [1..N -> Nat \ {0}]
    /\ BufSize \in Nat \ {0}
    /\ Capacity \in Nat \ {0}
    /\ MaxBreaks \in Nat

VARIABLES
    queued,     \* messages put into the send buffer
    sBuf, sOff, sLen,  \* the send buffer: its bytes up to size, offset and len
    blocked,    \* the last send() found no space
    wEdge,      \* EPOLLOUT is pending
    flight,     \* bytes sent that have not arrived
    kern,       \* bytes that have arrived and are not read
    rEdge,      \* EPOLLIN is pending
    pc,         \* "wait" for events, or "parse" what was read
    rBuf, rOff, rLen,  \* the receive buffer
    parsed,     \* messages taken out of it
    keeps,      \* the receiver is a connection of mrpc_cli
    ended,      \* the stream has ended, behind what is in kern
    breaks,     \* sockets that have ended
    cut         \* one did in the middle of a message, and the buffer was kept (history)

sVars == <<queued, sBuf, sOff, sLen>>
rVars == <<pc, rBuf, rOff, rLen, parsed>>
endVars == <<keeps, ended, breaks, cut>>
vars == <<sVars, rVars, endVars, blocked, wEdge, flight, kern, rEdge>>

Init ==
    /\ queued = 0
    /\ sBuf = <<>> /\ sOff = 0 /\ sLen = BufSize
    /\ blocked = FALSE
    /\ wEdge = FALSE
    /\ flight = <<>>
    /\ kern = <<>>
    /\ rEdge = FALSE
    /\ pc = "wait"
    /\ rBuf = <<>> /\ rOff = 0 /\ rLen = BufSize
    /\ parsed = <<>>
    /\ keeps \in BOOLEAN /\ ended = FALSE /\ breaks = 0 /\ cut = FALSE

-----------------------------------------------------------------------------
(* Buffers.                                                                *)

Bytes(m) == [i \in 1..Length[m] |-> <<m, i>>]
From(b, off) == SubSeq(b, off + 1, Len(b))

\* mrpc_buf_enlarge, called until need bytes fit: len is doubled each time.
EnlargedOnce(len, need) == IF len < need THEN 2 * len ELSE len    \* mutant: if, not while
Enlarged(len, need) == Min({x \in {len * 2^j : j \in 0..need} : x >= need})

\* mrpc_buf_reset: the buffer shrinks to its first size.
Shrunk(len) == IF len > BufSize THEN BufSize ELSE len

Space == Capacity - Len(flight) - Len(kern)

-----------------------------------------------------------------------------
(* The sender.                                                             *)

\* mrpc_send2 on a buffer with bytes b from off on: send() until everything is
\* out, and then the buffer is reset, or until there is no space.
Offset(off, k) == off + k
Flush(b, off, len) ==
    LET rest == From(b, off)
        k    == Min({Len(rest), Space})
    IN  /\ flight' = flight \o SubSeq(rest, 1, k)
        /\ blocked' = (k < Len(rest))
        /\ IF k = Len(rest)
           THEN sBuf' = <<>> /\ sOff' = 0 /\ sLen' = Shrunk(len)
           ELSE sBuf' = b /\ sOff' = Offset(off, k) /\ sLen' = len

\* send_direct_response, _cli_send and _send_to_client: make room, append, send.
Queue ==
    /\ queued < N
    /\ ~ended
    /\ queued' = queued + 1
    /\ LET b == sBuf \o Bytes(queued + 1)
       IN  Flush(b, sOff, Enlarged(sLen, Len(b)))
    /\ UNCHANGED <<rVars, endVars, wEdge, kern, rEdge>>

\* mrpc_svr_send, agent_send_client and mrpc_cli_ev_out.
Writable ==
    /\ wEdge
    /\ wEdge' = FALSE
    /\ Flush(sBuf, sOff, sLen)
    /\ UNCHANGED <<rVars, endVars, queued, kern, rEdge>>

-----------------------------------------------------------------------------
(* The network.                                                            *)

Arrive(k) ==
    /\ flight' = From(flight, k)
    /\ kern' = kern \o SubSeq(flight, 1, k)
    /\ rEdge' = TRUE
    /\ UNCHANGED <<sVars, rVars, endVars, blocked, wEdge>>

\* The sender is gone, with all that it has not sent.
NoSender ==
    /\ sBuf' = <<>> /\ sOff' = 0 /\ sLen' = BufSize
    /\ blocked' = FALSE
    /\ wEdge' = FALSE
    /\ flight' = <<>>
    /\ UNCHANGED queued

\* The stream ends, somewhere in what was on its way, or is reset.
Break ==
    /\ breaks < MaxBreaks
    /\ ~ended
    /\ breaks' = breaks + 1
    /\ ended' = TRUE
    /\ NoSender
    /\ kern' \in {<<>>} \union {kern \o SubSeq(flight, 1, k) : k \in 0..Len(flight)}
    /\ rEdge' = TRUE
    /\ UNCHANGED <<rVars, keeps, cut>>

-----------------------------------------------------------------------------
(* The receiver.                                                           *)

\* mrpc_recv2: recv() until the buffer is not filled up, and enlarge it when it
\* is.  That empties the socket, and the peer has space again.
TakenFit == Min({Len(kern), rLen - Len(rBuf)})   \* mutant: a single recv()
Taken == Len(kern)

\* recv() comes back for the end of the stream only behind a read that filled the
\* buffer; if it came back with less, the end goes unnoticed.
EndSeen ==
    /\ ended
    /\ Taken = 0 \/ \E j \in 0..Taken : Len(rBuf) + Taken = rLen * 2^j

Readable ==
    /\ pc = "wait"
    /\ rEdge
    /\ ~EndSeen
    /\ rEdge' = FALSE
    /\ rBuf' = rBuf \o SubSeq(kern, 1, Taken)
    /\ rLen' = Enlarged(rLen, Len(rBuf') + 1)
    /\ kern' = From(kern, Taken)
    /\ wEdge' = (wEdge \/ (blocked /\ Taken > 0))
    /\ blocked' = (blocked /\ Taken = 0)
    /\ pc' = "parse"
    /\ UNCHANGED <<sVars, endVars, flight, rOff, parsed>>

\* mrpc_conn_close, and a new socket, with b from off on in the buffer if it is
\* kept.
Broken(b, off) == off < Len(b) /\ b[Len(b)][2] < Length[b[Len(b)][1]]
KeepsAlways == TRUE     \* mutant: the buffer is kept with its bytes by everyone
Keeps == keeps

Reopen(b, off, len) ==
    /\ NoSender
    /\ kern' = <<>> /\ rEdge' = FALSE /\ ended' = FALSE
    /\ pc' = "wait"
    /\ IF Keeps THEN rBuf' = b /\ rOff' = off /\ rLen' = len
                ELSE rBuf' = <<>> /\ rOff' = 0 /\ rLen' = BufSize
    /\ cut' = (cut \/ (keeps /\ Broken(b, off)))
    /\ UNCHANGED <<parsed, keeps, breaks>>

\* mrpc_recv2 returns 0, and what it has read is not looked at.
ReadEnd ==
    /\ pc = "wait"
    /\ rEdge
    /\ EndSeen
    /\ Reopen(rBuf \o kern, rOff, Enlarged(rLen, Len(rBuf \o kern) + 1))

\* An end that has gone unnoticed shows in a failing send(), or the agent's timer
\* closes the socket.
NoticeEnd ==
    /\ pc = "wait"
    /\ ended
    /\ Reopen(rBuf, rOff, rLen)

\* What mrpc_parse and parse_client_data look at first.
Front == rBuf[rOff + 1]
Unread == Len(rBuf) - rOff
Aligned == Unread > 0 => Front[2] = 1
Whole == Unread > 0 /\ Unread >= Length[Front[1]]

Intact == SubSeq(rBuf, rOff + 1, rOff + Length[Front[1]]) = Bytes(Front[1])

\* A whole message, or what passes for one: the offset moves behind it.
ParseOne ==
    /\ pc = "parse"
    /\ Whole /\ Aligned
    /\ parsed' = Append(parsed, Front[1])
    /\ rOff' = rOff + Length[Front[1]]
    /\ UNCHANGED <<sVars, endVars, pc, rBuf, rLen, blocked, wEdge, flight, kern, rEdge>>

\* mrpc_parse finds no mask, or cannot unpack: the offset stays where it is by
\* then, and the connection is closed.
ParseFails ==
    /\ pc = "parse"
    /\ ~Aligned \/ (Whole /\ ~Intact)
    /\ Reopen(rBuf, rOff + 1, rLen)

\* No whole message is left; the buffer is reset if nothing is left at all.
ResetAlways == TRUE     \* mutant: what is left is forgotten
MayReset == rOff = Len(rBuf)

ParseEnd ==
    /\ pc = "parse"
    /\ ~Whole /\ Aligned
    /\ pc' = "wait"
    /\ IF MayReset
       THEN rBuf' = <<>> /\ rOff' = 0 /\ rLen' = Shrunk(rLen)
       ELSE UNCHANGED <<rBuf, rOff, rLen>>
    /\ UNCHANGED <<sVars, endVars, parsed, blocked, wEdge, flight, kern, rEdge>>

Parse == ParseOne \/ ParseFails \/ ParseEnd

Next ==
    \/ Queue
    \/ Writable
    \/ \E k \in 1..Len(flight) : Arrive(k)
    \/ Readable
    \/ Parse
    \/ Break \/ ReadEnd \/ NoticeEnd

Spec == Init /\ [][Next]_vars

\* The loop handles every pending event, and the network delivers.
Fairness ==
    /\ WF_vars(Writable)
    /\ WF_vars(Readable \/ ReadEnd)
    /\ WF_vars(Parse)
    /\ WF_vars(\E k \in 1..Len(flight) : Arrive(k))

FairSpec == Spec /\ Fairness

-----------------------------------------------------------------------------
(* Properties.                                                             *)

TypeOK ==
    /\ queued \in 0..N
    /\ parsed \in Seq(1..N)
    /\ sOff \in 0..Len(sBuf) /\ Len(sBuf) <= sLen
    /\ rOff \in 0..Len(rBuf) /\ Len(rBuf) <= rLen
    /\ Space >= 0
    /\ pc \in {"wait", "parse"}
    /\ {blocked, wEdge, rEdge, keeps, ended, cut} \subseteq BOOLEAN

\* The messages come out as they went in, each once and in order, whatever the
\* pieces in which the socket takes and gives them; mrpc_parse never looks for a
\* message, and its mask, where none begins.  Messages are missing only if a
\* socket has ended, and the order is lost only if one has in the middle of a
\* message whose beginning stayed in a buffer of the RPC client.
InOrder ==
    cut \/ /\ pc = "parse" => Aligned /\ (Whole => Intact)
           /\ \A i \in 1..Len(parsed) : IF breaks = 0 THEN parsed[i] = i
                                        ELSE i > 1 => parsed[i - 1] < parsed[i]
           /\ \A i \in 1..Len(parsed) : parsed[i] <= queued

\* No edge is missed: while no socket has ended, a message that is not parsed has a
\* step before it, of the parser, of an event that is pending or of the network.
\* Nothing waits in a buffer for an event that does not come.
NothingStuck ==
    breaks = 0 /\ Len(parsed) < queued =>
        pc = "parse" \/ rEdge \/ wEdge \/ flight # <<>>

\* Every message put into the send buffer is parsed in the end, if no socket ends.
AllParsed == \A m \in 1..N : queued >= m ~> Len(parsed) >= m \/ breaks > 0
=============================================================================
