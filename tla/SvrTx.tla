------------------------------- MODULE SvrTx -------------------------------
(***************************************************************************)
(* Server transactions: the requests that backends send through mspc to a  *)
(* mobile client with "BacktrackMethod", whose answer mspc must bring back *)
(* on the backend's own connection.                                        *)
(*                                                                         *)
(* Three lifetimes meet here, all in the one event loop thread:            *)
(*   - a backend connection (mrpc_connection_t) may break at any moment;   *)
(*     while buffered requests point to it (refs) it is put aside in       *)
(*     stash_conns_table, keyed by its old descriptor, instead of freed;   *)
(*   - an agent (pxy_agent_t, one connected client) may go at any moment,  *)
(*     and its table of buffered requests (svr_req_buf) goes with it;      *)
(*   - a buffered request (mrpc_req_buf_t) is keyed by a 15-bit sequence   *)
(*     number and is taken out by the client's answer, by the agent's      *)
(*     timer once it is overdue, or by the end of the agent.               *)
(*                                                                         *)
(* Every handler runs to completion, so every action is one handler call,  *)
(* or, for the two handlers that loop over the messages they received, one *)
(* message of the loop.                                                    *)
(***************************************************************************)
EXTENDS Integers, FiniteSets

CONSTANTS
    Agents,        \* client connections, each accepted at most once
    Conns,         \* backend connections, each accepted at most once
    Reqs,          \* backtrack requests, each received at most once
    Fds,           \* descriptors the kernel hands out to backend connections
    NoFd, NoConn, NoAgent,
    NoResp, Overtime, Failed,   \* no answer yet, the 504 answer, no answer got out
    MaxSeq,        \* largest sequence number: 32767
    TxTimeout,     \* setting.transaction_timeout
    FirstDelay,    \* the first agent timer: 10
    TimerInterval, \* AGENT_TIMER_INTERVAL: 30
    AliveTime,     \* setting.check_client_alive_time
    MaxLate,       \* how many seconds late the loop may run a timer
    FdReuse,       \* may the descriptor of a stashed connection come back?
    SeqWraps       \* may one client be sent more than MaxSeq messages?

ASSUME FiniteAssumption ==
    /\ IsFiniteSet(Reqs)
    /\ IsFiniteSet(Conns)

ASSUME DistinctAssumption ==
    /\ NoFd \notin Fds
    /\ NoConn \notin Conns
    /\ NoAgent \notin Agents
    /\ {NoResp, Overtime, Failed} \intersect Reqs = {}
    /\ NoResp # Overtime /\ NoResp # Failed /\ Overtime # Failed

ASSUME NumberAssumption ==
    /\ MaxSeq \in Nat \ {0}
    /\ TxTimeout \in Nat
    /\ FirstDelay \in Nat \ {0}
    /\ TimerInterval \in Nat
    /\ FirstDelay <= TimerInterval
    /\ AliveTime \in Nat
    /\ MaxLate \in Nat

ASSUME SwitchAssumption == FdReuse \in BOOLEAN /\ SeqWraps \in BOOLEAN

VARIABLES
    connSt,    \* "none", "open", "stashed" (closed, refs # 0) or "freed"
    connFd,    \* c->fd, kept after close(), until the connection is freed
    refs,      \* c->refs
    agSt,      \* "none", "accepted", "mapped" (epid in worker->root), "closed"
    bnSeq,     \* a->bn_seq
    timer,     \* seconds until a->timer is due; negative when it is late
    idle,      \* seconds since a->last_active, saturating at AliveTime + 1
    phase,     \* "idle", "refused", "buffered", "done" or "leaked"
    owner,     \* the agent a request was buffered in
    rConn,     \* req->c
    rSeq,      \* req->sequence
    left,      \* req->time - now
    resp       \* what was written on req->c: the request the client answered,
               \* Overtime, or Failed when nothing got out

connVars == <<connSt, connFd, refs>>
agVars   == <<agSt, bnSeq, timer, idle>>
reqVars  == <<phase, owner, rConn, rSeq, left, resp>>
vars     == <<connVars, agVars, reqVars>>

-----------------------------------------------------------------------------
(* Helpers.                                                                *)

Up(a) == agSt[a] \in {"accepted", "mapped"}

Table(a) == {r \in Reqs : phase[r] = "buffered" /\ owner[r] = a}

Floor == -(TimerInterval + MaxLate + 1)    \* where left saturates

\* seq_increment: 15 bits, and never 0, which ends the list of keys that
\* check_svr_req_buf collects.
NextSeqOld(s) == IF s = MaxSeq THEN 1 ELSE s          \* mutant: return seq++
NextSeq(s) == IF s = MaxSeq THEN 1 ELSE s + 1

CanNumber(a) == SeqWraps \/ bnSeq[a] < MaxSeq

\* The entries of a's table under one key.  The table does not check for
\* duplicate keys, and which of two is returned is left open.
Entries(a, s) == {r \in Table(a) : rSeq[r] = s}

\* Taking entries out of a table by key, once per request of E, removes as
\* many entries under each key as E has, but not necessarily those of E.
TakenByKey(a, E) ==
    {P \in SUBSET Table(a) :
        \A s \in 1..MaxSeq :
            Cardinality({r \in P : rSeq[r] = s}) = Cardinality({r \in E : rSeq[r] = s})}

\* What conn_status == MRPC_CONN_CONNECTED lets through to send_svr_response;
\* the status of a freed connection reads as anything.
MayWrite(c) == connSt[c] \in {"open", "freed"}

\* req->c->refs -= 1 for every request of P.
UnrefNone(P) == refs    \* mutant: the reference is kept
Unref(P) == [c \in Conns |-> refs[c] - Cardinality({r \in P : rConn[r] = c})]

\* mrpc_conn_close and mrpc_conn_free: close the descriptor, then free the
\* connection, or stash it while requests point to it.
CloseConnAlways(c) ==   \* mutant: refs not looked at
    /\ connSt' = [connSt EXCEPT ![c] = "freed"]
    /\ connFd' = [connFd EXCEPT ![c] = NoFd]
CloseConn(c) ==
    IF refs[c] = 0
    THEN /\ connSt' = [connSt EXCEPT ![c] = "freed"]
         /\ connFd' = [connFd EXCEPT ![c] = NoFd]
    ELSE /\ connSt' = [connSt EXCEPT ![c] = "stashed"]
         /\ UNCHANGED connFd

\* pxy_agent_close on the agent itself, after worker_remove_agent.
CloseAgent(a) ==
    /\ agSt' = [agSt EXCEPT ![a] = "closed"]
    /\ bnSeq' = [bnSeq EXCEPT ![a] = 0]
    /\ timer' = [timer EXCEPT ![a] = 0]
    /\ idle' = [idle EXCEPT ![a] = 0]

\* hashtable_destroy(a->svr_req_buf) frees the requests still buffered, of the
\* phases ph, and leaves their references on the connections.
Leak(ph, a) == [r \in Reqs |-> IF ph[r] = "buffered" /\ owner[r] = a THEN "leaked"
                               ELSE ph[r]]

Init ==
    /\ connSt = [c \in Conns |-> "none"]
    /\ connFd = [c \in Conns |-> NoFd]
    /\ refs = [c \in Conns |-> 0]
    /\ agSt = [a \in Agents |-> "none"]
    /\ bnSeq = [a \in Agents |-> 0]
    /\ timer = [a \in Agents |-> 0]
    /\ idle = [a \in Agents |-> 0]
    /\ phase = [r \in Reqs |-> "idle"]
    /\ owner = [r \in Reqs |-> NoAgent]
    /\ rConn = [r \in Reqs |-> NoConn]
    /\ rSeq = [r \in Reqs |-> 0]
    /\ left = [r \in Reqs |-> 0]
    /\ resp = [r \in Reqs |-> NoResp]

-----------------------------------------------------------------------------
(* Backend connections.                                                    *)

\* Descriptors of open connections are taken; those of stashed ones are closed,
\* and the kernel may hand them out again.
FdFree(f) == \A c \in Conns : /\ connSt[c] = "open" => connFd[c] # f
                              /\ connSt[c] = "stashed" /\ ~FdReuse => connFd[c] # f

\* mrpc_svr_accept.  When the descriptor cannot be registered with epoll the new
\* connection is closed and freed at once.
AcceptConn(c) ==
    /\ connSt[c] = "none"
    /\ \E f \in Fds :
          /\ FdFree(f)
          /\ \/ /\ connSt' = [connSt EXCEPT ![c] = "open"]
                /\ connFd' = [connFd EXCEPT ![c] = f]
             \/ /\ connSt' = [connSt EXCEPT ![c] = "freed"]
                /\ UNCHANGED connFd
    /\ UNCHANGED <<refs, agVars, reqVars>>

\* mrpc_svr_recv on end of file, on an unparsable message or when the direct
\* response cannot be sent, and mrpc_svr_send when the output cannot be sent.
ConnDown(c) ==
    /\ connSt[c] = "open"
    /\ CloseConn(c)
    /\ UNCHANGED <<refs, agVars, reqVars>>

-----------------------------------------------------------------------------
(* Messages from backends.                                                 *)

\* agent_mrpc_handler: a message that wants no answer and goes to the client of
\* a; numbered if it is a request (its format is below 128), and not if it answers
\* one of the client.
\* Messages for clients nobody knows, and the internal command 101, change
\* nothing here.
RecvDirect(c, a) ==
    /\ connSt[c] = "open"
    /\ agSt[a] = "mapped"
    /\ \E request \in BOOLEAN :
          /\ request => CanNumber(a)
          /\ bnSeq' = IF request THEN [bnSeq EXCEPT ![a] = NextSeq(@)] ELSE bnSeq
    /\ UNCHANGED <<connVars, agSt, timer, idle, reqVars>>

\* agent_mrpc_handler when the client cannot be written to, or for the internal
\* command 102, which closes the agent.
RecvDirectClose(c, a) ==
    /\ connSt[c] = "open"
    /\ agSt[a] = "mapped"
    /\ CloseAgent(a)
    /\ phase' = Leak(phase, a)
    /\ UNCHANGED <<connVars, owner, rConn, rSeq, left, resp>>

\* mrpc_process_client_req and agent_mrpc_handler2 for a request whose epid no
\* agent has (or an internal command): its -1 is ignored, nothing is written,
\* and the request is forgotten.
RecvBacktrackRefused(c, r) ==
    /\ connSt[c] = "open"
    /\ phase[r] = "idle"
    /\ phase' = [phase EXCEPT ![r] = "refused"]
    /\ UNCHANGED <<connVars, agVars, owner, rConn, rSeq, left, resp>>

\* What agent_mrpc_handler2 stores before it sends: the entry, its reference on
\* the connection, its sequence number and its deadline.
BufferAgain(c, a, r) ==    \* mutant: sequence = ++a->bn_seq, a second time
    /\ refs' = [refs EXCEPT ![c] = @ + 1]
    /\ owner' = [owner EXCEPT ![r] = a]
    /\ rConn' = [rConn EXCEPT ![r] = c]
    /\ rSeq' = [rSeq EXCEPT ![r] = NextSeq(bnSeq[a]) + 1]
    /\ left' = [left EXCEPT ![r] = TxTimeout]
    /\ UNCHANGED <<connSt, connFd, resp>>
Buffer(c, a, r) ==
    /\ refs' = [refs EXCEPT ![c] = @ + 1]
    /\ owner' = [owner EXCEPT ![r] = a]
    /\ rConn' = [rConn EXCEPT ![r] = c]
    /\ rSeq' = [rSeq EXCEPT ![r] = NextSeq(bnSeq[a])]
    /\ left' = [left EXCEPT ![r] = TxTimeout]
    /\ UNCHANGED <<connSt, connFd, resp>>

\* agent_mrpc_handler2 when the request reaches the client's send buffer.
RecvBacktrack(c, a, r) ==
    /\ connSt[c] = "open"
    /\ agSt[a] = "mapped"
    /\ phase[r] = "idle"
    /\ CanNumber(a)
    /\ Buffer(c, a, r)
    /\ phase' = [phase EXCEPT ![r] = "buffered"]
    /\ bnSeq' = [bnSeq EXCEPT ![a] = NextSeq(bnSeq[a])]
    /\ UNCHANGED <<agSt, timer, idle>>

\* agent_mrpc_handler2 when the client cannot be written to: the agent is
\* closed, and the entry just made is freed with its table.
RecvBacktrackClose(c, a, r) ==
    /\ connSt[c] = "open"
    /\ agSt[a] = "mapped"
    /\ phase[r] = "idle"
    /\ CanNumber(a)
    /\ Buffer(c, a, r)
    /\ phase' = [Leak(phase, a) EXCEPT ![r] = "leaked"]
    /\ CloseAgent(a)

-----------------------------------------------------------------------------
(* Clients.                                                                *)

\* pxy_agent_new: the first timer is set, and last_active is still 0, so the
\* agent counts as idle since ever until it sends something.
AcceptAgent(a) ==
    /\ agSt[a] = "none"
    /\ agSt' = [agSt EXCEPT ![a] = "accepted"]
    /\ timer' = [timer EXCEPT ![a] = FirstDelay]
    /\ idle' = [idle EXCEPT ![a] = AliveTime + 1]
    /\ UNCHANGED <<connVars, bnSeq, reqVars>>

\* agent_recv_client for a message of the client's own, or an answer that
\* matches nothing: the first message gives the agent its epid.
ClientSends(a) ==
    /\ Up(a)
    /\ agSt' = [agSt EXCEPT ![a] = "mapped"]
    /\ idle' = [idle EXCEPT ![a] = 0]
    /\ UNCHANGED <<connVars, bnSeq, timer, reqVars>>

\* agent_svr_response: the entry leaves the table, the answer to request r is
\* written on its connection, and the reference goes.
Settle(x, r) ==
    /\ phase' = [phase EXCEPT ![x] = "done"]
    /\ \/ MayWrite(rConn[x]) /\ resp' = [resp EXCEPT ![x] = r]
       \/ resp' = [resp EXCEPT ![x] = Failed]
    /\ refs' = Unref({x})

\* The client answers request r, which it was sent before, perhaps long ago and
\* perhaps not for the first time; the answer carries r's sequence number.
ClientAnswers(a, r) ==
    /\ agSt[a] = "mapped"
    /\ owner[r] = a
    /\ phase[r] \in {"buffered", "done"}
    /\ \E x \in Entries(a, rSeq[r]) : Settle(x, r)
    /\ idle' = [idle EXCEPT ![a] = 0]
    /\ UNCHANGED <<connSt, connFd, agSt, bnSeq, timer, owner, rConn, rSeq, left>>

\* agent_recv_client and agent_send_client when the client has gone or is
\* refused, after worker_remove_agent and pxy_agent_close.
AgentDown(a) ==
    /\ Up(a)
    /\ CloseAgent(a)
    /\ phase' = Leak(phase, a)
    /\ UNCHANGED <<connVars, owner, rConn, rSeq, left, resp>>

-----------------------------------------------------------------------------
(* Time: an agent's timer, and the clock.                                  *)

\* check_svr_req_buf: now - req->time > 0.
OverdueEarly(a) == {r \in Table(a) : left[r] <= 0}      \* mutant: >= 0
OverdueReversed(a) == {r \in Table(a) : left[r] > 0}    \* mutant: req->time - now
Overdue(a) == {r \in Table(a) : left[r] < 0}

\* mrpc_check_stash_conns: as many stashed connections are freed under each
\* descriptor as have no reference left (rf: the counts by now), whichever.
SweptNone(rf) == {{}}   \* mutant: looks for connected ones
Swept(rf) ==
    {F \in SUBSET {c \in Conns : connSt[c] = "stashed"} :
        \A f \in Fds :
            Cardinality({c \in F : connFd[c] = f})
              = Cardinality({c \in Conns : connSt[c] = "stashed" /\ rf[c] = 0
                                           /\ connFd[c] = f})}

\* close_idle_agent re-arms the timer from now.
RearmTwice(a) == [timer EXCEPT ![a] = 2 * TimerInterval]   \* mutant
Rearm(a) == [timer EXCEPT ![a] = TimerInterval]

\* agent_timer_handler: check_svr_req_buf answers every overdue request with
\* 504, close_idle_agent closes the agent or re-arms its timer, and
\* mrpc_check_stash_conns frees the stashed connections nobody points to.
AgentTimer(a) ==
    /\ Up(a)
    /\ timer[a] <= 0
    /\ \E P \in TakenByKey(a, Overdue(a)) :
          LET ph == [r \in Reqs |-> IF r \in P THEN "done" ELSE phase[r]] IN
          /\ \E W \in SUBSET {r \in P : MayWrite(rConn[r])} :
                resp' = [r \in Reqs |-> IF r \in W THEN Overtime
                                        ELSE IF r \in P THEN Failed ELSE resp[r]]
          /\ refs' = Unref(P)
          /\ IF idle[a] > AliveTime
             THEN /\ CloseAgent(a)
                  /\ phase' = Leak(ph, a)
             ELSE /\ timer' = Rearm(a)
                  /\ phase' = ph
                  /\ UNCHANGED <<agSt, bnSeq, idle>>
          /\ \E F \in Swept(refs') :
                /\ connSt' = [c \in Conns |-> IF c \in F THEN "freed" ELSE connSt[c]]
                /\ connFd' = [c \in Conns |-> IF c \in F THEN NoFd ELSE connFd[c]]
    /\ UNCHANGED <<owner, rConn, rSeq, left>>

\* One second.  The loop is never more than MaxLate seconds behind a timer.
Tick ==
    /\ \A a \in Agents : Up(a) => timer[a] > -MaxLate
    /\ timer' = [a \in Agents |-> IF Up(a) THEN timer[a] - 1 ELSE timer[a]]
    /\ idle' = [a \in Agents |-> IF Up(a) /\ idle[a] <= AliveTime THEN idle[a] + 1
                                 ELSE idle[a]]
    /\ left' = [r \in Reqs |-> IF phase[r] = "buffered" /\ left[r] > Floor
                               THEN left[r] - 1 ELSE left[r]]
    /\ UNCHANGED <<connVars, agSt, bnSeq, phase, owner, rConn, rSeq, resp>>

-----------------------------------------------------------------------------
Next ==
    \/ \E c \in Conns : AcceptConn(c) \/ ConnDown(c)
    \/ \E a \in Agents : AcceptAgent(a) \/ ClientSends(a) \/ AgentDown(a) \/ AgentTimer(a)
    \/ \E c \in Conns, a \in Agents : RecvDirect(c, a) \/ RecvDirectClose(c, a)
    \/ \E c \in Conns, r \in Reqs : RecvBacktrackRefused(c, r)
    \/ \E c \in Conns, a \in Agents, r \in Reqs :
          RecvBacktrack(c, a, r) \/ RecvBacktrackClose(c, a, r)
    \/ \E a \in Agents, r \in Reqs : ClientAnswers(a, r)
    \/ Tick

Spec == Init /\ [][Next]_vars

\* Time passes, and the loop runs every timer that is due: each turn of ev_main
\* calls timer_handler before it waits for descriptors, for at most a second.
Fairness == WF_vars(Tick) /\ \A a \in Agents : WF_vars(AgentTimer(a))

FairSpec == Spec /\ Fairness

-----------------------------------------------------------------------------
(* Properties.                                                             *)

TypeOK ==
    /\ connSt \in [Conns -> {"none", "open", "stashed", "freed"}]
    /\ connFd \in [Conns -> Fds \union {NoFd}]
    /\ refs \in [Conns -> Int]
    /\ agSt \in [Agents -> {"none", "accepted", "mapped", "closed"}]
    /\ bnSeq \in [Agents -> 0..MaxSeq]
    /\ timer \in [Agents -> Int]
    /\ idle \in [Agents -> 0..(AliveTime + 1)]
    /\ phase \in [Reqs -> {"idle", "refused", "buffered", "done", "leaked"}]
    /\ owner \in [Reqs -> Agents \union {NoAgent}]
    /\ rConn \in [Reqs -> Conns \union {NoConn}]
    /\ rSeq \in [Reqs -> 0..MaxSeq]
    /\ left \in [Reqs -> Int]
    /\ resp \in [Reqs -> Reqs \union {NoResp, Overtime, Failed}]

\* A connection's refs is exactly the number of requests that point to it: those
\* still buffered, and those that went with their agent's table and are counted
\* for ever (agent.c drops the reference in agent_svr_response and
\* check_svr_req_buf, but not in pxy_agent_close).
Holding(c) == {r \in Reqs : phase[r] \in {"buffered", "leaked"} /\ rConn[r] = c}

RefsAccounting == \A c \in Conns : refs[c] = Cardinality(Holding(c))

\* As long as no two connections share a descriptor, the connection of a buffered
\* request has not been freed, so that agent_svr_response and check_svr_req_buf
\* may look at its status and write to it.
NoDanglingRequest ==
    \A r \in Reqs : phase[r] = "buffered" => connSt[rConn[r]] \in {"open", "stashed"}

\* An answer is written for the request it answers, even if it comes late, twice,
\* or after the request has timed out and its agent has been sent others.
AnswerMatches == \A r \in Reqs : resp[r] \in Reqs => resp[r] = r

\* No request stays buffered longer than its deadline, a full period of the
\* agent's timer and the lateness of the loop.  Before that, its margin is never
\* behind the run of the timer that will take it out.
OverdueBounded ==
    \A r \in Reqs : phase[r] = "buffered" => left[r] >= -(TimerInterval + MaxLate)

\* What a backend is promised: one outcome for each request, final, the 504
\* only after the deadline.
Outcome(r) ==
    CASE phase[r] \in {"idle", "refused"} -> "idle"
      [] phase[r] = "leaked" -> "abandoned"
      [] phase[r] \in {"buffered", "done"} ->
            CASE resp[r] = NoResp -> "pending"
              [] resp[r] = Overtime -> "timedout"
              [] resp[r] = Failed -> "failed"
              [] resp[r] = r -> "answered"
              [] OTHER -> "mixed up"

ToGo(r) == IF phase[r] # "buffered" THEN 0 ELSE IF left[r] < 0 THEN -1 ELSE left[r]

Promise == INSTANCE TxPromise WITH
        st <- [r \in Reqs |-> Outcome(r)],
        togo <- [r \in Reqs |-> ToGo(r)]

KeepsPromise == Promise!PSpec

\* Every buffered request is taken out of its table in the end, though the
\* client never answers: by the timer, or with the agent.
RequestSettles == \A r \in Reqs : phase[r] = "buffered" ~> phase[r] # "buffered"

\* A stashed connection that nothing points to is freed in the end, if agents
\* stay: only their timers sweep the stash.
StashSwept ==
    \A c \in Conns :
        connSt[c] = "stashed" /\ refs[c] = 0
            ~> connSt[c] = "freed" \/ \A a \in Agents : ~Up(a)
=============================================================================
