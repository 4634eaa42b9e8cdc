-------------------------------- MODULE Agent --------------------------------
(***************************************************************************)
(* The sessions of clients: agents (pxy_agent_t) with their descriptors in *)
(* the event loop, their ids in worker->root, and their idle timers.       *)
(*                                                                         *)
(* An agent ends when its client goes or sends what is refused, when a     *)
(* backend says so, and when it is idle; any of that happens in the middle *)
(* of a batch of events.  Closing one sends messages to backends, for      *)
(* which the RPC client may open a connection; that connection is the      *)
(* other kind of object here that owns a descriptor.                       *)
(*                                                                         *)
(* An id (epid) is made of the client's type and the minute, second and    *)
(* microsecond of its first message: any id may come again.                *)
(***************************************************************************)
EXTENDS Dispatch

CONSTANTS
    Agents,      \* the memory agents are allocated from
    Rpc,         \* a connection of the RPC client
    Epids, NoEpid, NoAgent,
    IdleLimit    \* check_client_alive_time in periods of the agent's timer: 10

ASSUME AgentAssumption ==
    /\ Rpc \notin Agents
    /\ NoOwner \notin Agents \union {Rpc}
    /\ NoAgent \notin Agents
    /\ NoEpid \notin Epids
    /\ IdleLimit \in Nat

VARIABLES
    live,     \* agents allocated
    fdOf,     \* a->fd and c->fd, 0 for none
    epid,     \* a->epid
    valid,    \* a->user_id > 0, as the last CMD_USER_VALID said
    quiet,    \* periods since a->last_active, saturating at IdleLimit
    root,     \* worker->root: agents by epid
    gone,     \* agents whose client has closed its end
    unread,   \* agents whose client has sent a message that is not read yet
    status,   \* c->conn_status
    tcp,      \* what became of the connection: "none", "syn", "est", "dead"
    fresh     \* it was opened since the last epoll_wait (history)

agentVars == <<live, epid, valid, quiet, root>>
rpcVars == <<status, tcp, fresh>>
vars == <<dispatchVars, agentVars, rpcVars, fdOf, gone, unread>>

Owners == Agents \union {Rpc}

Init ==
    /\ DispatchInit
    /\ live = {}
    /\ fdOf = [o \in Owners |-> 0]
    /\ epid = [a \in Agents |-> NoEpid]
    /\ valid = [a \in Agents |-> FALSE]
    /\ quiet = [a \in Agents |-> 0]
    /\ root = [e \in Epids |-> NoAgent]
    /\ gone = {}
    /\ unread = {}
    /\ status = "disconnected"
    /\ tcp = "none"
    /\ fresh = FALSE

-----------------------------------------------------------------------------
(* Closing and connecting.                                                 *)

\* mrpc_us_send on the way to a backend may find the connection down and open
\* it (_connect); if the descriptor cannot be registered it is closed at once.
Connectable == status = "disconnected" /\ CanOpen /\ Addable(Lowest)

\* The descriptors after a handler that has closed the agents of C: before that
\* the RPC client has connected, if conn.
Files(conn, C) ==
    LET fd == Lowest
        shut == {fdOf[a] : a \in C}
    IN  /\ conn => Connectable
        /\ open' = (IF conn THEN open \union {fd} ELSE open) \ shut
        /\ item' = Deleted(IF conn THEN Added(fd, Rpc) ELSE item, shut)
        /\ ready' = ready \ shut
        /\ fresh' = (conn \/ fresh)
        /\ fdOf' = [o \in Owners |-> IF o \in C THEN 0
                                     ELSE IF o = Rpc /\ conn THEN fd ELSE fdOf[o]]
        /\ status' = IF conn THEN "connecting" ELSE status
        /\ tcp' = IF conn THEN "syn" ELSE tcp

\* worker_remove_agent: whatever agent the map has under e goes out of it.
RemovedNever(m, e) == m      \* mutant: the entry stays
Removed(m, e) == IF e = NoEpid THEN m ELSE [m EXCEPT ![e] = NoAgent]

\* worker_insert_agent (map_insert).
InsertableAlways(e) == TRUE  \* mutant: the entry is replaced
Insertable(e) == root[e] = NoAgent

\* worker_remove_agent and pxy_agent_close for an agent whose epid is e by now:
\* CMD_NET_STAT and CMD_CONNECTION_CLOSED go to backends if the user is valid,
\* then descriptor and memory go.
CloseAgent(a, e, conn) ==
    /\ Files(conn, {a})
    /\ root' = Removed(root, e)
    /\ live' = live \ {a}
    /\ epid' = [epid EXCEPT ![a] = NoEpid]
    /\ valid' = [valid EXCEPT ![a] = FALSE]
    /\ quiet' = [quiet EXCEPT ![a] = 0]
    /\ gone' = gone \ {a}
    /\ unread' = unread \ {a}

\* A backend is written to only for a user that is valid.
Close(a) == \E conn \in {FALSE, valid[a]} : CloseAgent(a, epid[a], conn)

-----------------------------------------------------------------------------
(* worker_accept.                                                          *)

\* A descriptor the loop cannot watch is kept all the same: only its timer will
\* close it.  last_active is 0, as if the client had been silent for ever.
Accept ==
    /\ Turn(Listen, "in")
    /\ CanOpen
    /\ live # Agents
    /\ LET a == CHOOSE x \in Agents \ live : TRUE
           fd == Lowest
       IN  /\ live' = live \union {a}
           /\ fdOf' = [fdOf EXCEPT ![a] = fd]
           /\ quiet' = [quiet EXCEPT ![a] = IdleLimit]
           /\ open' = open \union {fd}
           /\ item' = Added(fd, a)
           /\ ready' = IF Addable(fd) THEN ready \union {fd} ELSE ready
    /\ Handled(Listen, "in")
    /\ UNCHANGED <<rpcVars, epid, valid, root, gone, unread>>

\* accept fails: no descriptor is left, or the client has given up.
AcceptFails ==
    /\ Turn(Listen, "in")
    /\ Handled(Listen, "in")
    /\ UNCHANGED <<open, item, ready, agentVars, rpcVars, fdOf, gone, unread>>

-----------------------------------------------------------------------------
(* agent_recv_client.                                                      *)

Reads(a) == Turn(fdOf[a], "in") /\ item[fdOf[a]] = a /\ Handled(fdOf[a], "in")

\* mrpc_recv2 returns 0: the end of the stream, alone, or behind bytes that
\* filled the buffer to its end, which are dropped.
RecvEnd(a) ==
    /\ Reads(a)
    /\ a \in gone
    /\ Close(a)

\* mrpc_recv2 returns -1: nothing is there, the event was another's.
RecvNothingCloses(a) ==      \* mutant: n <= 0
    /\ Reads(a)
    /\ a \notin gone \union unread
    /\ Close(a)
RecvNothing(a) ==
    /\ Reads(a)
    /\ a \notin gone \union unread
    /\ quiet' = [quiet EXCEPT ![a] = 0]
    /\ UNCHANGED <<open, item, ready, rpcVars, live, epid, valid, root, fdOf,
                   gone, unread>>

\* The id of a's message: the agent's, or a new one if it is the first.
Ids(a) == IF epid[a] = NoEpid THEN Epids ELSE {epid[a]}
Clashes(a, e) == epid[a] = NoEpid /\ ~Insertable(e)

\* parse_client_data: the new id is in use.  The client is told 500, and closing
\* its agent takes the entry of the other out of the map.
RecvClash(a) ==
    /\ Reads(a)
    /\ a \in unread
    /\ \E e \in Epids : Clashes(a, e) /\ CloseAgent(a, e, FALSE)

\* process_client_req: the message has another userid than the agent has by now.
RecvWrong(a) ==
    /\ Reads(a)
    /\ a \in unread
    /\ valid[a]
    /\ Close(a)

\* process_client_req: the message goes to a backend, or the client is told 502.
\* A short read ends the loop of mrpc_recv2: that the client has gone as well is
\* not seen, and there will be no other event for it.
RecvServed(a) ==
    /\ Reads(a)
    /\ a \in unread
    /\ \E e \in Ids(a), conn \in BOOLEAN :
          /\ ~Clashes(a, e)
          /\ Files(conn, {})
          /\ epid' = [epid EXCEPT ![a] = e]
          /\ root' = IF epid[a] = NoEpid THEN [root EXCEPT ![e] = a] ELSE root
    /\ quiet' = [quiet EXCEPT ![a] = 0]
    /\ unread' = unread \ {a}
    /\ UNCHANGED <<live, valid, gone>>

\* process_client_req: no backend, and the 502 cannot be written.
RecvUnsendable(a) ==
    /\ Reads(a)
    /\ a \in unread
    /\ a \in gone
    /\ \E e \in Ids(a), conn \in BOOLEAN : ~Clashes(a, e) /\ CloseAgent(a, e, conn)

Recv(a) ==
    \/ RecvEnd(a) \/ RecvNothing(a) \/ RecvClash(a) \/ RecvWrong(a)
    \/ RecvServed(a) \/ RecvUnsendable(a)

-----------------------------------------------------------------------------
(* agent_send_client.                                                      *)

Send(a) ==
    /\ Turn(fdOf[a], "out")
    /\ item[fdOf[a]] = a
    /\ Handled(fdOf[a], "out")
    /\ \/ UNCHANGED <<open, item, ready, agentVars, rpcVars, fdOf, gone, unread>>
       \/ a \in gone /\ Close(a)

-----------------------------------------------------------------------------
(* agent_mrpc_handler for what backends send to id e.                      *)

BackendEvent == Turn(Backend, "in") /\ Handled(Backend, "in")

\* CMD_USER_VALID, with any user_id: 0 takes the user back.
UserValid(e) ==
    /\ BackendEvent
    /\ root[e] # NoAgent
    /\ \E v \in BOOLEAN : valid' = [valid EXCEPT ![root[e]] = v]
    /\ UNCHANGED <<open, item, ready, rpcVars, live, epid, quiet, root, fdOf,
                   gone, unread>>

\* CMD_CLOSE_CONNECTION, and a message the client cannot be sent.
CloseConnection(e) ==
    /\ BackendEvent
    /\ root[e] # NoAgent
    /\ Close(root[e])

\* A message for the client, or for an id nobody has.
Message ==
    /\ BackendEvent
    /\ UNCHANGED <<open, item, ready, agentVars, rpcVars, fdOf, gone, unread>>

FromBackend == Message \/ \E e \in Epids : UserValid(e) \/ CloseConnection(e)

-----------------------------------------------------------------------------
(* close_idle_agent: timers run before epoll_wait.                         *)

IdleNever(a) == FALSE        \* mutant: the timer is always set again
Idle(a) == quiet[a] = IdleLimit

AgentTimer(a) ==
    /\ BetweenTurns
    /\ a \in live
    /\ IF Idle(a)
       THEN Close(a)
       ELSE /\ quiet' = [quiet EXCEPT ![a] = Min({@ + 1, IdleLimit})]
            /\ UNCHANGED <<open, item, ready, rpcVars, live, epid, valid, root,
                           fdOf, gone, unread>>
    /\ UNCHANGED <<batch, at>>

-----------------------------------------------------------------------------
(* The RPC client's handlers.                                              *)

\* mrpc_conn_close.
RpcClosed ==
    LET fd == fdOf[Rpc] IN
    /\ open' = open \ {fd}
    /\ item' = Deleted(item, {fd})
    /\ ready' = ready \ {fd}
    /\ fdOf' = [fdOf EXCEPT ![Rpc] = 0]
    /\ status' = "disconnected"
    /\ tcp' = "none"
    /\ UNCHANGED fresh

RpcTurn(evt) == item[fdOf[Rpc]] = Rpc /\ Turn(fdOf[Rpc], evt) /\ Handled(fdOf[Rpc], evt)

\* mrpc_cli_ev_in: the connection has failed or ended, or there is nothing.
RpcInUp ==      \* mutant: any event means that the connection is up
    /\ status # "disconnected"
    /\ RpcTurn("in")
    /\ status' = "connected"
    /\ UNCHANGED <<open, item, ready, fdOf, tcp, fresh, agentVars, gone, unread>>
RpcIn ==
    /\ status # "disconnected"
    /\ RpcTurn("in")
    /\ IF tcp = "dead" THEN RpcClosed
                       ELSE UNCHANGED <<open, item, ready, fdOf, rpcVars>>
    /\ UNCHANGED <<agentVars, gone, unread>>

\* mrpc_cli_ev_out: a connection without an error is up.
RpcOut ==
    /\ status # "disconnected"
    /\ RpcTurn("out")
    /\ IF tcp = "dead"
       THEN RpcClosed
       ELSE /\ status' = "connected"
            /\ UNCHANGED <<open, item, ready, fdOf, tcp, fresh>>
    /\ UNCHANGED <<agentVars, gone, unread>>

-----------------------------------------------------------------------------
(* The kernel and the peers.                                               *)

Woken(o) == IF item[fdOf[o]] = o THEN ready \union {fdOf[o]} ELSE ready

ClientSends(a) ==
    /\ a \in live \ (gone \union unread)
    /\ unread' = unread \union {a}
    /\ ready' = Woken(a)
    /\ UNCHANGED <<open, item, batch, at, agentVars, rpcVars, fdOf, gone>>

ClientGoes(a) ==
    /\ a \in live \ gone
    /\ gone' = gone \union {a}
    /\ ready' = Woken(a)
    /\ UNCHANGED <<open, item, batch, at, agentVars, rpcVars, fdOf, unread>>

\* The connection comes up, or is refused, or ends.
RpcChanges ==
    /\ \/ tcp = "syn" /\ tcp' \in {"est", "dead"}
       \/ tcp = "est" /\ tcp' = "dead"
    /\ ready' = Woken(Rpc)
    /\ UNCHANGED <<open, item, batch, at, agentVars, status, fresh, fdOf, gone, unread>>

\* What epoll finds of a registered descriptor.
Reported ==
    [fd \in ready |->
        LET o == item[fd] IN
        IF o = Rpc THEN IF tcp = "dead" THEN {"in", "out"} ELSE {"out"}
        ELSE IF o \in gone \union unread THEN {"in", "out"} ELSE {"out"}]

Wait ==
    /\ \E X \in SUBSET {Listen, Backend} : EpollWait(Reported, X)
    /\ fresh' = FALSE
    /\ UNCHANGED <<agentVars, status, tcp, fdOf, gone, unread>>

Skip ==
    /\ \E fd \in Fds : SkipEvents(fd)
    /\ UNCHANGED <<agentVars, rpcVars, fdOf, gone, unread>>

-----------------------------------------------------------------------------
\* The handlers of one batch.
Handler ==
    \/ Accept \/ AcceptFails
    \/ \E a \in live : Recv(a) \/ Send(a)
    \/ FromBackend
    \/ RpcIn \/ RpcOut
    \/ Skip

Environment ==
    \/ \E a \in Agents : ClientSends(a) \/ ClientGoes(a)
    \/ RpcChanges

Next ==
    \/ Wait
    \/ Handler
    \/ \E a \in Agents : AgentTimer(a)
    \/ Environment

Spec == Init /\ [][Next]_vars

\* Each batch is worked off, and the loop runs timers between batches again and
\* again (EvTimer shows that it reaches every one that is armed).
Fairness ==
    /\ WF_vars(Handler)
    /\ \A a \in Agents : SF_vars(AgentTimer(a))

FairSpec == Spec /\ Fairness

-----------------------------------------------------------------------------
(* Properties.                                                             *)

TypeOK ==
    /\ open \subseteq Fds
    /\ item \in [Fds -> Owners \union {NoOwner}]
    /\ ready \subseteq Fds
    /\ \A fd \in DOMAIN batch : fd \in Fds \union {Listen, Backend}
                                /\ batch[fd] \subseteq {"in", "out"}
    /\ at \in Fds \union {0}
    /\ live \subseteq Agents /\ gone \union unread \subseteq live
    /\ \A a \in Agents \ live : fdOf[a] = 0 /\ epid[a] = NoEpid /\ ~valid[a] /\ quiet[a] = 0
    /\ fdOf \in [Owners -> Fds \union {0}]
    /\ epid \in [Agents -> Epids \union {NoEpid}]
    /\ valid \in [Agents -> BOOLEAN]
    /\ quiet \in [Agents -> 0..IdleLimit]
    /\ root \in [Epids -> Agents \union {NoAgent}]
    /\ status \in {"disconnected", "connecting", "connected"}
    /\ tcp \in {"none", "syn", "est", "dead"}
    /\ fresh \in BOOLEAN

\* A handler is never called with freed data: each registered descriptor belongs
\* to a live object that has it, and no two objects have the same; none is left
\* open without an owner.
Holders == live \union (IF status = "disconnected" THEN {} ELSE {Rpc})

ItemsLive ==
    /\ \A fd \in Fds : item[fd] # NoOwner => item[fd] \in Holders /\ fdOf[item[fd]] = fd
    /\ open = {fdOf[o] : o \in Holders}
    /\ Cardinality(open) = Cardinality(Holders)

\* The map only has live agents, each under its id: a message of a backend never
\* reaches a freed agent.
MapLive == \A e \in Epids : root[e] # NoAgent => root[e] \in live /\ epid[root[e]] = e

\* A live agent drops out of the map, and out of reach of the backends, only when
\* another is closed that has its id as well, or was to get one with its first
\* message.
Twin(e) == \E a \in live \ live' : epid[a] = e \/ (epid[a] = NoEpid /\ a \in unread)

LostToTwin ==
    [][\A e \in Epids : root[e] \in live' /\ root'[e] # root[e] => Twin(e)]_vars

\* The event of another, late in a batch, ends no session: an agent is closed by
\* a handler of its own descriptor only if its client went, or sent what is
\* refused.
Refused(a) == a \in unread /\ (epid[a] = NoEpid \/ valid[a])

Served(fd) == /\ fd \in DOMAIN batch
              /\ fd \in DOMAIN batch' => batch'[fd] # batch[fd]

NotMistaken ==
    [][\A a \in live \ live' :
          Served(fdOf[a]) => a \in gone \/ Refused(a)]_vars

\* The RPC client takes a connection for up that is not only if its descriptor
\* was closed and opened again within one batch of events.
UpTooEarly ==
    [][status = "connecting" /\ status' = "connected" /\ tcp # "est"
          => fresh]_vars

\* An agent whose client has gone is closed in the end, though the end of its
\* stream may have been passed over, and though it may never have been watched.
GoneClosed == \A a \in Agents : a \in gone ~> a \notin gone
=============================================================================
