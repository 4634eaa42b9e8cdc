# mspc in TLA+

mspc is a connection proxy: mobile clients keep a TCP connection to it, and it
passes their messages to backend servers over RPC, and the backends' messages
to them. It is one process with one thread, an epoll loop. Everything that is
hard in it comes from that loop: connections break between any two handlers,
timers are run late and in the order of a wheel, sequence numbers and
descriptors are used again, and memory is shared between objects that end at
different times.

The modules here model that core, TLC checks them on small instances, and
TLAPS proves some of the results for every instance.

## 1. Inventory

| component | code | state | operations |
|---|---|---|---|
| event loop: files | `ev.c` | `events[]` by descriptor | add, delete, dispatch of an epoll batch |
| event loop: timers | `ev.c` | a wheel of 3600 slots, the slot the loop is at, the table of ids | add, delete, run, move on |
| worker | `worker.c` | agents by epid, the loop, the listening sockets | accept a client, close down |
| agents | `agent.c` | per client: user id, epid, buffers, `bn_seq`, timer, `last_active`, buffered requests | receive, forward, answer, internal commands, idle timer, close |
| server transactions | `agent.c`, `mrpc_msp.c` | `svr_req_buf` of each agent, `refs` of each backend connection | buffer, answer, time out |
| RPC server | `mrpc_svr.c`, `mrpc_common.c` | connections from backends, `stash_conns_table` | accept, receive, send, close, stash, sweep |
| RPC client | `mrpc_cli.c`, `upstream.c` | per backend: three connections, `current_conn`, pending list and count; per connection: status, buffers, `seq`, stashed requests | send, connect, connection up, response, break |
| buffers and framing | `mrpc_common.c` | `buf`, `len`, `size`, `offset` | enlarge, reset, send, receive, parse |
| maps | `map.c`, `upstream.c`, `rbtree.c` | search trees | insert, search, remove |
| error log | `log.c`, `log.h` | a buffer of 8192 bytes | write a line, flush |
| database log | `datalog.c` | the connection to MySQL, the table of the day | open, execute a statement, insert a record |
| start, settings | `proxy.c`, `config.c`, `settings.c`, `mrpc.c` | settings | load, listen, start |
| encodings, routing | `msp_pb.c`, `mrpc_pb.c`, `route.h` | tables | pack, unpack; the url of a command |

How they meet:

* The loop calls the handlers `worker_accept`, `agent_recv_client`,
  `agent_send_client`, `mrpc_svr_*`, `mrpc_cli_ev_*` and each agent's
  `agent_timer_handler`. A handler runs to completion.
* A client's message goes through `agent_to_beans` to `mrpc_us_send`; its
  response only says that the backend has it, and the real answer is a message
  of the backend, through `agent_mrpc_handler`.
* A backend's request with `BacktrackMethod` is buffered in the agent
  (`agent_mrpc_handler2`) with a pointer to the backend's connection; the
  client's answer goes back on that connection (`agent_svr_response`).
* A backend connection that closes with requests pointing to it is put into
  the stash; agents' timers sweep the stash.
* Closing an agent sends up to two messages to backends.
* Errors are written to the log buffer from everywhere, and to the database by
  `process_client_req` and the RPC client, in calls that block the loop.

What is hard, and what must hold:

* *Server transactions*: connection, agent and request end in any order.
  No request may point to a freed connection; references must be counted right;
  an answer must belong to its request; a request gets one outcome, and gets it.
* *Timers*: entries wait behind one another on a wheel that is not tied to the
  clock, callbacks change the wheel, the counter wraps. No timer may be lost or
  run twice; lateness must be bounded; every timer must fire.
* *RPC client*: sockets break in the middle of messages while buffers survive.
  Nothing accepted may be forgotten or duplicated; pending messages must go out.
* *Streams*: edge-triggered readiness, short reads, partial sends. Messages
  must come out whole, in order, and none may wait for an event that is over.
* *Agents*: two clients with one id; a client that vanishes; an agent closed in
  the middle of the handling of its own message.
* *Dispatch*: a descriptor closed and opened again inside one batch of events.
  No handler may run with freed data, and a stale event may not end a session.
* *Logs*: flushing reports its own failure by writing; opening the database again
  uses the function that found it lost. The calls inside each other must end, lines
  and records must be kept, and what was cached (table, connection) must be true.

`PROJECT.json` lists every hazard with its line and the properties about it.

## 2. Modules

### SvrTx, TxPromise: server transactions

`SvrTx` has agents, backend connections and backtrack requests, and all that
can happen to them.

| in the module | in the code |
|---|---|
| `connSt`, `connFd`, `refs` | `mrpc_connection_t` (open, in `stash_conns_table`, freed), `fd`, `refs` |
| `agSt`, `bnSeq`, `timer`, `idle` | `pxy_agent_t` (accepted, in `worker->root`, closed), `bn_seq`, `timer`, `last_active` |
| `phase`, `owner`, `rConn`, `rSeq`, `left` | `mrpc_req_buf_t`: in which table, `c`, `sequence`, `time` |
| `resp` | what went out on the request's connection (history) |
| `AcceptConn`, `ConnDown` | `mrpc_svr_accept`; `mrpc_conn_close` and `mrpc_conn_free` from `mrpc_svr_recv` and `mrpc_svr_send` |
| `RecvDirect`, `RecvDirectClose` | `mrpc_process_client_req` and `agent_mrpc_handler` |
| `RecvBacktrack`, `RecvBacktrackClose`, `RecvBacktrackRefused` | `mrpc_process_client_req` and `agent_mrpc_handler2` |
| `AcceptAgent`, `ClientSends`, `ClientAnswers`, `AgentDown` | `pxy_agent_new`; `agent_recv_client` with `process_client_req`; `agent_svr_response`; `pxy_agent_close` |
| `AgentTimer` | `agent_timer_handler`: `check_svr_req_buf`, `close_idle_agent`, `mrpc_check_stash_conns`, in this order in one step |
| `Tick` | a second of `time(2)` |

An action is one handler call; `mrpc_svr_recv` and `agent_recv_client`, which
loop over the messages they received, are one action per message. Hash tables
are sets: which of two entries with one key an operation finds is left open, as
`hashtable.h` leaves it.

Two switches separate what the code is exposed to:

* `FdReuse`: may the kernel hand out the descriptor of a stashed connection
  again? It may in fact. With `FALSE` the rest of the design is checked and
  proved; the run `svrtx_fdreuse` has `TRUE` and shows what breaks.
* `SeqWraps`: may a client be sent more than `MaxSeq` (32767) messages in a
  connection? With `FALSE` the guard `CanNumber` stops at the last number. A
  wrap can only confuse two requests when it comes round within the lifetime of
  one of them, about a minute.

`TxPromise` is what a backend is promised: each request goes once from idle to
pending to exactly one of answered, timed out, failed and abandoned, and the
504 is written only after the deadline. `SvrTx!KeepsPromise` is the refinement.

### EvTimer: the timers of the loop

`wheel` and `cur` are `timer_task_list` and `timer_current_task`, `st` says
whether an entry is armed, flagged as deleted, or freed, and `due` is
`item->time - now`. The loop over a slot is one action per entry (`DropDeleted`,
`RunLast`, `RunRearm`), because callbacks add timers in the middle of it; `Wait` and
`MoveOn` are its two ways out, `EndTurn` the rest of the turn. A second passes
(`Tick`) at any time, but never twice within one turn: `epoll_wait` waits 100 ms at
most. That is all that is assumed of the loop's speed. `wrapped` is history: whether the
counter `timer_current_task` has wrapped. 2^32 is not a multiple of 3600, so the loop then
jumps from slot 1695 to slot 0, and what is on the wheel waits for it to come round.

`LateBounded` speaks of the time before that. It is what gives `SvrTx` its constant
`MaxLate`: with delays of 10 and 30 seconds, a timer may be up to 30 seconds late.

### Upstream: the RPC client

One backend address (`mrpc_us_item_t`) with its connections, and the backend's
reading of each stream (not in the repository; the backend is assumed to read
framed requests, answer each, and give up a stream that is out of step).

| in the module | in the code |
|---|---|
| `status`, `out`, `sent`, `stash` | `conn_status`, `send_buf`, the messages `seq` was given to, `root` |
| `pending`, `pendCount`, `cur` | `pending_list`, `pend_count`, `current_conn` modulo the number of connections |
| `ret` | what `mrpc_us_send` returned |
| `Scan`, `NextUp` | `_get_conn` with `_connect` |
| `Attempt` | `_send_inner`, `_cli_send`, `mrpc_send` |
| `Tried`, `GoesOut`, `SendFails`, `LeftPending`, `PendingSent` | `_send_pending`: the messages that go out, and the one it stops at |
| `UsSend`, `UsSendUnpacked`, `UsQueue`, `UsReject` | `mrpc_us_send` |
| `Connected`, `ConnectFails`, `EvOut`, `EvIn`, `Break` | `mrpc_cli_ev_out`, `mrpc_cli_ev_in`, `mrpc_conn_close` |

A message is two pieces, so that a socket can break between them.

`_cli_send` fails in two ways. If `mrpc_send` fails, the message has its number and its
bytes are in the output buffer, from which they may go out later. If `pbc_pattern_pack`
finds the body too long for `content.len + 1024` bytes, which a long `user_context` makes
it, the message has no number and leaves nothing in the buffer (`Unpackable`). In the
pending list such a message stays in front for good: `_send_pending` stops at it each time,
and what is queued behind it waits although connections are up. `PendingGoesOut` says
that, as long as no `send()` fails, nothing else makes a message wait.

A socket that breaks inside a message leaves the rest of it in front in the output buffer,
for the next socket (`cut`, a history of each connection's last break). `InStep` says that
the backend finds only such a stream out of step.

Assumed: `connect` of a non-blocking socket is under way or fails, and does not succeed at
once; responses arrive whole; memory is there, so that `malloc`, `mrpc_buf_enlarge` and
`_stash_req_new` do not fail. The header always fits its 128 bytes: two numbers and two
constant strings.

### Stream: buffers and framing

A sender's `mrpc_buf_t`, a socket, a receiver's `mrpc_buf_t`, with mspc's code at
both ends: `Enlarged` and `Shrunk` are `mrpc_buf_enlarge` and `mrpc_buf_reset`, `Flush` is
`mrpc_send2`, `Readable` is `mrpc_recv2` (its loop reads everything that has arrived),
`ParseOne`, `ParseFails` and `ParseEnd` are the loops around `mrpc_parse` and
`parse_client_data`. `rEdge` and `wEdge` are the edge-triggered events: set when bytes
arrive, or when space returns after an `EAGAIN`, and cleared when the handler is called.

A socket may end at any byte (`Break`). The receiver reads the end (`ReadEnd`), with
what it has just read left unparsed, only if `recv` comes back for it, that is if nothing
was left or the bytes filled the buffer (`EndSeen`); otherwise the end goes unnoticed
until something else closes the socket (`NoticeEnd`). Then a new socket and a new sender
take over. An agent and a connection of `mrpc_svr` start with a new buffer; a connection of
`mrpc_cli` goes on with the old one (`keeps`), and if that ends in the middle of a
message, `cut` says so: from there on the parser is out of step, which is what the
code does, and nothing is claimed of what it makes of the bytes. The lengths in the frames
are those of the messages; what the parsers make of wrong ones is not modelled.

### Dispatch, Agent: descriptors and sessions

`Dispatch` has the file part of the loop, as operations; `Agent` adds the handlers.

| in the modules | in the code |
|---|---|
| `open`, `ready` | descriptors open in the kernel, and those with an edge to report |
| `item` | `ev->events`: the `data` of a descriptor whose `mask` is not 0 |
| `batch`, `at` | what is left of `api_data` after `epoll_wait`; between `rfunc` and `wfunc` of one event |
| `live`, `fdOf`, `epid`, `valid`, `quiet` | `pxy_agent_t`: allocated, `fd`, `epid`, `user_id > 0`, `last_active` |
| `root` | `worker->root` |
| `gone`, `unread` | what the client has done that the agent has not read |
| `status`, `tcp`, `fresh` | one connection of the RPC client: `conn_status`, the kernel's view, history |
| `Addable`, `Added`, `Deleted` | `ev_add_file_item`, `ev_del_file_item` |
| `EpollWait`, `Turn`, `Handled`, `SkipEvents` | the second half of `ev_main` |
| `Accept`, `AcceptFails` | `worker_accept` with `pxy_agent_new` |
| `RecvEnd`, `RecvNothing`, `RecvClash`, `RecvWrong`, `RecvServed`, `RecvUnsendable` | the outcomes of `agent_recv_client` with `parse_client_data` and `process_client_req` |
| `Send` | `agent_send_client` |
| `UserValid`, `CloseConnection`, `Message` | `agent_mrpc_handler` and `_try_process_internal_cmd` |
| `AgentTimer` | `close_idle_agent` |
| `RpcIn`, `RpcOut` | `mrpc_cli_ev_in`, `mrpc_cli_ev_out`, as far as the status goes |
| `CloseAgent`, `Files` | `worker_remove_agent` and `pxy_agent_close`, with the connection that its messages to backends may open |

The batch names descriptors. A handler that closes one and another that opens it
again, as a client's (`Accept`) or a backend's (`Files`), leave an event in the batch
that was the former owner's; `Turn` gives it to the new one, as `ev_main` does.

Abstractions: the listening socket and the backends' connection are always open, and may be
ready at any time. A client has at most one message unread. `quiet` counts periods of the
agent's timer, and is at its limit in a new agent, whose `last_active` is 0. `isunreg` only
decides whether the second of the two last messages is sent, and is left out; that either
may open a connection is not. Ids contain a time and come back, so the first message of an
agent may be given any id. A response of a backend may set the user id to 0 again, so
`UserValid` sets `valid` to either value. `malloc`, `setsockopt` and `setnonblocking` are
taken to succeed.

### LogBuf, Datalog: the two logs

`LogBuf` is `log.c`. `step` is where the thread is in `write_log` and `flush_log`: making
room, storing, flushing. A flush that cannot open its file writes a line that says so, which
needs room and may flush and fail again; since a caller whose flush failed gives up, only
the innermost call needs to be remembered. Whether a line is flushed at once is left open
for each line, since `reload_config` may change `is_flush_log` at any time. A file that can
never be opened makes `write_log` and `flush_log` call each other until the stack is used
up; `MaxFails` bounds how often an open fails, so that end is not in the model. A line
longer than the buffer ends the process (`StoreLong`: `realloc_logbuffer` replaces the
structure by one without a buffer). Lines left in the buffer when `main` returns are never
written; the properties count them as kept.

`Datalog` is `datalog.c` and `pxy_init_logdb`, on top of `LogBuf`, whose lines it writes.

| in the module | in the code |
|---|---|
| `conn`, `using`, `made`, `tables`, `copies` | the connection and the server (external) |
| `tb` | `database.tb` |
| `pc`, `stmt`, `depth` | the calls of `db_execute_nonquery` and `db_use_logdb` inside each other |
| `rec`, `dayOf`, `answer` | a call of `db_insert_log`, the day of its time, its result |
| `Query`, `Connect`, `Retry` | `db_execute_nonquery` up to the loss, the reconnection, the repeated query |
| `Returned`, `Finish`, `Created` | what each caller does with the result |
| `Open`, `Fail` | `pxy_init_logdb` and the end of `main` |
| `Insert`, `InsertTooLong` | `db_insert_log` |

A call inside another has `USE` as its query, and all above the outermost are alike, so
the stack is its depth. The server executes a query or refuses it, for whatever
reason; a connection is lost before or after a query is executed, or between two; and
the client library reports that as `CR_SERVER_LOST` or as another error, because
`mysql_real_query` is only documented to return something that is not 0. Records are
inserted one after the other, each with the time of its call.

## 3. Runs

| run | instance | question |
|---|---|---|
| `svrtx_core` | 2 agents, connections, requests, descriptors; 2 sequence numbers; timeout 1, period 2 | `TypeOK`, `RefsAccounting`, `NoDanglingRequest`, `AnswerMatches`, `OverdueBounded`, `KeepsPromise` |
| `svrtx_live` | 2 agents, 1 connection, 2 requests, fair | `RequestSettles`, `StashSwept` |
| `svrtx_fdreuse` | as `svrtx_core`, descriptors come back | finding: `NoDanglingRequest` fails |
| `evtimer` | 4 timers, 4 slots, delays 1 and 3, the counter wraps at 7 | `TypeOK`, `Linked`, `LateBounded` |
| `evtimer_live` | 3 timers, 4 slots, the counter wraps at 6, fair | `Fires` |
| `evtimer_hour` | a callback adds a timer a whole round ahead | finding: `Linked` fails |
| `upstream` | 4 messages, one of which cannot be packed, 2 connections, 2 breaks, 1 failing `send` | `TypeOK`, `NotForgotten`, `NoDuplicates`, `InStep`, `PendingGoesOut` |
| `upstream_full` | 3 messages, 1 break, no failing `send` | finding: `RefusedOnlyWhenFull` fails |
| `upstream_failed` | 3 messages, 1 break, 1 failing `send` | finding: `FailedNotDelivered` fails |
| `stream` | 5 messages of 1 to 5 bytes, buffers of 2, 4 bytes in the socket, 2 sockets that end, fair | `TypeOK`, `InOrder`, `NothingStuck`, `AllParsed` |
| `agent` | 2 agents, 1 id, 3 descriptors of which the loop's table takes 2, 1 RPC connection, fair | `TypeOK`, `ItemsLive`, `MapLive`, `LostToTwin`, `NotMistaken`, `UpTooEarly`, `GoneClosed` |
| `datalog` | 2 records, 2 days, 3 lost connections, a buffer of 3, 2 failing opens of the file, 2 other lines | `TypeOK`, `Kept`, `NoOverflow`, `Reported`, `TableMade`, `AtMostTwice`, `Selected`, `Nested` |

Why these bounds are enough to be interesting:

* `svrtx_core`: two of everything is the smallest instance in which one
  connection has requests of two agents, one agent requests of two connections,
  two entries meet in a stash, and one request times out while the other is
  answered. `TxTimeout` is shorter than the timer's period, as 30 is against the
  period of 30 plus lateness, so deadlines pass between two runs of the timer.
  `AliveTime` is 0, so a timer may find its agent idle or active. The margin of a
  deadline saturates below the bound that `OverdueBounded` states (`Floor`).
  `evtimer` checks lateness; here `MaxLate` is 0.
* `svrtx_live`: `AliveTime` 1 lets an agent live through several runs of its timer,
  so that requests are settled by the sweep and not only by the agent's end.
* `evtimer`: the delays are the shortest and the longest a wheel of four slots
  takes without meeting itself; four entries stack up in one slot and wait. The
  bound is exact: with `MaxLate = 2` TLC finds a timer that is 3 late. Both runs use a
  modulus that the size of the wheel does not divide, like 2^32 and 3600: `Linked` and
  `Fires` are checked over wraps. `LateBounded` is about the time until the first wrap,
  and does not hold behind it: the loop jumps to another slot, and entries are late by
  the jump.
* `upstream`: two breaks allow a message to be half sent twice; `MaxPending` is below
  the number of messages. The message that cannot be packed may be sent, queued in front
  of others or behind them; the three others are alike (`Symmetric`). `MaxErrors`
  and `MaxBreaks` bound failures.
* `stream`: one message fits the buffer exactly, one needs it enlarged twice, and the
  socket holds less than the longest message. Two ends let a kept buffer be cut, and
  the stream after that end as well.
* `agent`: one id is the worst case for ids, since any two agents that send something
  meet in it. Two agents and the RPC connection are three owners for the descriptors, so
  one closed in a batch can go to each of the other kinds; the third descriptor is
  behind the end of the event table, so that accepting and connecting meet it. The
  limit of the idle timer is one period. With two ids every safety property holds as well
  (638,748 states).
* `datalog`: with three losses a reconnection breaks, and the one inside it. Two
  records in two days use a table again, or a new one, or one that an earlier process
  left. In the log, lines have length 1 or that of the buffer, which is the crash; a
  buffer of 3 is full after two lines, and two failing opens are enough for the report of
  the first to fail in turn. `MaxLosses`, `MaxFails`, `MaxLines`, `Days` bound the run.

Deadlock is not checked in the runs of `Upstream`, `Stream` and `Datalog`, where messages
and records run out and the system rests.

### Fairness

* `SvrTx!Fairness`: time passes, and an agent's timer that is due is run. Each turn of
  `ev_main` looks at the timers before it waits for files, and `EvTimer!Fires` shows
  that each armed timer is reached. Nothing is assumed of clients, backends or the
  network.
* `EvTimer!Fairness`: the loop turns and the clock runs. Each turn is finite.
* `Stream!Fairness`: the loop handles pending events and the network delivers what it
  took. Each step is one the loop or the kernel makes by itself. `AllParsed` speaks of
  sockets that do not end.
* `Agent!Fairness`: every batch is worked off, as `ev_main` does, and an agent's timer that
  can run between batches again and again runs: timers come before `epoll_wait` in each
  turn, and `EvTimer!Fires` shows that each is reached. Strong fairness is needed, because
  a batch that is not empty disables it. Clients and backends owe nothing, so
  `GoneClosed` is about a client that has gone and backends that may stay silent.
* `Datalog` has none: nothing in it must happen.

### Findings

1. *Stash keyed by descriptor* (`mrpc_common.c:112`, `:164`). The stash's key is a
   descriptor that has been closed. Two stashed connections may share it, and the
   sweep, meaning the one without references, frees the other. A client's late answer
   then follows a freed pointer.
2. *One full round* (`ev.c:130`, `:195`). A callback that adds a timer 0 or 3600 seconds
   ahead loses it. mspc uses 10 and 30.
3. *pend_count never shrinks* (`mrpc_cli.c:666`). Once 102400 messages have been queued
   over the life of the process, every message that meets no connection is refused.
4. *"Send failed" is delivered* (`mrpc_cli.c:659`). The client is told 502, and the
   message goes out on the next socket.

## 4. Proofs

Every safety property that a passing run checks is proved for every value of the
constants, some under a hypothesis that is named with the theorem. Each result rests on
an inductive invariant; the modules have one lemma per helper and one step per action. TLC
checks the properties themselves on the runs' instances.

| property | theorem | module | hypothesis besides the module's assumptions |
|---|---|---|---|
| `SvrTx!TypeOK` | `TypeCorrect` | `SvrTxProofs` | |
| `SvrTx!RefsAccounting` | `RefsAccounted` | `SvrTxProofs` | |
| `SvrTx!NoDanglingRequest` | `NoDangling` | `SvrTxProofs` | `~FdReuse` |
| `SvrTx!AnswerMatches` | `AnswersMatch` | `SvrTxPromiseProofs` | `~SeqWraps` |
| `SvrTx!OverdueBounded` | `DeadlinesBounded` | `SvrTxPromiseProofs` | `~SeqWraps` |
| `SvrTx!KeepsPromise` | `PromiseKept` | `SvrTxPromiseProofs` | `~SeqWraps` |
| `EvTimer!TypeOK` | `TimerTypeCorrect` | `EvTimerProofs` | |
| `EvTimer!Linked` | `LinkedAlways` | `EvTimerProofs` | `CbDelays` in `1..(Size - 1)` |
| `EvTimer!LateBounded` | `LateBoundedAlways` | `EvTimerProofs` | `DelaysFit` |
| `Upstream!TypeOK` | `UpstreamTypeCorrect` | `UpstreamProofs` | |
| `Upstream!PendingGoesOut` | `PendingGoesOutAlways` | `UpstreamProofs` | |
| `Upstream!NotForgotten` | `NotForgottenAlways` | `UpstreamProofs` | |
| `Upstream!InStep` | `InStepAlways` | `UpstreamProofs` | |
| `Upstream!NoDuplicates` | `NoDuplicatesAlways` | `UpstreamProofs` | |
| `Stream!TypeOK` | `StreamTypeCorrect` | `StreamProofs` | `PowersOfTwo` |
| `Stream!InOrder` | `InOrderAlways` | `StreamProofs` | |
| `Stream!NothingStuck` | `NothingStuckAlways` | `StreamProofs` | |
| `Agent!TypeOK` | `AgentTypeCorrect` | `AgentProofs` | |
| `Agent!ItemsLive` | `ItemsLiveAlways` | `AgentProofs` | |
| `Agent!MapLive` | `MapLiveAlways` | `AgentProofs` | |
| `Agent!LostToTwin` | `LostToTwinAlways` | `AgentProofs` | |
| `Agent!NotMistaken` | `NotMistakenAlways` | `AgentProofs` | |
| `Agent!UpTooEarly` | `UpTooEarlyAlways` | `AgentProofs` | |
| `Datalog!TypeOK` | `DatalogTypeCorrect` | `DatalogProofs` | |
| `Datalog!Nested` | `NestedAlways` | `DatalogProofs` | |
| `Datalog!TableMade`, `Selected` | `TableMadeAlways`, `SelectedAlways` | `DatalogProofs` | |
| `Datalog!Reported` | `ReportedAlways` | `DatalogProofs` | |
| `Datalog!AtMostTwice` | `AtMostTwiceAlways` | `DatalogProofs` | |
| `LogBuf!Kept`, `NoOverflow` | `KeptAlways`, `NoOverflowAlways` | `DatalogProofs` | |

### SvrTx: references and freed connections

* `TypeCorrect`: one lemma per helper (`NextSeqType`, `UnrefType`, `LeakType`,
  `CloseAgentType`, `BufferType`), then one step per action.
* `RefsAccounted`: `refs` equals the number of requests,
  buffered or leaked, that point to the connection. Inductive together with the types;
  the work is in cardinalities: buffering adds one (`RefsBuffer`), taking a set P of
  buffered requests subtracts as many as point to each connection (`RefsTake`).
  Needs finitely many requests (`FiniteAssumption`).
* `NoDangling`: it is not inductive by
  itself: a connection may only be freed if nothing points to it, which needs
  `RefsAccounting`, and the sweep frees by descriptor, which is right only if live
  connections have distinct descriptors. The invariant is `TypeOK`, `RefsAccounting` and
  `StashInv` (references of held requests, live descriptors, their distinctness);
  `SweepsUnreferenced` shows that the sweep then frees exactly connections with `refs`
  0, and `Unreferenced` that no request points to those. Without `~FdReuse` it is
  false (finding 1).

None of these three depends on `SeqWraps`.

### SvrTx: answers, deadlines, and the promise

* `AnswersMatch`: that an answer finds the right request is a matter of its number.
  `SeqInv` says that the numbers of the requests sent to one client are all different,
  even those that are over and may be answered late, and that none is above the
  client's `bn_seq` (`Keys`); a response is on the connection exactly when the request is
  done (`AnswersDone`). A counter that has come round gives a number again that may be
  in use, so `~SeqWraps` is needed.
* `DeadlinesBounded`: `DeadlineInv` ties each buffered request to its agent's timer: its
  margin is at least what the timer has to go, less a period. `OverdueBounded` alone is
  not inductive, since it does not say when the timer comes. `check_svr_req_buf` takes
  what is overdue by its key, so that this too needs the numbers to be unique.
* `PromiseKept`: `SvrTx` implements `TxPromise`, where `Outcome` maps the tables and what
  was written to the state of each request, and `ToGo` the margin. `OutcomesKnown` gives
  the mapped state of each phase; then each action is a step of the promise or a
  stutter: most lemmas name the one request that moves, and the two that move many (the
  timer, the end of an agent) map to the promise's steps for sets.

### EvTimer

* `LinkedAlways`: `LinkInv` says the same of places instead of numbers of places: entries
  are not free, no timer is at two, each that is not free is at one. `Relinked` is
  what unlinking the head of one list and adding to another does, in one lemma for all
  outcomes of a callback. A callback's delay of a whole round adds to the list that is
  being cut, and is excluded (finding 2).
* `LateBounded` is not inductive, since entries wait behind one another. `LateInv` says that
  an entry's margin is at least its distance from the loop less `MaxLate`
  (`EachInTime`), and, for two entries in the order in which the loop reaches them, that the
  front one is due no later than the one behind it by more than `MaxLate` less their distance
  (`FrontInTime`): so what waits in front cannot hold up what is behind by too much. Distances
  are on the wheel from where the loop is. A jump of the counter to another slot
  breaks that, so the invariant, like the property, holds until `wrapped`: for any size and
  modulus, 3600 and 2^32 among them. The counter moves at most once in a turn, and a turn of an
  idle loop takes 100 ms, so that it takes 13 years to wrap; a busy loop gets there sooner.

### Upstream

* `NotForgottenAlways`: `KnownInv` adds that a response is only under way for a message that the
  backend has, so that what leaves the stash is delivered.
* `InStepAlways`: `Piece(p)` numbers the pieces of all that a connection was ever given, and
  `Read(c)` is how many of them are behind the wire. `WireInv` says that the wire and
  the output buffer are the pieces from there on, without a gap, across all breaks;
  `StepInv` that, unless the last break was inside a message, the backend is in the middle
  of a message exactly if that number is odd. `BrokenStep` is the one case in which it starts
  anew: where the output buffer begins with a first piece, the number is even.
* `NoDuplicatesAlways`: from the same invariant and `OnceInv`: while no `send()` failed, a message
  is at one place of one connection's stream or at one of the pending list, never both, and
  what was delivered is behind the backend's place.
* `PendingGoesOutAlways`: inductive with the types, `UpstreamTypeCorrect`. `AllTried` says that a
  call of `_send_pending` in which no `send()` failed leaves an empty list or one that begins
  with a message that cannot be packed; and while a connection is up nothing is queued.

### Stream

* `InOrderAlways`: `Line` is the unread part of the receive buffer, what is in the kernel, what is in
  flight and the unsent part of the send buffer, one behind the other. The lemmas
  `QueueLine` to `ParseEndLine` show what each step does to it: sending, arriving and reading
  leave it as it is, queueing puts a message behind it, parsing takes the first one away,
  and an end cuts it at the sender's side. `OrderInv` says that unless a kept buffer was cut
  the line is whole messages in a row (`Framed`: each byte `Follows` the one before),
  that they come after what was parsed (`Comes`, `InTurn`), and that the last one is
  whole while the stream goes on (`LastWhole`). `FirstMessage` concludes from bytes that follow one
  another to the message they make, by a least counterexample.
* `NothingStuckAlways`: `EdgeInv` says that whatever waits has its event: bytes in the kernel an
  `EPOLLIN`, bytes left in the send buffer an `EPOLLOUT`, or `blocked`, and then the socket is full;
  and that the receiver never waits with a whole message in its buffer. Where nothing is
  pending, the line is then what is left in the receive buffer, it ends with a whole
  message, and so it is empty (`NothingLeft`). This is the part of `AllParsed` that needs no
  fairness.
* `StreamTypeCorrect`: that no buffer holds more than it has room for. `Enlarged` doubles
  until the need is met; that there is such a power of two at all (`PowerExceeds`) follows
  from what powers are, which the provers do not know and the theorem names as
  its hypothesis, `PowersOfTwo`: 2^0 = 1, and 2^(j+1) is twice 2^j.

### Agent

* `MapLiveAlways`: `MapInv` adds to it that agents that are not live have
  no id, and that `root` is a function of the right type: an agent that is freed under its id goes
  out of the map because `Removed` is told that very id, and one accepted in its memory has none.
  `Closing` is the one lemma about closing, for any set of agents whose ids are removed;
  `CloseAgentMap`, `CloseMap` and `RecvMap` bring the handlers under it.
* `LostToTwinAlways`, an action property from the same invariant: an
  entry that was there changes only when an agent is closed under that id (`ClosingLoses`),
  which is the agent itself or a twin. A twin may live on without an entry, and take that
  of a third away when it goes.
* `ItemsLiveAlways`: `FdsInv` says that holders have descriptors, different ones different ones, that
  exactly those are open, and that only open ones have edges; registered ones are registered
  for their holder. `ItemsLive` counts, which follows from `fdOf` being injective.
* `NotMistakenAlways`, an action property: whoever is closed by a handler of its own
  descriptor (`Served`) had gone or had sent what is refused. A handler of another's
  descriptor closes only its own agent, since `fdOf` is injective.
* `UpTooEarlyAlways`: `RpcInv` says that a connection still being made has no edge, and, unless its
  descriptor is `fresh`, no event in the batch.

### Datalog and LogBuf

* `NestedAlways`: `DepthInv` says that `depth` is at most `losses`, and one
  more while the connection is open; `Nested` alone is not inductive, because it does not
  say that a call only goes deeper after it has found the connection not open.
* `TableMadeAlways` and `SelectedAlways`: from `TableInv`, which extends `Selected` to the places
  where a record's statement is about to be tried (`Needed`): `db_insert_log` starts on a
  connection that is as good as the last call left it. `StatementTable` shows that a table
  is noted only after a `CREATE` that was executed.
* `ReportedAlways` and `AtMostTwiceAlways`: `CallKnows` says what each place of the thread knows of
  the record in its hands: no row before its `INSERT` was tried, and at most one (`Rows`) when it is
  repeated, which happens only after a loss; the statement goes to the table of the record's day.
* `NoOverflowAlways`: `BufInv` adds that where a line is about to be stored it fits, or the
  buffer is empty, and counts the lines given up against the opens that failed.
* `KeptAlways`: `Kept` speaks of the times when no log function is running. `LogInv` says in between
  that files and buffer have the lines that are `Through`, all but the one that waits for
  room, in order; and it gives that up (`Spoilt`) behind the flush for a line longer than the
  buffer, which ends the process. Lines have a length of at least 1, as `log.h` prints a
  time in front of each.

### What stays with TLC

Liveness: `RequestSettles`, `StashSwept`, `Fires`, `AllParsed` and `GoneClosed`, since the
prover has no rules for `ENABLED` and fairness. The three properties of the runs that expect
a violation in `EvTimer` and `Upstream` are false, and so is `NoDanglingRequest` with
`FdReuse`; what is proved is what is left of them under the hypotheses above.

## 5. What is not modelled

* *Forwarding as a whole.* `Agent` lets any message meet a backend or a 502; `Upstream` has
  one backend address. That every message of a client is forwarded or answered is not
  stated over both.
* *`connect` that succeeds at once*, in which pending messages are sent before `c->fd` is set: it
  does not happen with a non-blocking TCP socket to another host.
* *Failing allocations.* Most paths leak or stop; no property would hold of them.
* *Bytes from clients and backends that are no message*: lengths that do not fit, fields that
  do not unpack. `Agent` has a handler that refuses what it reads, `Stream` only streams of mspc's
  own framing.
* *`worker_close`*: only the command channel calls it, to which nothing writes.
* *`map_insert_reg3` and its tree*, which nothing fills, and `upstream.c`: a list of addresses
  that only grows.
* *New settings while the server runs*: `reload_config` may change timeouts as well, and if the
  routing library calls it from a thread of its own, it writes to the log next to the loop. The
  constants are fixed for a run, but for the flushing of the log, and there is one thread.
* *Start and settings* but for the database; packing, routing; trees, lists and hash tables
  as such. They are sequential, external, or third-party.
* *The time that calls of MySQL take*: they block the loop for as long as the server likes.

## 6. Plan

1. `SvrTx` with `TxPromise`: checked, its safety and the refinement proved.
2. `EvTimer`: checked, its safety proved.
3. `Upstream`: checked, its safety proved.
4. `Stream`, over successive sockets: checked, its safety proved.
5. `Dispatch` and `Agent`: checked, its safety proved.
6. `LogBuf` and `Datalog`: checked, its safety proved.
7. To come: safety under the liveness properties, as `NothingStuck` is under `AllParsed`: that
   nothing that must happen is left without a timer or an event that will do it, for requests
   and stashed connections (`SvrTx`) and for agents whose clients have gone (`Agent`).
8. To come: `Proxy`, agents and upstreams together: each message of a client is forwarded or
   answered 502, and a closing agent's last messages leave in order.
