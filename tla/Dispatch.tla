------------------------------ MODULE Dispatch ------------------------------
(***************************************************************************)
(* The file part of the event loop: the table events[] of handlers by      *)
(* descriptor, and the batch of events that epoll_wait returned.           *)
(*                                                                         *)
(* The batch names descriptors, not the objects they belonged to when the  *)
(* events happened.  Handlers of earlier events may close a descriptor and *)
(* open it again, the kernel giving out the lowest one that is free; a     *)
(* later event of the batch then goes to the new owner.                    *)
(*                                                                         *)
(* This module has the operations; Agent adds the handlers.                *)
(***************************************************************************)
EXTENDS Integers, FiniteSetsExt

CONSTANTS
    MaxFd,        \* descriptors 1..MaxFd: the process's limit
    EventsSize,   \* ev->events_size: 1024 * 100 in the worker
    NoOwner

ASSUME DispatchAssumption ==
    /\ MaxFd \in Nat \ {0}
    /\ EventsSize \in Nat

VARIABLES
    open,    \* the descriptors open in the kernel
    item,    \* ev->events: the data of each registered descriptor (mask > 0)
    ready,   \* registered descriptors with an edge epoll has not reported yet
    batch,   \* what is left of the last epoll_wait: events by descriptor
    at       \* the descriptor whose rfunc has run and whose wfunc is next, or 0

dispatchVars == <<open, item, ready, batch, at>>

Fds == 1..MaxFd

\* The listening socket, and the connection of the backends: always open, and
\* outside 1..MaxFd.
Listen == 0
Backend == -1

DispatchInit ==
    /\ open = {}
    /\ item = [fd \in Fds |-> NoOwner]
    /\ ready = {}
    /\ batch = [fd \in {} |-> {}]
    /\ at = 0

-----------------------------------------------------------------------------
(* The table.                                                              *)

\* socket() and accept() give out the lowest free descriptor, or fail.
CanOpen == open # Fds
Lowest == Min(Fds \ open)

\* ev_add_file_item refuses a descriptor behind the end of the table, and one
\* that is registered.
Addable(fd) == fd < EventsSize /\ item[fd] = NoOwner
Added(fd, o) == IF Addable(fd) THEN [item EXCEPT ![fd] = o] ELSE item

\* ev_del_file_item clears the masks.
DeletedNone(it, S) == it     \* mutant: no ev_del_file_item
Deleted(it, S) == [fd \in Fds |-> IF fd \in S THEN NoOwner ELSE it[fd]]

-----------------------------------------------------------------------------
(* The loop over a batch.                                                  *)

BetweenTurns == DOMAIN batch = {}

\* epoll_wait returns the descriptors with an edge, each with all that holds of
\* it now (reported), and the sockets X that wait to be accepted or read.
EpollWait(reported, X) ==
    /\ BetweenTurns
    /\ batch' = [fd \in ready \union X |-> IF fd \in ready THEN reported[fd] ELSE {"in"}]
    /\ ready' = {}
    /\ UNCHANGED <<open, item, at>>

\* The next event of the batch, in whatever order epoll_wait gave them.
Turn(fd, evt) ==
    /\ fd \in DOMAIN batch
    /\ evt \in batch[fd]
    /\ evt = "out" => "in" \notin batch[fd]
    /\ at \in {0, fd}

Without(fd) == [x \in DOMAIN batch \ {fd} |-> batch[x]]

\* The event has been handled.
Handled(fd, evt) ==
    IF batch[fd] = {evt}
    THEN batch' = Without(fd) /\ at' = 0
    ELSE batch' = [batch EXCEPT ![fd] = @ \ {evt}] /\ at' = fd

\* mask is 0: neither handler is called.
SkipEvents(fd) ==
    /\ fd \in DOMAIN batch \intersect Fds
    /\ at \in {0, fd}
    /\ item[fd] = NoOwner
    /\ batch' = Without(fd)
    /\ at' = 0
    /\ UNCHANGED <<open, item, ready>>
=============================================================================
