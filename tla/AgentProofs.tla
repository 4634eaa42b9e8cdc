----------------------------- MODULE AgentProofs -----------------------------
(***************************************************************************)
(* Proofs about Agent, for any number of agents, ids and descriptors.      *)
(***************************************************************************)
EXTENDS Agent, FiniteSetTheorems, WellFoundedInduction, TLAPS

\* MapLive with the types it needs; an agent that is not allocated has no id.
MapInv ==
    /\ live \subseteq Agents
    /\ epid \in [Agents -> Epids \union {NoEpid}]
    /\ root \in [Epids -> Agents \union {NoAgent}]
    /\ \A a \in Agents \ live : epid[a] = NoEpid
    /\ MapLive

mapVars == <<live, epid, root>>

LEMMA MapInit == Init => MapInv
BY DEF Init, MapInv, MapLive

LEMMA Unchanged == MapInv /\ UNCHANGED mapVars => MapInv'
BY DEF MapInv, MapLive, mapVars

\* Closing an agent takes its own entry out of the map, whatever else goes; an
\* agent without an id has no entry.
LEMMA Closing ==
    ASSUME MapInv, NEW a \in Agents, NEW e \in Epids \union {NoEpid},
           epid[a] = NoEpid \/ e = epid[a],
           root' = Removed(root, e),
           live' = live \ {a},
           epid' = [epid EXCEPT ![a] = NoEpid]
    PROVE  MapInv'
<1>1. /\ live' \subseteq Agents
      /\ epid' \in [Agents -> Epids \union {NoEpid}]
      /\ root' \in [Epids -> Agents \union {NoAgent}]
      /\ \A x \in Agents \ live' : epid'[x] = NoEpid
    BY DEF MapInv, Removed
<1>2. ASSUME NEW x \in Epids, root'[x] # NoAgent
      PROVE  root'[x] \in live' /\ epid'[root'[x]] = x
    <2>1. root'[x] = root[x] /\ (x = e => e = NoEpid)
        BY <1>2 DEF MapInv, Removed
    <2>2. x # e
        BY <2>1, AgentAssumption
    <2>3. root[x] \in live /\ epid[root[x]] = x
        BY <1>2, <2>1 DEF MapInv, MapLive
    <2>4. root[x] # a
        BY <2>2, <2>3, AgentAssumption
    <2> QED
        BY <2>1, <2>3, <2>4 DEF MapInv
<1> QED
    BY <1>1, <1>2 DEF MapInv, MapLive

LEMMA CloseAgentMap ==
    ASSUME MapInv, NEW a \in Agents, NEW e \in Epids \union {NoEpid}, NEW conn,
           epid[a] = NoEpid \/ e = epid[a],
           CloseAgent(a, e, conn)
    PROVE  MapInv'
BY Closing DEF CloseAgent

LEMMA CloseMap ==
    ASSUME MapInv, NEW a \in Agents, Close(a)
    PROVE  MapInv'
<1>1. epid[a] \in Epids \union {NoEpid}
    BY DEF MapInv
<1>2. PICK conn \in {FALSE, valid[a]} : CloseAgent(a, epid[a], conn)
    BY DEF Close
<1> QED
    BY <1>1, <1>2, CloseAgentMap

LEMMA RecvMap ==
    ASSUME MapInv, NEW a \in live, Recv(a)
    PROVE  MapInv'
<1>0. a \in Agents
    BY DEF MapInv
<1>1. CASE RecvEnd(a)
    BY <1>0, <1>1, CloseMap DEF RecvEnd
<1>2. CASE RecvNothing(a)
    BY <1>2, Unchanged DEF RecvNothing, mapVars
<1>3. CASE RecvClash(a)
    BY <1>0, <1>3, CloseAgentMap DEF RecvClash, Clashes
<1>4. CASE RecvWrong(a)
    BY <1>0, <1>4, CloseMap DEF RecvWrong
<1>5. CASE RecvServed(a)
    <2>1. PICK e \in Ids(a) :
             /\ ~Clashes(a, e)
             /\ epid' = [epid EXCEPT ![a] = e]
             /\ root' = IF epid[a] = NoEpid THEN [root EXCEPT ![e] = a] ELSE root
        BY <1>5 DEF RecvServed
    <2>2. live' = live
        BY <1>5 DEF RecvServed
    <2>3. CASE epid[a] = NoEpid
        <3>1. e \in Epids /\ root[e] = NoAgent
            BY <2>1, <2>3 DEF Ids, Clashes, Insertable
        <3>2. /\ epid' \in [Agents -> Epids \union {NoEpid}]
              /\ root' \in [Epids -> Agents \union {NoAgent}]
              /\ \A x \in Agents \ live' : epid'[x] = NoEpid
            BY <1>0, <2>1, <2>2, <2>3, <3>1 DEF MapInv
        <3>3. ASSUME NEW x \in Epids, root'[x] # NoAgent
              PROVE  root'[x] \in live' /\ epid'[root'[x]] = x
            <4>1. CASE x = e
                BY <1>0, <2>1, <2>2, <2>3, <3>1, <4>1 DEF MapInv
            <4>2. CASE x # e
                <5>1. root'[x] = root[x]
                    BY <2>1, <2>3, <4>2 DEF MapInv
                <5>2. root[x] \in live /\ epid[root[x]] = x
                    BY <3>3, <5>1 DEF MapInv, MapLive
                <5>3. root[x] # a
                    BY <2>3, <5>2, AgentAssumption
                <5> QED
                    BY <2>1, <2>2, <5>1, <5>2, <5>3 DEF MapInv
            <4> QED
                BY <4>1, <4>2
        <3> QED
            BY <2>2, <3>2, <3>3 DEF MapInv, MapLive
    <2>4. CASE epid[a] # NoEpid
        <3>1. e = epid[a] /\ root' = root
            BY <2>1, <2>4 DEF Ids
        <3>2. epid' = epid
            BY <1>0, <2>1, <3>1 DEF MapInv
        <3> QED
            BY <2>2, <3>1, <3>2, Unchanged DEF mapVars
    <2> QED
        BY <2>3, <2>4
<1>6. CASE RecvUnsendable(a)
    <2>1. PICK e \in Ids(a), conn \in BOOLEAN : CloseAgent(a, e, conn)
        BY <1>6 DEF RecvUnsendable
    <2>2. e \in Epids \union {NoEpid} /\ (epid[a] = NoEpid \/ e = epid[a])
        BY <1>0, <2>1 DEF Ids, MapInv
    <2> QED
        BY <1>0, <2>1, <2>2, CloseAgentMap
<1> QED
    BY <1>1, <1>2, <1>3, <1>4, <1>5, <1>6 DEF Recv

LEMMA MapStep == MapInv /\ [Next]_vars => MapInv'
<1> SUFFICES ASSUME MapInv, [Next]_vars PROVE MapInv'
    OBVIOUS
<1>0. live \subseteq Agents
    BY DEF MapInv
<1>1. ASSUME Accept PROVE MapInv'
    <2>1. PICK a \in Agents \ live : live' = live \union {a}
        BY <1>1, <1>0 DEF Accept
    <2>2. epid' = epid /\ root' = root
        BY <1>1 DEF Accept
    <2> QED
        BY <2>1, <2>2 DEF MapInv, MapLive
<1>2. AcceptFails => UNCHANGED mapVars
    BY DEF AcceptFails, agentVars, mapVars
<1>3. ASSUME NEW a \in live, Recv(a) PROVE MapInv'
    BY <1>3, RecvMap
<1>4. ASSUME NEW a \in live, Send(a) PROVE MapInv'
    <2>1. Close(a) \/ UNCHANGED mapVars
        BY <1>4 DEF Send, agentVars, mapVars
    <2> QED
        BY <1>0, <2>1, CloseMap, Unchanged
<1>5. ASSUME FromBackend PROVE MapInv'
    <2>1. Message => UNCHANGED mapVars
        BY DEF Message, agentVars, mapVars
    <2>2. \A e \in Epids : UserValid(e) => UNCHANGED mapVars
        BY DEF UserValid, mapVars
    <2>3. ASSUME NEW e \in Epids, CloseConnection(e) PROVE MapInv'
        <3>1. root[e] \in Agents /\ Close(root[e])
            BY <2>3 DEF CloseConnection, MapInv
        <3> QED
            BY <3>1, CloseMap
    <2> QED
        BY <1>5, <2>1, <2>2, <2>3, Unchanged DEF FromBackend
<1>6. ASSUME NEW a \in Agents, AgentTimer(a) PROVE MapInv'
    <2>1. Close(a) \/ UNCHANGED mapVars
        BY <1>6 DEF AgentTimer, mapVars
    <2> QED
        BY <2>1, CloseMap, Unchanged
<1>7. RpcIn \/ RpcOut \/ Skip \/ Wait => UNCHANGED mapVars
    BY DEF RpcIn, RpcOut, Skip, Wait, agentVars, mapVars
<1>8. Environment => UNCHANGED mapVars
    BY DEF Environment, ClientSends, ClientGoes, RpcChanges, agentVars, mapVars
<1>9. UNCHANGED vars => UNCHANGED mapVars
    BY DEF vars, agentVars, mapVars
<1> QED
    BY <1>1, <1>2, <1>3, <1>4, <1>5, <1>6, <1>7, <1>8, <1>9, Unchanged DEF Next, Handler

\* The map of agents only has live ones, each under its own id, though ids collide
\* and the agent that is refused takes the entry of the other with it.
THEOREM MapLiveAlways == Spec => []MapLive
<1>1. MapInv => MapLive
    BY DEF MapInv
<1> QED
    BY MapInit, MapStep, <1>1, PTL DEF Spec

-----------------------------------------------------------------------------
(* Entries that are lost.                                                  *)

NoneLost ==
    \A e \in Epids : root[e] \in live' /\ root'[e] # root[e] => Twin(e)

\* Closing an agent only removes the entry of the id it has, or was to get.
LEMMA ClosingLoses ==
    ASSUME MapInv, NEW a \in live, NEW e, NEW conn, CloseAgent(a, e, conn),
           e = epid[a] \/ (epid[a] = NoEpid /\ a \in unread)
    PROVE  NoneLost
<1> SUFFICES ASSUME NEW x \in Epids, root[x] \in live', root'[x] # root[x]
             PROVE  Twin(x)
    BY DEF NoneLost
<1>1. a \in live \ live' /\ root' = Removed(root, e)
    BY DEF CloseAgent
<1>2. x = e
    BY <1>1 DEF Removed, MapInv
<1>3. epid[a] = x \/ (epid[a] = NoEpid /\ a \in unread)
    BY <1>2
<1> QED
    BY <1>1, <1>3 DEF Twin

LEMMA CloseLoses ==
    ASSUME MapInv, NEW a \in live, Close(a)
    PROVE  NoneLost
BY ClosingLoses DEF Close

LEMMA RecvLoses ==
    ASSUME MapInv, NEW a \in live, Recv(a)
    PROVE  NoneLost
<1>1. CASE RecvEnd(a) \/ RecvWrong(a)
    BY <1>1, CloseLoses DEF RecvEnd, RecvWrong
<1>2. CASE RecvNothing(a)
    BY <1>2 DEF RecvNothing, NoneLost
<1>3. CASE RecvClash(a)
    <2>1. PICK e \in Epids : Clashes(a, e) /\ CloseAgent(a, e, FALSE)
        BY <1>3 DEF RecvClash
    <2>2. epid[a] = NoEpid /\ a \in unread
        BY <1>3, <2>1 DEF RecvClash, Clashes
    <2> QED
        BY <2>1, <2>2, ClosingLoses
<1>4. CASE RecvUnsendable(a)
    <2>1. PICK e \in Ids(a), conn \in BOOLEAN : CloseAgent(a, e, conn)
        BY <1>4 DEF RecvUnsendable
    <2>2. e = epid[a] \/ (epid[a] = NoEpid /\ a \in unread)
        BY <1>4, <2>1 DEF RecvUnsendable, Ids
    <2> QED
        BY <2>1, <2>2, ClosingLoses
<1>5. CASE RecvServed(a)
    <2>1. PICK e \in Ids(a) :
             /\ ~Clashes(a, e)
             /\ root' = IF epid[a] = NoEpid THEN [root EXCEPT ![e] = a] ELSE root
        BY <1>5 DEF RecvServed
    <2>2. live' = live
        BY <1>5 DEF RecvServed
    <2>3. epid[a] = NoEpid => root[e] = NoAgent
        BY <2>1 DEF Clashes, Insertable
    <2>4. NoAgent \notin live'
        BY <2>2, AgentAssumption DEF MapInv
    <2> QED
        BY <2>1, <2>3, <2>4 DEF NoneLost, MapInv
<1> QED
    BY <1>1, <1>2, <1>3, <1>4, <1>5 DEF Recv

LEMMA NextLoses == MapInv /\ Next => NoneLost
<1> SUFFICES ASSUME MapInv, Next PROVE NoneLost
    OBVIOUS
<1>1. root' = root => NoneLost
    BY DEF NoneLost
<1>2. Accept \/ AcceptFails \/ RpcIn \/ RpcOut \/ Skip \/ Wait \/ Environment => root' = root
    BY DEF Accept, AcceptFails, RpcIn, RpcOut, Skip, Wait, Environment, ClientSends,
           ClientGoes, RpcChanges, agentVars
<1>3. ASSUME NEW a \in live, Send(a) PROVE NoneLost
    BY <1>1, <1>3, CloseLoses DEF Send, agentVars
<1>4. ASSUME FromBackend PROVE NoneLost
    <2>1. ASSUME NEW e \in Epids, CloseConnection(e) PROVE NoneLost
        BY <2>1, CloseLoses DEF CloseConnection, MapInv, MapLive
    <2>2. Message \/ (\E e \in Epids : UserValid(e)) => root' = root
        BY DEF Message, UserValid, agentVars
    <2> QED
        BY <1>1, <1>4, <2>1, <2>2 DEF FromBackend
<1>5. ASSUME NEW a \in Agents, AgentTimer(a) PROVE NoneLost
    <2>1. a \in live /\ (Close(a) \/ root' = root)
        BY <1>5 DEF AgentTimer
    <2> QED
        BY <1>1, <2>1, CloseLoses
<1> QED
    BY <1>1, <1>2, <1>3, <1>4, <1>5, RecvLoses DEF Next, Handler

\* An entry of the map that goes while its agent stays goes in a step that closes
\* a twin: one with the same id, or the one that was refused it.
THEOREM LostToTwinAlways == Spec => LostToTwin
<1>1. MapInv /\ [Next]_vars =>
        [\A e \in Epids : root[e] \in live' /\ root'[e] # root[e] => Twin(e)]_vars
    BY NextLoses DEF NoneLost
<1> QED
    BY MapInit, MapStep, <1>1, PTL DEF Spec, LostToTwin

-----------------------------------------------------------------------------
(* Descriptors.                                                            *)

\* A set of natural numbers that is not empty has a least element.
LEMMA MinNat ==
    ASSUME NEW T \in SUBSET Nat, T # {}
    PROVE  Min(T) \in T /\ \A y \in T : Min(T) <= y
<1> DEFINE R == OpToRel(<, Nat)
<1>1. IsWellFoundedOn(R, Nat)
    BY NatLessThanWellFounded
<1>2. \A x, y \in Nat : x < y => <<x, y>> \in R
    BY DEF OpToRel
<1> HIDE DEF R
<1>3. PICK x \in T : \A y \in T : ~ (<<y, x>> \in R)
    BY <1>1, WFMin
<1>4. ASSUME NEW y \in T
      PROVE  x <= y
    <2>1. x \in Nat /\ y \in Nat
        OBVIOUS
    <2>2. ~(y < x)
        BY <1>2, <1>3, <2>1
    <2> QED
        BY <2>1, <2>2
<1>5. \E z \in T : \A y \in T : z <= y
    BY <1>4
<1> QED
    BY <1>5 DEF Min

\* The kernel gives out a descriptor that is free.
LEMMA LowestFree ==
    ASSUME open \subseteq Fds, CanOpen
    PROVE  Lowest \in Fds \ open
<1>1. Fds \ open \in SUBSET Nat
    BY DispatchAssumption DEF Fds
<1>2. Fds \ open # {}
    BY DEF CanOpen
<1> QED
    BY <1>1, <1>2, MinNat DEF Lowest

LEMMA SocketsApart == 0 \notin Fds /\ Listen \notin Fds /\ Backend \notin Fds /\ Listen # Backend
BY DispatchAssumption DEF Fds, Listen, Backend

\* The types of what concerns descriptors.
FileTypes ==
    /\ open \subseteq Fds
    /\ item \in [Fds -> Owners \union {NoOwner}]
    /\ ready \subseteq Fds
    /\ fdOf \in [Owners -> Fds \union {0}]
    /\ status \in {"disconnected", "connecting", "connected"}
    /\ tcp \in {"none", "syn", "est", "dead"}
    /\ fresh \in BOOLEAN

\* The types of the batch; the two sockets have one event each.
BatchTypes ==
    /\ \A fd \in DOMAIN batch : /\ fd \in Fds \union {Listen, Backend}
                                /\ batch[fd] \subseteq {"in", "out"}
                                /\ fd \notin Fds => batch[fd] = {"in"}
    /\ at \in Fds \union {0}

\* The types of what concerns agents.
AgentTypes ==
    /\ live \subseteq Agents
    /\ gone \union unread \subseteq live
    /\ \A a \in Agents \ live : fdOf[a] = 0 /\ epid[a] = NoEpid /\ ~valid[a] /\ quiet[a] = 0
    /\ epid \in [Agents -> Epids \union {NoEpid}]
    /\ valid \in [Agents -> BOOLEAN]
    /\ quiet \in [Agents -> 0..IdleLimit]
    /\ root \in [Epids -> Agents \union {NoAgent}]

\* Descriptors and their holders: each holder has one, different ones have
\* different ones, the open ones are those they have, what is registered is
\* registered for its holder, and only open ones can have an edge.
FdsInv ==
    /\ \A o \in Holders : fdOf[o] \in Fds
    /\ \A o, p \in Holders : fdOf[o] = fdOf[p] => o = p
    /\ open = {fdOf[o] : o \in Holders}
    /\ \A fd \in Fds : item[fd] # NoOwner => item[fd] \in Holders /\ fdOf[item[fd]] = fd
    /\ ready \subseteq open
    /\ status = "disconnected" => fdOf[Rpc] = 0

\* An event of the RPC client's connection before anything has become of it is
\* an event of its descriptor's former owner.
RpcInv ==
    /\ status = "disconnected" <=> tcp = "none"
    /\ tcp = "syn" => /\ fdOf[Rpc] \notin ready
                      /\ ~fresh => fdOf[Rpc] \notin DOMAIN batch

FilesInv == FileTypes /\ BatchTypes /\ FdsInv /\ RpcInv

SessionInv == FilesInv /\ AgentTypes /\ MapLive

LEMMA SessionInit == Init => SessionInv
<1> SUFFICES ASSUME Init
             PROVE  SessionInv
    OBVIOUS
<1> USE DEF Init, DispatchInit
<1>1. FileTypes /\ BatchTypes
    BY DEF FileTypes, BatchTypes, Owners
<1>2. FdsInv /\ RpcInv
    BY AgentAssumption DEF FdsInv, RpcInv, Holders, Owners
<1>3. AgentTypes /\ MapLive
    BY AgentAssumption DEF AgentTypes, MapLive, Owners
<1> QED
    BY <1>1, <1>2, <1>3 DEF SessionInv, FilesInv

\* Handling an event of the batch takes it out.
LEMMA HandledBatch ==
    ASSUME BatchTypes, NEW fd \in Fds \union {Listen, Backend}, NEW evt \in {"in", "out"},
           Turn(fd, evt), Handled(fd, evt)
    PROVE  /\ BatchTypes'
           /\ DOMAIN batch' \subseteq DOMAIN batch
           /\ \A x \in DOMAIN batch \ {fd} : x \in DOMAIN batch' /\ batch'[x] = batch[x]
<1>1. fd \in DOMAIN batch /\ evt \in batch[fd]
    BY DEF Turn
<1>2. CASE batch[fd] = {evt}
    BY <1>1, <1>2 DEF Handled, Without, BatchTypes
<1>3. CASE batch[fd] # {evt}
    <2>1. fd \in Fds
        BY <1>1, <1>3 DEF BatchTypes
    <2>2. batch' = [batch EXCEPT ![fd] = @ \ {evt}] /\ at' = fd
        BY <1>3 DEF Handled
    <2> QED
        BY <2>1, <2>2, SocketsApart DEF BatchTypes
<1> QED
    BY <1>2, <1>3

-----------------------------------------------------------------------------
(* The operations on descriptors keep the invariant.                       *)

\* A new descriptor, for a holder that had none.
LEMMA OpenKeeps ==
    ASSUME FilesInv, NEW o \in Owners \ Holders, NEW fd, CanOpen, fd = Lowest
    PROVE  /\ fd \in Fds /\ fd \notin open /\ fd \notin ready
           /\ item[fd] = NoOwner
           /\ Added(fd, o) \in [Fds -> Owners \union {NoOwner}]
           /\ \A x \in Fds \ {fd} : Added(fd, o)[x] = item[x]
           /\ Added(fd, o)[fd] \in {o, NoOwner}
<1>1. fd \in Fds \ open
    BY LowestFree DEF FilesInv, FileTypes
<1>2. fd \notin ready /\ item[fd] = NoOwner
    BY <1>1 DEF FilesInv, FdsInv
<1> QED
    BY <1>1, <1>2 DEF Added, FilesInv, FileTypes

\* The descriptors after a handler that may have connected, and has closed the
\* agents of C.
LEMMA FilesKeeps ==
    ASSUME FilesInv, AgentTypes, BatchTypes', NEW conn \in BOOLEAN, NEW C \in SUBSET live,
           Files(conn, C), live' = live \ C, DOMAIN batch' \subseteq DOMAIN batch
    PROVE  FilesInv'
<1> DEFINE fd == Lowest
           shut == {fdOf[a] : a \in C}
<1>1. /\ conn => status = "disconnected" /\ CanOpen
      /\ open' = (IF conn THEN open \union {fd} ELSE open) \ shut
      /\ item' = Deleted(IF conn THEN Added(fd, Rpc) ELSE item, shut)
      /\ ready' = ready \ shut
      /\ fresh' = (conn \/ fresh)
      /\ fdOf' = [o \in Owners |-> IF o \in C THEN 0
                                   ELSE IF o = Rpc /\ conn THEN fd ELSE fdOf[o]]
      /\ status' = IF conn THEN "connecting" ELSE status
      /\ tcp' = IF conn THEN "syn" ELSE tcp
    BY DEF Files, Connectable
<1>2. /\ Rpc \in Owners /\ Rpc \notin live /\ live \in SUBSET Owners /\ 0 \notin Fds
      /\ NoOwner \notin Owners
    BY AgentAssumption, SocketsApart DEF AgentTypes, Owners
<1>3. \A a \in C : fdOf[a] \in open /\ a \in Holders
    BY DEF FilesInv, FdsInv, Holders
<1>4. CASE ~conn
    <2>1. Holders' = Holders \ C
        BY <1>1, <1>2, <1>4 DEF Holders
    <2>2. \A o \in Holders' : fdOf'[o] = fdOf[o] /\ o \in Owners /\ o \in Holders
        BY <1>1, <1>2, <1>4, <2>1 DEF Holders
    <2>3. FileTypes'
        BY <1>1, <1>4 DEF FilesInv, FileTypes, Deleted
    <2>4. FdsInv'
        <3>1. open' = {fdOf'[o] : o \in Holders'}
            BY <1>1, <1>3, <1>4, <2>1, <2>2 DEF FilesInv, FdsInv
        <3>2. \A x \in Fds : item'[x] # NoOwner => item'[x] \in Holders' /\ fdOf'[item'[x]] = x
            BY <1>1, <1>3, <1>4, <2>1, <2>2 DEF FilesInv, FdsInv, Deleted
        <3>3. status' = "disconnected" => fdOf'[Rpc] = 0
            BY <1>1, <1>2, <1>4 DEF FilesInv, FdsInv
        <3>4. ready' \subseteq open'
            BY <1>1, <1>4 DEF FilesInv, FdsInv
        <3>5. \A o \in Holders' : fdOf'[o] \in Fds
            BY <2>2 DEF FilesInv, FdsInv
        <3>6. \A o, p \in Holders' : fdOf'[o] = fdOf'[p] => o = p
            BY <2>2 DEF FilesInv, FdsInv
        <3> QED
            BY <3>1, <3>2, <3>3, <3>4, <3>5, <3>6 DEF FdsInv
    <2>5. RpcInv'
        BY <1>1, <1>2, <1>4 DEF FilesInv, RpcInv
    <2> QED
        BY <2>3, <2>4, <2>5 DEF FilesInv
<1>5. CASE conn
    <2>1. Rpc \notin Holders
        BY <1>1, <1>2, <1>5 DEF Holders
    <2>2. /\ fd \in Fds /\ fd \notin open /\ fd \notin ready
          /\ Added(fd, Rpc) \in [Fds -> Owners \union {NoOwner}]
          /\ \A x \in Fds \ {fd} : Added(fd, Rpc)[x] = item[x]
          /\ Added(fd, Rpc)[fd] \in {Rpc, NoOwner}
        BY <1>1, <1>2, <1>5, <2>1, OpenKeeps
    <2>3. fd \notin shut
        BY <1>3, <2>2
    <2> HIDE DEF fd
    <2>4. Holders' = (Holders \ C) \union {Rpc}
        BY <1>1, <1>2, <1>5 DEF Holders
    <2>5. /\ fdOf'[Rpc] = fd /\ Rpc \notin C
          /\ \A o \in Holders \ C : fdOf'[o] = fdOf[o] /\ o \in Owners /\ o # Rpc
        BY <1>1, <1>2, <1>5, <2>1 DEF Holders
    <2>6. FileTypes'
        BY <1>1, <1>5, <2>2 DEF FilesInv, FileTypes, Deleted
    <2>7. FdsInv'
        <3>1. open' = {fdOf'[o] : o \in Holders'}
            BY <1>1, <1>3, <1>5, <2>3, <2>4, <2>5 DEF FilesInv, FdsInv
        <3>2. \A x \in Fds : item'[x] # NoOwner => item'[x] \in Holders' /\ fdOf'[item'[x]] = x
            <4> SUFFICES ASSUME NEW x \in Fds, item'[x] # NoOwner
                         PROVE  item'[x] \in Holders' /\ fdOf'[item'[x]] = x
                OBVIOUS
            <4>1. x \notin shut /\ item'[x] = Added(fd, Rpc)[x]
                BY <1>1, <1>5 DEF Deleted
            <4>2. CASE x = fd
                BY <2>2, <2>4, <2>5, <4>1, <4>2
            <4>3. CASE x # fd
                <5>1. item'[x] = item[x] /\ item[x] \in Holders /\ fdOf[item[x]] = x
                    BY <2>2, <4>1, <4>3 DEF FilesInv, FdsInv
                <5>2. item[x] \notin C
                    BY <4>1, <5>1
                <5> QED
                    BY <2>4, <2>5, <5>1, <5>2
            <4> QED
                BY <4>2, <4>3
        <3>3. \A o \in Holders' : fdOf'[o] \in Fds
            BY <2>2, <2>4, <2>5 DEF FilesInv, FdsInv
        <3>4. \A o, p \in Holders' : fdOf'[o] = fdOf'[p] => o = p
            BY <2>2, <2>4, <2>5 DEF FilesInv, FdsInv
        <3>5. ready' \subseteq open'
            BY <1>1, <1>5 DEF FilesInv, FdsInv
        <3> QED
            BY <1>1, <1>5, <3>1, <3>2, <3>3, <3>4, <3>5 DEF FdsInv
    <2>8. RpcInv'
        <3>1. status' = "connecting" /\ tcp' = "syn" /\ fresh'
            BY <1>1, <1>5
        <3>2. fdOf'[Rpc] \notin ready'
            BY <1>1, <2>2, <2>5
        <3> QED
            BY <3>1, <3>2 DEF RpcInv
    <2> QED
        BY <2>6, <2>7, <2>8 DEF FilesInv
<1> QED
    BY <1>4, <1>5

LEMMA SessionMap == SessionInv => MapInv
BY DEF SessionInv, AgentTypes, MapInv

\* Closing an agent keeps everything.
LEMMA CloseSession ==
    ASSUME SessionInv, BatchTypes', DOMAIN batch' \subseteq DOMAIN batch,
           NEW a \in live, NEW e \in Epids \union {NoEpid}, NEW conn \in BOOLEAN,
           epid[a] = NoEpid \/ e = epid[a], CloseAgent(a, e, conn)
    PROVE  SessionInv'
<1>1. /\ Files(conn, {a})
      /\ root' = Removed(root, e)
      /\ live' = live \ {a}
      /\ epid' = [epid EXCEPT ![a] = NoEpid]
      /\ valid' = [valid EXCEPT ![a] = FALSE]
      /\ quiet' = [quiet EXCEPT ![a] = 0]
      /\ gone' = gone \ {a}
      /\ unread' = unread \ {a}
    BY DEF CloseAgent
<1>2. a \in Agents /\ live \subseteq Agents /\ {a} \in SUBSET live
    BY DEF SessionInv, AgentTypes
<1>3. FilesInv'
    BY <1>1, <1>2, FilesKeeps DEF SessionInv
<1>4. MapInv'
    BY <1>2, SessionMap, CloseAgentMap
<1>5. fdOf' = [o \in Owners |-> IF o \in {a} THEN 0
                                ELSE IF o = Rpc /\ conn THEN Lowest ELSE fdOf[o]]
    BY <1>1 DEF Files
<1>6. \A b \in Agents : fdOf'[b] = IF b = a THEN 0 ELSE fdOf[b]
    BY <1>5, AgentAssumption DEF Owners
<1>7. AgentTypes'
    <2>1. /\ live' \subseteq Agents
          /\ epid' \in [Agents -> Epids \union {NoEpid}]
          /\ root' \in [Epids -> Agents \union {NoAgent}]
        BY <1>4 DEF MapInv
    <2>2. gone' \union unread' \subseteq live'
        BY <1>1 DEF SessionInv, AgentTypes
    <2>3. /\ valid' \in [Agents -> BOOLEAN]
          /\ quiet' \in [Agents -> 0..IdleLimit]
        BY <1>1, AgentAssumption DEF SessionInv, AgentTypes
    <2>4. \A b \in Agents \ live' :
             /\ b = a \/ b \in Agents \ live
             /\ fdOf'[b] = 0 /\ epid'[b] = NoEpid /\ ~valid'[b] /\ quiet'[b] = 0
        BY <1>1, <1>2, <1>6 DEF SessionInv, AgentTypes
    <2> QED
        BY <2>1, <2>2, <2>3, <2>4 DEF AgentTypes
<1>8. MapLive'
    BY <1>4 DEF MapInv
<1> QED
    BY <1>3, <1>7, <1>8 DEF SessionInv

LEMMA CloseOwn ==
    ASSUME SessionInv, BatchTypes', DOMAIN batch' \subseteq DOMAIN batch,
           NEW a \in live, Close(a)
    PROVE  SessionInv'
<1>1. valid[a] \in BOOLEAN /\ epid[a] \in Epids \union {NoEpid}
    BY DEF SessionInv, AgentTypes
<1>2. PICK conn \in {FALSE, valid[a]} : CloseAgent(a, epid[a], conn)
    BY DEF Close
<1>3. conn \in BOOLEAN
    BY <1>1, <1>2
<1> QED
    BY <1>1, <1>2, <1>3, CloseSession

\* A step that opens, registers and closes nothing keeps the descriptors.
LEMMA FilesSame ==
    ASSUME FilesInv, BatchTypes', UNCHANGED <<open, item, ready, rpcVars, live, fdOf>>,
           DOMAIN batch' \subseteq DOMAIN batch
    PROVE  FilesInv'
BY DEF FilesInv, FileTypes, FdsInv, RpcInv, Holders, rpcVars

\* One that moreover leaves the agents alone keeps everything.
LEMMA SessionSame ==
    ASSUME SessionInv, BatchTypes', DOMAIN batch' \subseteq DOMAIN batch,
           UNCHANGED <<open, item, ready, agentVars, rpcVars, fdOf, gone, unread>>
    PROVE  SessionInv'
<1>1. FilesInv'
    BY FilesSame DEF SessionInv, agentVars
<1>2. AgentTypes' /\ MapLive'
    BY DEF SessionInv, AgentTypes, MapLive, agentVars
<1> QED
    BY <1>1, <1>2 DEF SessionInv

\* A new edge of a registered descriptor, which is not the RPC client's before
\* something has become of its connection.
LEMMA EdgeKeeps ==
    ASSUME SessionInv, NEW o \in Holders, ready' = Woken(o),
           UNCHANGED <<open, item, batch, at, live, status, fresh, fdOf>>,
           tcp' # "syn" \/ (tcp' = tcp /\ o # Rpc),
           tcp' \in {"none", "syn", "est", "dead"}, tcp' = "none" <=> tcp = "none"
    PROVE  FilesInv'
<1>1. fdOf[o] \in Fds /\ fdOf[o] \in open /\ ready' \subseteq ready \union {fdOf[o]}
    BY DEF SessionInv, FilesInv, FdsInv, Woken
<1>2. FileTypes' /\ BatchTypes' /\ FdsInv'
    BY <1>1 DEF SessionInv, FilesInv, FileTypes, BatchTypes, FdsInv, Holders
<1>3. RpcInv'
    <2>1. CASE tcp' # "syn"
        BY <2>1 DEF SessionInv, FilesInv, RpcInv
    <2>2. CASE tcp' = tcp /\ o # Rpc /\ tcp = "syn"
        <3>1. Rpc \in Holders
            BY <2>2 DEF SessionInv, FilesInv, RpcInv, Holders
        <3>2. fdOf[o] # fdOf[Rpc]
            BY <2>2, <3>1 DEF SessionInv, FilesInv, FdsInv
        <3> QED
            BY <1>1, <2>2, <3>2 DEF SessionInv, FilesInv, RpcInv
    <2> QED
        BY <2>1, <2>2
<1> QED
    BY <1>2, <1>3 DEF FilesInv

-----------------------------------------------------------------------------
(* Every step keeps the invariant.                                         *)

LEMMA AcceptSession == SessionInv /\ Accept => SessionInv'
<1> SUFFICES ASSUME SessionInv, Accept
             PROVE  SessionInv'
    OBVIOUS
<1>1. BatchTypes' /\ DOMAIN batch' \subseteq DOMAIN batch
    BY HandledBatch DEF SessionInv, FilesInv, Accept
<1> DEFINE a == CHOOSE x \in Agents \ live : TRUE
           fd == Lowest
<1>2. a \in Agents \ live
    BY DEF Accept, SessionInv, AgentTypes
<1>3. /\ CanOpen
      /\ live' = live \union {a}
      /\ fdOf' = [fdOf EXCEPT ![a] = fd]
      /\ quiet' = [quiet EXCEPT ![a] = IdleLimit]
      /\ open' = open \union {fd}
      /\ item' = Added(fd, a)
      /\ ready' = IF Addable(fd) THEN ready \union {fd} ELSE ready
      /\ UNCHANGED <<rpcVars, epid, valid, root, gone, unread>>
    BY DEF Accept
<1> HIDE DEF a, fd
<1>4. a \in Owners \ Holders /\ a # Rpc /\ 0 \notin Fds /\ NoOwner \notin Owners
    BY <1>2, AgentAssumption, SocketsApart DEF Owners, Holders
<1>5. /\ fd \in Fds /\ fd \notin open /\ fd \notin ready
      /\ Added(fd, a) \in [Fds -> Owners \union {NoOwner}]
      /\ \A x \in Fds \ {fd} : Added(fd, a)[x] = item[x]
      /\ Added(fd, a)[fd] \in {a, NoOwner}
    BY <1>3, <1>4, OpenKeeps DEF SessionInv, fd
<1>6. /\ Holders' = Holders \union {a} /\ fdOf'[a] = fd
      /\ \A o \in Owners \ {a} : fdOf'[o] = fdOf[o]
    BY <1>3, <1>4 DEF Holders, rpcVars, SessionInv, FilesInv, FileTypes
<1>7. Holders \subseteq Owners \ {a} /\ Rpc \in Owners \ {a}
    BY <1>2, <1>4 DEF Holders, Owners, SessionInv, AgentTypes
<1>8. FileTypes'
    BY <1>3, <1>4, <1>5 DEF SessionInv, FilesInv, FileTypes, rpcVars
<1>9. FdsInv'
    <2>1. open' = {fdOf'[o] : o \in Holders'}
        BY <1>3, <1>6, <1>7 DEF SessionInv, FilesInv, FdsInv
    <2>2. \A x \in Fds : item'[x] # NoOwner => item'[x] \in Holders' /\ fdOf'[item'[x]] = x
        BY <1>3, <1>5, <1>6, <1>7 DEF SessionInv, FilesInv, FdsInv
    <2>3. \A o \in Holders' : fdOf'[o] \in Fds
        BY <1>5, <1>6, <1>7 DEF SessionInv, FilesInv, FdsInv
    <2>4. \A o, p \in Holders' : fdOf'[o] = fdOf'[p] => o = p
        BY <1>5, <1>6, <1>7 DEF SessionInv, FilesInv, FdsInv
    <2>5. ready' \subseteq open'
        BY <1>3 DEF SessionInv, FilesInv, FdsInv
    <2>6. status' = "disconnected" => fdOf'[Rpc] = 0
        BY <1>3, <1>6, <1>7 DEF SessionInv, FilesInv, FdsInv, rpcVars
    <2> QED
        BY <2>1, <2>2, <2>3, <2>4, <2>5, <2>6 DEF FdsInv
<1>10. RpcInv'
    <2>1. tcp = "syn" => Rpc \in Holders /\ fdOf[Rpc] \in open
        BY DEF SessionInv, FilesInv, RpcInv, FdsInv, Holders
    <2>2. tcp = "syn" => fdOf'[Rpc] = fdOf[Rpc] /\ fdOf[Rpc] # fd
        BY <1>5, <1>6, <1>7, <2>1
    <2>3. ready' \subseteq ready \union {fd} /\ tcp' = tcp /\ status' = status /\ fresh' = fresh
        BY <1>3 DEF rpcVars
    <2> QED
        BY <1>1, <2>2, <2>3 DEF SessionInv, FilesInv, RpcInv
<1>11. AgentTypes'
    <2>1. live' \subseteq Agents /\ gone' \union unread' \subseteq live'
        BY <1>2, <1>3 DEF SessionInv, AgentTypes
    <2>2. quiet' \in [Agents -> 0..IdleLimit]
        <3>1. quiet \in [Agents -> 0..IdleLimit]
            BY DEF SessionInv, AgentTypes
        <3>2. IdleLimit \in 0..IdleLimit
            BY AgentAssumption
        <3> QED
            BY <1>3, <3>1, <3>2
    <2>3. \A b \in Agents \ live' :
             fdOf'[b] = 0 /\ epid'[b] = NoEpid /\ ~valid'[b] /\ quiet'[b] = 0
        BY <1>2, <1>3, <1>6 DEF SessionInv, AgentTypes, Owners
    <2> QED
        BY <1>3, <2>1, <2>2, <2>3 DEF SessionInv, AgentTypes
<1>12. MapLive'
    BY <1>3 DEF SessionInv, MapLive
<1> QED
    BY <1>1, <1>8, <1>9, <1>10, <1>11, <1>12 DEF SessionInv, FilesInv

LEMMA RecvSession ==
    ASSUME SessionInv, NEW a \in live, Recv(a)
    PROVE  SessionInv'
<1>1. a \in Agents /\ fdOf[a] \in Fds /\ epid[a] \in Epids \union {NoEpid}
    BY DEF SessionInv, AgentTypes, FilesInv, FdsInv, Holders
<1>2. Reads(a)
    BY DEF Recv, RecvEnd, RecvNothing, RecvClash, RecvWrong, RecvServed, RecvUnsendable
<1>3. BatchTypes' /\ DOMAIN batch' \subseteq DOMAIN batch
    BY <1>1, <1>2, HandledBatch DEF SessionInv, FilesInv, Reads
<1>4. CASE RecvEnd(a) \/ RecvWrong(a)
    BY <1>3, <1>4, CloseOwn DEF RecvEnd, RecvWrong
<1>5. CASE RecvNothing(a)
    <2>1. /\ quiet' = [quiet EXCEPT ![a] = 0]
          /\ UNCHANGED <<open, item, ready, rpcVars, live, epid, valid, root, fdOf, gone, unread>>
        BY <1>5 DEF RecvNothing
    <2>2. FilesInv'
        BY <1>3, <2>1, FilesSame DEF SessionInv
    <2>3. AgentTypes' /\ MapLive'
        BY <2>1, AgentAssumption DEF SessionInv, AgentTypes, MapLive
    <2> QED
        BY <2>2, <2>3 DEF SessionInv
<1>6. CASE RecvClash(a)
    <2>1. PICK e \in Epids : Clashes(a, e) /\ CloseAgent(a, e, FALSE)
        BY <1>6 DEF RecvClash
    <2>2. epid[a] = NoEpid
        BY <2>1 DEF Clashes
    <2> QED
        BY <1>3, <2>1, <2>2, CloseSession
<1>7. CASE RecvServed(a)
    <2>1. PICK e \in Ids(a), conn \in BOOLEAN :
             /\ Files(conn, {})
             /\ epid' = [epid EXCEPT ![a] = e]
             /\ root' = IF epid[a] = NoEpid THEN [root EXCEPT ![e] = a] ELSE root
        BY <1>7 DEF RecvServed
    <2>2. /\ quiet' = [quiet EXCEPT ![a] = 0]
          /\ unread' = unread \ {a}
          /\ UNCHANGED <<live, valid, gone>>
        BY <1>7 DEF RecvServed
    <2>3. FilesInv'
        BY <1>3, <2>1, <2>2, FilesKeeps DEF SessionInv
    <2>4. MapInv'
        BY SessionMap, RecvMap
    <2>5. \A b \in Agents : fdOf'[b] = fdOf[b]
        BY <2>1, AgentAssumption DEF Files, Owners
    <2>6. /\ live' \subseteq Agents
          /\ epid' \in [Agents -> Epids \union {NoEpid}]
          /\ root' \in [Epids -> Agents \union {NoAgent}]
          /\ \A b \in Agents \ live' : epid'[b] = NoEpid
        BY <2>4 DEF MapInv
    <2>7. quiet' \in [Agents -> 0..IdleLimit]
        <3>1. quiet \in [Agents -> 0..IdleLimit]
            BY DEF SessionInv, AgentTypes
        <3>2. 0 \in 0..IdleLimit
            BY AgentAssumption
        <3> QED
            BY <2>2, <3>1, <3>2
    <2>8. gone' \union unread' \subseteq live' /\ valid' \in [Agents -> BOOLEAN]
        BY <2>2 DEF SessionInv, AgentTypes
    <2>9. \A b \in Agents \ live' : fdOf'[b] = 0 /\ ~valid'[b] /\ quiet'[b] = 0
        BY <1>1, <2>2, <2>5 DEF SessionInv, AgentTypes
    <2>10. AgentTypes'
        BY <2>6, <2>7, <2>8, <2>9 DEF AgentTypes
    <2> QED
        BY <2>3, <2>4, <2>10 DEF SessionInv, MapInv
<1>8. CASE RecvUnsendable(a)
    <2>1. PICK e \in Ids(a), conn \in BOOLEAN : CloseAgent(a, e, conn)
        BY <1>8 DEF RecvUnsendable
    <2>2. e \in Epids \union {NoEpid} /\ (epid[a] = NoEpid \/ e = epid[a])
        BY <1>1, <2>1 DEF Ids
    <2> QED
        BY <1>3, <2>1, <2>2, CloseSession
<1> QED
    BY <1>4, <1>5, <1>6, <1>7, <1>8 DEF Recv

LEMMA SendSession ==
    ASSUME SessionInv, NEW a \in live, Send(a)
    PROVE  SessionInv'
<1>1. fdOf[a] \in Fds
    BY DEF SessionInv, FilesInv, FdsInv, Holders
<1>2. BatchTypes' /\ DOMAIN batch' \subseteq DOMAIN batch
    BY <1>1, HandledBatch DEF SessionInv, FilesInv, Send
<1> QED
    BY <1>2, CloseOwn, SessionSame DEF Send

LEMMA BackendSession == SessionInv /\ FromBackend => SessionInv'
<1> SUFFICES ASSUME SessionInv, FromBackend
             PROVE  SessionInv'
    OBVIOUS
<1>1. BackendEvent
    BY DEF FromBackend, Message, UserValid, CloseConnection
<1>2. BatchTypes' /\ DOMAIN batch' \subseteq DOMAIN batch
    BY <1>1, HandledBatch DEF SessionInv, FilesInv, BackendEvent
<1>3. CASE Message
    BY <1>2, <1>3, SessionSame DEF Message
<1>4. ASSUME NEW e \in Epids, UserValid(e)
      PROVE  SessionInv'
    <2>1. /\ root[e] # NoAgent
          /\ \E v \in BOOLEAN : valid' = [valid EXCEPT ![root[e]] = v]
          /\ UNCHANGED <<open, item, ready, rpcVars, live, epid, quiet, root, fdOf, gone, unread>>
        BY <1>4 DEF UserValid
    <2>2. root[e] \in live
        BY <2>1 DEF SessionInv, MapLive
    <2>3. FilesInv'
        BY <1>2, <2>1, FilesSame DEF SessionInv
    <2>4. AgentTypes' /\ MapLive'
        BY <2>1, <2>2 DEF SessionInv, AgentTypes, MapLive
    <2> QED
        BY <2>3, <2>4 DEF SessionInv
<1>5. ASSUME NEW e \in Epids, CloseConnection(e)
      PROVE  SessionInv'
    BY <1>2, <1>5, CloseOwn DEF CloseConnection, SessionInv, MapLive
<1> QED
    BY <1>3, <1>4, <1>5 DEF FromBackend

LEMMA TimerSession ==
    ASSUME SessionInv, NEW a \in Agents, AgentTimer(a)
    PROVE  SessionInv'
<1>1. a \in live /\ batch' = batch /\ at' = at
    BY DEF AgentTimer
<1>2. BatchTypes' /\ DOMAIN batch' \subseteq DOMAIN batch
    BY <1>1 DEF SessionInv, FilesInv, BatchTypes
<1>3. CASE Idle(a)
    BY <1>1, <1>2, <1>3, CloseOwn DEF AgentTimer
<1>4. CASE ~Idle(a)
    <2>1. /\ quiet' = [quiet EXCEPT ![a] = Min({@ + 1, IdleLimit})]
          /\ UNCHANGED <<open, item, ready, rpcVars, live, epid, valid, root, fdOf, gone, unread>>
        BY <1>4 DEF AgentTimer
    <2>2. quiet[a] \in 0..IdleLimit /\ IdleLimit \in Nat
        BY AgentAssumption DEF SessionInv, AgentTypes
    <2>3. {quiet[a] + 1, IdleLimit} \in SUBSET Nat /\ {quiet[a] + 1, IdleLimit} # {}
        BY <2>2
    <2>4. /\ Min({quiet[a] + 1, IdleLimit}) \in Nat
          /\ Min({quiet[a] + 1, IdleLimit}) <= IdleLimit
        BY <2>3, MinNat
    <2>5. quiet' \in [Agents -> 0..IdleLimit]
        BY <2>1, <2>2, <2>4 DEF SessionInv, AgentTypes
    <2>6. FilesInv'
        BY <1>2, <2>1, FilesSame DEF SessionInv
    <2>7. AgentTypes' /\ MapLive'
        BY <1>1, <2>1, <2>5 DEF SessionInv, AgentTypes, MapLive
    <2> QED
        BY <2>6, <2>7 DEF SessionInv
<1> QED
    BY <1>3, <1>4

\* Closing the RPC client's connection.
LEMMA RpcClosedKeeps ==
    ASSUME FilesInv, AgentTypes, status # "disconnected", RpcClosed, live' = live,
           BatchTypes', DOMAIN batch' \subseteq DOMAIN batch
    PROVE  FilesInv' /\ \A a \in Agents : fdOf'[a] = fdOf[a]
<1> DEFINE fd == fdOf[Rpc]
<1>1. /\ open' = open \ {fd}
      /\ item' = Deleted(item, {fd})
      /\ ready' = ready \ {fd}
      /\ fdOf' = [fdOf EXCEPT ![Rpc] = 0]
      /\ status' = "disconnected" /\ tcp' = "none" /\ fresh' = fresh
    BY DEF RpcClosed
<1>2. /\ Rpc \in Owners /\ Rpc \notin live /\ live \subseteq Owners
      /\ NoOwner \notin Owners
    BY AgentAssumption DEF Owners, AgentTypes
<1>3. Holders = live \union {Rpc} /\ Holders' = live /\ fd \in open
    BY <1>1 DEF Holders, FilesInv, FdsInv
<1>4. /\ \A a \in live : fdOf'[a] = fdOf[a] /\ fdOf[a] # fd
      /\ fdOf'[Rpc] = 0
    BY <1>1, <1>2, <1>3 DEF FilesInv, FileTypes, FdsInv
<1>5. \A a \in Agents : fdOf'[a] = fdOf[a]
    BY <1>1, AgentAssumption DEF FilesInv, FileTypes, Owners
<1>6. FileTypes'
    BY <1>1 DEF FilesInv, FileTypes, Deleted
<1>7. FdsInv'
    <2>1. open' = {fdOf'[o] : o \in Holders'}
        BY <1>1, <1>3, <1>4 DEF FilesInv, FdsInv
    <2>2. \A x \in Fds : item'[x] # NoOwner => item'[x] \in Holders' /\ fdOf'[item'[x]] = x
        BY <1>1, <1>3, <1>4 DEF FilesInv, FdsInv, Deleted
    <2>3. \A o \in Holders' : fdOf'[o] \in Fds
        BY <1>3, <1>4 DEF FilesInv, FdsInv
    <2>4. \A o, p \in Holders' : fdOf'[o] = fdOf'[p] => o = p
        BY <1>3, <1>4 DEF FilesInv, FdsInv
    <2>5. ready' \subseteq open'
        BY <1>1 DEF FilesInv, FdsInv
    <2> QED
        BY <1>4, <2>1, <2>2, <2>3, <2>4, <2>5 DEF FdsInv
<1>8. RpcInv'
    BY <1>1 DEF RpcInv
<1> QED
    BY <1>5, <1>6, <1>7, <1>8 DEF FilesInv

LEMMA RpcSession == SessionInv /\ (RpcIn \/ RpcOut) => SessionInv'
<1> SUFFICES ASSUME SessionInv, RpcIn \/ RpcOut
             PROVE  SessionInv'
    OBVIOUS
<1>1. /\ status # "disconnected"
      /\ RpcTurn("in") \/ RpcTurn("out")
      /\ UNCHANGED <<agentVars, gone, unread>>
    BY DEF RpcIn, RpcOut
<1>2. fdOf[Rpc] \in Fds
    BY <1>1 DEF SessionInv, FilesInv, FdsInv, Holders
<1>3. BatchTypes' /\ DOMAIN batch' \subseteq DOMAIN batch
    BY <1>1, <1>2, HandledBatch DEF SessionInv, FilesInv, RpcTurn
<1>4. FilesInv' /\ \A a \in Agents : fdOf'[a] = fdOf[a]
    <2>1. CASE RpcClosed
        BY <1>1, <1>3, <2>1, RpcClosedKeeps DEF SessionInv, agentVars
    <2>2. CASE UNCHANGED <<open, item, ready, fdOf, rpcVars>>
        BY <1>1, <1>3, <2>2, FilesSame DEF SessionInv, agentVars
    <2>3. CASE status' = "connected" /\ UNCHANGED <<open, item, ready, fdOf, tcp, fresh>>
        <3>1. Holders' = Holders
            BY <1>1, <2>3 DEF Holders, agentVars
        <3>2. FileTypes' /\ FdsInv'
            BY <2>3, <3>1 DEF SessionInv, FilesInv, FileTypes, FdsInv
        <3>3. RpcInv'
            BY <1>1, <1>3, <2>3 DEF SessionInv, FilesInv, RpcInv
        <3> QED
            BY <1>3, <2>3, <3>2, <3>3 DEF FilesInv
    <2> QED
        BY <2>1, <2>2, <2>3 DEF RpcIn, RpcOut
<1>5. AgentTypes' /\ MapLive'
    BY <1>1, <1>4 DEF SessionInv, AgentTypes, MapLive, agentVars
<1> QED
    BY <1>4, <1>5 DEF SessionInv

LEMMA WaitSession == SessionInv /\ Wait => SessionInv'
<1> SUFFICES ASSUME SessionInv, Wait
             PROVE  SessionInv'
    OBVIOUS
<1>1. PICK X \in SUBSET {Listen, Backend} : EpollWait(Reported, X)
    BY DEF Wait
<1>2. /\ batch' = [fd \in ready \union X |-> IF fd \in ready THEN Reported[fd] ELSE {"in"}]
      /\ ready' = {}
      /\ UNCHANGED <<open, item, at>>
    BY <1>1 DEF EpollWait
<1>3. /\ fresh' = FALSE
      /\ UNCHANGED <<agentVars, status, tcp, fdOf, gone, unread>>
    BY DEF Wait
<1>4. ready \subseteq Fds
    BY DEF SessionInv, FilesInv, FileTypes
<1>5. \A fd \in ready : Reported[fd] \subseteq {"in", "out"}
    BY DEF Reported
<1>6. BatchTypes'
    BY <1>2, <1>4, <1>5 DEF SessionInv, FilesInv, BatchTypes
<1>7. FileTypes' /\ FdsInv'
    <2>1. /\ open' = open /\ item' = item /\ fdOf' = fdOf /\ ready' = {}
          /\ live' = live /\ status' = status /\ tcp' = tcp /\ fresh' = FALSE
        BY <1>2, <1>3 DEF agentVars
    <2>2. Holders' = Holders
        BY <2>1 DEF Holders
    <2>3. FileTypes'
        BY <2>1 DEF SessionInv, FilesInv, FileTypes
    <2>4. FdsInv'
        BY <2>1, <2>2 DEF SessionInv, FilesInv, FdsInv
    <2> QED
        BY <2>3, <2>4
<1>8. RpcInv'
    <2>1. tcp = "syn" => fdOf[Rpc] \in Fds /\ fdOf[Rpc] \notin ready
        BY DEF SessionInv, FilesInv, RpcInv, FdsInv, Holders
    <2>2. DOMAIN batch' = ready \union X
        BY <1>2
    <2> QED
        BY <1>2, <1>3, <2>1, <2>2, SocketsApart DEF SessionInv, FilesInv, RpcInv
<1>9. AgentTypes' /\ MapLive'
    BY <1>3 DEF SessionInv, AgentTypes, MapLive, agentVars
<1> QED
    BY <1>6, <1>7, <1>8, <1>9 DEF SessionInv, FilesInv

LEMMA SkipSession == SessionInv /\ Skip => SessionInv'
<1> SUFFICES ASSUME SessionInv, NEW fd \in Fds, SkipEvents(fd),
                    UNCHANGED <<agentVars, rpcVars, fdOf, gone, unread>>
             PROVE  SessionInv'
    BY DEF Skip
<1>1. batch' = Without(fd) /\ at' = 0 /\ UNCHANGED <<open, item, ready>>
    BY DEF SkipEvents
<1>2. BatchTypes' /\ DOMAIN batch' \subseteq DOMAIN batch
    BY <1>1 DEF Without, SessionInv, FilesInv, BatchTypes
<1> QED
    BY <1>1, <1>2, SessionSame

LEMMA EnvironmentSession == SessionInv /\ Environment => SessionInv'
<1> SUFFICES ASSUME SessionInv, Environment
             PROVE  SessionInv'
    OBVIOUS
<1>1. ASSUME NEW a \in Agents, ClientSends(a) \/ ClientGoes(a)
      PROVE  SessionInv'
    <2>1. /\ a \in live /\ ready' = Woken(a)
          /\ UNCHANGED <<open, item, batch, at, agentVars, rpcVars, fdOf>>
          /\ \/ unread' = unread \union {a} /\ gone' = gone
             \/ gone' = gone \union {a} /\ unread' = unread
        BY <1>1 DEF ClientSends, ClientGoes
    <2>2. a \in Holders /\ a # Rpc
        BY <2>1, AgentAssumption DEF Holders
    <2>3. FilesInv'
        BY <2>1, <2>2, EdgeKeeps DEF SessionInv, FilesInv, FileTypes, agentVars, rpcVars
    <2>4. AgentTypes' /\ MapLive'
        BY <2>1 DEF SessionInv, AgentTypes, MapLive, agentVars
    <2> QED
        BY <2>3, <2>4 DEF SessionInv
<1>2. CASE RpcChanges
    <2>1. /\ tcp \in {"syn", "est"} /\ tcp' \in {"est", "dead"}
          /\ ready' = Woken(Rpc)
          /\ UNCHANGED <<open, item, batch, at, agentVars, status, fresh, fdOf, gone, unread>>
        BY <1>2 DEF RpcChanges
    <2>2. Rpc \in Holders
        BY <2>1 DEF SessionInv, FilesInv, RpcInv, Holders
    <2>3. FilesInv'
        BY <2>1, <2>2, EdgeKeeps DEF agentVars
    <2>4. AgentTypes' /\ MapLive'
        BY <2>1 DEF SessionInv, AgentTypes, MapLive, agentVars
    <2> QED
        BY <2>3, <2>4 DEF SessionInv
<1> QED
    BY <1>1, <1>2 DEF Environment

LEMMA SessionStep == SessionInv /\ [Next]_vars => SessionInv'
<1> SUFFICES ASSUME SessionInv, [Next]_vars
             PROVE  SessionInv'
    OBVIOUS
<1>1. CASE AcceptFails
    <2>1. Turn(Listen, "in") /\ Handled(Listen, "in")
        BY <1>1 DEF AcceptFails
    <2>2. BatchTypes' /\ DOMAIN batch' \subseteq DOMAIN batch
        BY <2>1, HandledBatch DEF SessionInv, FilesInv
    <2> QED
        BY <1>1, <2>2, SessionSame DEF AcceptFails
<1>2. CASE UNCHANGED vars
    <2>1. BatchTypes' /\ DOMAIN batch' \subseteq DOMAIN batch
        BY <1>2 DEF SessionInv, FilesInv, BatchTypes, vars, dispatchVars
    <2> QED
        BY <1>2, <2>1, SessionSame DEF vars, dispatchVars
<1> QED
    BY <1>1, <1>2, AcceptSession, RecvSession, SendSession, BackendSession, TimerSession,
       RpcSession, WaitSession, SkipSession, EnvironmentSession DEF Next, Handler

\* Every state of every execution is of the declared types; an agent that is not
\* allocated has left nothing behind.
THEOREM AgentTypeCorrect == Spec => []TypeOK
<1>1. SessionInv => TypeOK
    BY DEF SessionInv, FilesInv, FileTypes, BatchTypes, AgentTypes, TypeOK
<1> QED
    BY SessionInit, SessionStep, <1>1, PTL DEF Spec

\* No handler is called with freed data: what is registered for a descriptor is
\* a live object that has it, no two objects have the same descriptor, and none
\* is left open without an owner, however descriptors come back within a batch.
THEOREM ItemsLiveAlways == Spec => []ItemsLive
<1>1. SessionInv => ItemsLive
    <2> SUFFICES ASSUME SessionInv
                 PROVE  ItemsLive
        OBVIOUS
    <2>1. FdsInv /\ open \subseteq Fds
        BY DEF SessionInv, FilesInv, FileTypes
    <2> DEFINE f == [o \in Holders |-> fdOf[o]]
    <2>2. f \in Bijection(Holders, open)
        <3>1. f \in [Holders -> open]
            BY <2>1 DEF FdsInv
        <3>2. \A o, p \in Holders : f[o] = f[p] => o = p
            BY <2>1 DEF FdsInv
        <3>3. \A x \in open : \E o \in Holders : f[o] = x
            BY <2>1 DEF FdsInv
        <3> QED
            BY <3>1, <3>2, <3>3 DEF Bijection, Injection, Surjection, IsInjective
    <2>3. IsFiniteSet(open)
        <3>1. IsFiniteSet(Fds)
            BY DispatchAssumption, FS_Interval DEF Fds
        <3> QED
            BY <2>1, <3>1, FS_Subset
    <2>4. IsFiniteSet(Holders) /\ Cardinality(open) = Cardinality(Holders)
        <3>1. f \in Injection(Holders, open) /\ f \in Surjection(Holders, open)
            BY <2>2 DEF Bijection
        <3> QED
            BY <2>3, <3>1, FS_Injection
    <2> QED
        BY <2>1, <2>4 DEF FdsInv, ItemsLive
<1> QED
    BY SessionInit, SessionStep, <1>1, PTL DEF Spec

-----------------------------------------------------------------------------
(* What ends a session, and what brings a connection up.                   *)

\* Whoever ends is served by a handler of its own only for a reason.
Deserved ==
    \A a \in live \ live' : Served(fdOf[a]) => a \in gone \/ Refused(a)

\* A handler of agent a's descriptor ends at most a's session.
LEMMA RecvDeserved ==
    ASSUME SessionInv, NEW a \in live, Recv(a)
    PROVE  Deserved
<1>1. live \ live' \subseteq {a}
    BY DEF Recv, RecvEnd, RecvNothing, RecvClash, RecvWrong, RecvServed, RecvUnsendable,
           Close, CloseAgent
<1>2. CASE RecvEnd(a) \/ RecvUnsendable(a)
    BY <1>1, <1>2 DEF RecvEnd, RecvUnsendable, Deserved
<1>3. CASE RecvNothing(a) \/ RecvServed(a)
    BY <1>3 DEF RecvNothing, RecvServed, Deserved
<1>4. CASE RecvClash(a)
    BY <1>1, <1>4 DEF RecvClash, Clashes, Refused, Deserved
<1>5. CASE RecvWrong(a)
    BY <1>1, <1>5 DEF RecvWrong, Refused, Deserved
<1> QED
    BY <1>2, <1>3, <1>4, <1>5 DEF Recv

LEMMA SendDeserved ==
    ASSUME SessionInv, NEW a \in live, Send(a)
    PROVE  Deserved
<1>1. CASE live' = live
    BY <1>1 DEF Deserved
<1>2. CASE a \in gone /\ Close(a)
    BY <1>2 DEF Close, CloseAgent, Deserved
<1> QED
    BY <1>1, <1>2 DEF Send, agentVars

\* What a backend sends is an event of the backend's socket, and of no agent's.
LEMMA BackendDeserved == SessionInv /\ FromBackend => Deserved
<1> SUFFICES ASSUME SessionInv, FromBackend, NEW a \in live
             PROVE  ~Served(fdOf[a])
    BY DEF Deserved
<1>1. Turn(Backend, "in") /\ Handled(Backend, "in")
    BY DEF FromBackend, Message, UserValid, CloseConnection, BackendEvent
<1>2. fdOf[a] \in Fds /\ fdOf[a] # Backend
    BY SocketsApart DEF SessionInv, FilesInv, FdsInv, Holders
<1>3. fdOf[a] \in DOMAIN batch =>
         fdOf[a] \in DOMAIN batch' /\ batch'[fdOf[a]] = batch[fdOf[a]]
    BY <1>1, <1>2, HandledBatch DEF SessionInv, FilesInv
<1> QED
    BY <1>3 DEF Served

LEMMA NextDeserved == SessionInv /\ Next => Deserved
<1> SUFFICES ASSUME SessionInv, Next
             PROVE  Deserved
    OBVIOUS
<1>1. live \subseteq live' => Deserved
    BY DEF Deserved
<1>2. Accept => live \subseteq live'
    BY DEF Accept
<1>3. AcceptFails \/ RpcIn \/ RpcOut \/ Skip \/ Wait \/ Environment => live' = live
    BY DEF AcceptFails, RpcIn, RpcOut, Skip, Wait, Environment, ClientSends,
           ClientGoes, RpcChanges, agentVars
<1>4. ASSUME NEW a \in Agents, AgentTimer(a)
      PROVE  Deserved
    <2>1. batch' = batch
        BY <1>4 DEF AgentTimer
    <2>2. \A fd : ~Served(fd)
        BY <2>1 DEF Served
    <2> QED
        BY <2>2 DEF Deserved
<1> QED
    BY <1>1, <1>2, <1>3, <1>4, RecvDeserved, SendDeserved, BackendDeserved DEF Next, Handler

\* An event left over from the former owner of a descriptor ends no session: the
\* handlers of an agent's own descriptor close it only if its client went, or
\* sent what is refused.
THEOREM NotMistakenAlways == Spec => NotMistaken
<1>1. SessionInv /\ [Next]_vars =>
        [\A a \in live \ live' : Served(fdOf[a]) => a \in gone \/ Refused(a)]_vars
    BY NextDeserved DEF Deserved
<1> QED
    BY SessionInit, SessionStep, <1>1, PTL DEF Spec, NotMistaken

\* Only an event of the connection's own descriptor brings it up.
LEMMA BroughtUp ==
    ASSUME SessionInv, Next, status = "connecting", status' = "connected"
    PROVE  RpcOut /\ tcp # "dead"
<1>1. \A conn, C : Files(conn, C) => status' # "connected"
    BY DEF Files
<1>2. \A a \in live : Close(a) => status' # "connected"
    BY <1>1 DEF Close, CloseAgent
<1>3. status' = status => FALSE
    OBVIOUS
<1>4. ~(Accept \/ AcceptFails \/ Skip \/ Wait \/ Environment)
    BY <1>3 DEF Accept, AcceptFails, Skip, Wait, Environment, ClientSends, ClientGoes,
                RpcChanges, rpcVars
<1>5. \A a \in live : ~Recv(a)
    BY <1>1, <1>2, <1>3 DEF Recv, RecvEnd, RecvNothing, RecvClash, RecvWrong, RecvServed,
                RecvUnsendable, CloseAgent, rpcVars
<1>6. \A a \in live : ~Send(a)
    BY <1>2, <1>3 DEF Send, rpcVars
<1>7. ~FromBackend
    BY <1>2, <1>3 DEF FromBackend, Message, UserValid, CloseConnection, rpcVars,
                SessionInv, MapLive
<1>8. \A a \in Agents : ~AgentTimer(a)
    BY <1>2, <1>3 DEF AgentTimer, rpcVars
<1>9. ~RpcIn
    BY <1>3 DEF RpcIn, RpcClosed, rpcVars
<1>10. RpcOut
    BY <1>4, <1>5, <1>6, <1>7, <1>8, <1>9 DEF Next, Handler
<1> QED
    BY <1>10 DEF RpcOut, RpcClosed

\* The RPC client takes a connection for up that is not only if its descriptor
\* was opened within the batch of events that is being worked off.
THEOREM UpTooEarlyAlways == Spec => UpTooEarly
<1>1. SessionInv /\ Next /\ status = "connecting" /\ status' = "connected" /\ tcp # "est"
        => fresh
    <2> SUFFICES ASSUME SessionInv, Next, status = "connecting", status' = "connected",
                        tcp # "est"
                 PROVE  fresh
        OBVIOUS
    <2>1. RpcOut /\ tcp = "syn"
        BY BroughtUp DEF SessionInv, FilesInv, FileTypes, RpcInv
    <2>2. fdOf[Rpc] \in DOMAIN batch
        BY <2>1 DEF RpcOut, RpcTurn, Turn
    <2> QED
        BY <2>1, <2>2 DEF SessionInv, FilesInv, RpcInv
<1>2. SessionInv /\ [Next]_vars =>
        [status = "connecting" /\ status' = "connected" /\ tcp # "est" => fresh]_vars
    BY <1>1
<1> QED
    BY SessionInit, SessionStep, <1>2, PTL DEF Spec, UpTooEarly
=============================================================================
