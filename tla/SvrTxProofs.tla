---------------------------- MODULE SvrTxProofs ----------------------------
(***************************************************************************)
(* Proofs about SvrTx, for every number of agents, connections and         *)
(* requests and every value of the timeouts.                               *)
(***************************************************************************)
EXTENDS SvrTx, FiniteSetTheorems, TLAPS

-----------------------------------------------------------------------------
(* Facts about finite sets.                                                *)

\* A set of requests is finite.
LEMMA ReqSets ==
    ASSUME NEW S \in SUBSET Reqs
    PROVE  IsFiniteSet(S) /\ Cardinality(S) \in Nat
BY FS_Subset, FS_CardinalityType, FiniteAssumption

\* Taking a part out of a finite set takes out its number of elements.
LEMMA CardinalityDifference ==
    ASSUME NEW S, IsFiniteSet(S), NEW T \in SUBSET S
    PROVE  Cardinality(S \ T) = Cardinality(S) - Cardinality(T)
<1>1. IsFiniteSet(T) /\ IsFiniteSet(S \ T)
    BY FS_Subset, S \ T \in SUBSET S
<1>2. Cardinality(S) \in Nat /\ Cardinality(T) \in Nat /\ Cardinality(S \ T) \in Nat
    BY <1>1, FS_CardinalityType
<1>3. Cardinality((S \ T) \cup T)
        = Cardinality(S \ T) + Cardinality(T) - Cardinality((S \ T) \cap T)
    BY <1>1, FS_Union
<1>4. (S \ T) \cup T = S /\ (S \ T) \cap T = {}
    OBVIOUS
<1>5. Cardinality({}) = 0
    BY FS_EmptySet
<1>6. Cardinality(S) = Cardinality(S \ T) + Cardinality(T) - 0
    BY <1>3, <1>4, <1>5
<1> QED
    BY <1>2, <1>6

-----------------------------------------------------------------------------
(* Type correctness.                                                       *)

LEMMA TypeInit == Init => TypeOK
BY NumberAssumption DEF Init, TypeOK

\* A sequence number never leaves 1..MaxSeq.
LEMMA NextSeqType ==
    ASSUME NEW s \in 0..MaxSeq
    PROVE  NextSeq(s) \in 1..MaxSeq
BY NumberAssumption DEF NextSeq

LEMMA UnrefType ==
    ASSUME TypeOK, NEW P \in SUBSET Reqs
    PROVE  Unref(P) \in [Conns -> Int]
<1> SUFFICES ASSUME NEW c \in Conns
             PROVE  refs[c] - Cardinality({r \in P : rConn[r] = c}) \in Int
    BY DEF Unref
<1>1. Cardinality({r \in P : rConn[r] = c}) \in Nat
    BY ReqSets
<1> QED
    BY <1>1 DEF TypeOK

LEMMA LeakType ==
    ASSUME NEW ph \in [Reqs -> {"idle", "refused", "buffered", "done", "leaked"}],
           NEW a
    PROVE  Leak(ph, a) \in [Reqs -> {"idle", "refused", "buffered", "done", "leaked"}]
BY DEF Leak

LEMMA CloseAgentType ==
    ASSUME TypeOK, NEW a \in Agents, CloseAgent(a)
    PROVE  /\ agSt' \in [Agents -> {"none", "accepted", "mapped", "closed"}]
           /\ bnSeq' \in [Agents -> 0..MaxSeq]
           /\ timer' \in [Agents -> Int]
           /\ idle' \in [Agents -> 0..(AliveTime + 1)]
BY NumberAssumption DEF TypeOK, CloseAgent

LEMMA BufferType ==
    ASSUME TypeOK, NEW c \in Conns, NEW a \in Agents, NEW r \in Reqs, Buffer(c, a, r)
    PROVE  /\ connSt' \in [Conns -> {"none", "open", "stashed", "freed"}]
           /\ connFd' \in [Conns -> Fds \union {NoFd}]
           /\ refs' \in [Conns -> Int]
           /\ owner' \in [Reqs -> Agents \union {NoAgent}]
           /\ rConn' \in [Reqs -> Conns \union {NoConn}]
           /\ rSeq' \in [Reqs -> 0..MaxSeq]
           /\ left' \in [Reqs -> Int]
           /\ resp' \in [Reqs -> Reqs \union {NoResp, Overtime, Failed}]
<1>1. NextSeq(bnSeq[a]) \in 0..MaxSeq
    <2>1. bnSeq[a] \in 0..MaxSeq
        BY DEF TypeOK
    <2>2. NextSeq(bnSeq[a]) \in 1..MaxSeq
        BY <2>1, NextSeqType
    <2> QED
        BY <2>2
<1> QED
    BY <1>1, NumberAssumption DEF TypeOK, Buffer

\* Every step keeps the types.
LEMMA TypeStep == TypeOK /\ [Next]_vars => TypeOK'
<1> SUFFICES ASSUME TypeOK, [Next]_vars
             PROVE  TypeOK'
    OBVIOUS
<1>1. ASSUME NEW c \in Conns, AcceptConn(c)
      PROVE  TypeOK'
    BY <1>1 DEF TypeOK, AcceptConn, agVars, reqVars
<1>2. ASSUME NEW c \in Conns, ConnDown(c)
      PROVE  TypeOK'
    BY <1>2 DEF TypeOK, ConnDown, CloseConn, agVars, reqVars
<1>3. ASSUME NEW a \in Agents, AcceptAgent(a)
      PROVE  TypeOK'
    BY <1>3, NumberAssumption DEF TypeOK, AcceptAgent, connVars, reqVars
<1>4. ASSUME NEW a \in Agents, ClientSends(a)
      PROVE  TypeOK'
    BY <1>4, NumberAssumption DEF TypeOK, ClientSends, connVars, reqVars
<1>5. ASSUME NEW a \in Agents, AgentDown(a)
      PROVE  TypeOK'
    BY <1>5, CloseAgentType, LeakType DEF TypeOK, AgentDown, connVars
<1>6. ASSUME NEW a \in Agents, AgentTimer(a)
      PROVE  TypeOK'
    <2> PICK P \in TakenByKey(a, Overdue(a)) :
          /\ \E W \in SUBSET {r \in P : MayWrite(rConn[r])} :
                resp' = [r \in Reqs |-> IF r \in W THEN Overtime
                                        ELSE IF r \in P THEN Failed ELSE resp[r]]
          /\ refs' = Unref(P)
          /\ LET ph == [r \in Reqs |-> IF r \in P THEN "done" ELSE phase[r]] IN
             IF idle[a] > AliveTime
             THEN /\ CloseAgent(a)
                  /\ phase' = Leak(ph, a)
             ELSE /\ timer' = Rearm(a)
                  /\ phase' = ph
                  /\ UNCHANGED <<agSt, bnSeq, idle>>
          /\ \E F \in Swept(refs') :
                /\ connSt' = [c \in Conns |-> IF c \in F THEN "freed" ELSE connSt[c]]
                /\ connFd' = [c \in Conns |-> IF c \in F THEN NoFd ELSE connFd[c]]
        BY <1>6 DEF AgentTimer
    <2> DEFINE ph == [r \in Reqs |-> IF r \in P THEN "done" ELSE phase[r]]
    <2>1. P \in SUBSET Reqs
        BY DEF TakenByKey, Table
    <2>2. refs' \in [Conns -> Int]
        BY <2>1, UnrefType
    <2>3. resp' \in [Reqs -> Reqs \union {NoResp, Overtime, Failed}]
        BY DEF TypeOK
    <2>4. connSt' \in [Conns -> {"none", "open", "stashed", "freed"}]
        BY DEF TypeOK
    <2>5. connFd' \in [Conns -> Fds \union {NoFd}]
        BY DEF TypeOK
    <2>6. ph \in [Reqs -> {"idle", "refused", "buffered", "done", "leaked"}]
        BY DEF TypeOK
    <2>7. CASE idle[a] > AliveTime
        <3>1. CloseAgent(a) /\ phase' = Leak(ph, a)
            BY <2>7
        <3>2. phase' \in [Reqs -> {"idle", "refused", "buffered", "done", "leaked"}]
            BY <3>1, <2>6, LeakType
        <3> QED
            BY <1>6, <2>2, <2>3, <2>4, <2>5, <3>1, <3>2, CloseAgentType
               DEF TypeOK, AgentTimer
    <2>8. CASE ~(idle[a] > AliveTime)
        BY <1>6, <2>2, <2>3, <2>4, <2>5, <2>6, <2>8, NumberAssumption
           DEF TypeOK, AgentTimer, Rearm
    <2> QED
        BY <2>7, <2>8
<1>7. ASSUME NEW c \in Conns, NEW a \in Agents, RecvDirect(c, a)
      PROVE  TypeOK'
    <2>1. NextSeq(bnSeq[a]) \in 1..MaxSeq
        BY NextSeqType DEF TypeOK
    <2> QED
        BY <1>7, <2>1 DEF TypeOK, RecvDirect, connVars, reqVars
<1>8. ASSUME NEW c \in Conns, NEW a \in Agents, RecvDirectClose(c, a)
      PROVE  TypeOK'
    BY <1>8, CloseAgentType, LeakType DEF TypeOK, RecvDirectClose, connVars
<1>9. ASSUME NEW c \in Conns, NEW r \in Reqs, RecvBacktrackRefused(c, r)
      PROVE  TypeOK'
    BY <1>9 DEF TypeOK, RecvBacktrackRefused, connVars, agVars
<1>10. ASSUME NEW c \in Conns, NEW a \in Agents, NEW r \in Reqs, RecvBacktrack(c, a, r)
       PROVE  TypeOK'
    <2>1. NextSeq(bnSeq[a]) \in 1..MaxSeq
        BY NextSeqType DEF TypeOK
    <2>2. Buffer(c, a, r)
        BY <1>10 DEF RecvBacktrack
    <2>3. bnSeq' \in [Agents -> 0..MaxSeq]
        BY <1>10, <2>1 DEF TypeOK, RecvBacktrack
    <2>4. phase' \in [Reqs -> {"idle", "refused", "buffered", "done", "leaked"}]
        BY <1>10 DEF TypeOK, RecvBacktrack
    <2> QED
        BY <1>10, <2>2, <2>3, <2>4, BufferType DEF TypeOK, RecvBacktrack
<1>11. ASSUME NEW c \in Conns, NEW a \in Agents, NEW r \in Reqs, RecvBacktrackClose(c, a, r)
       PROVE  TypeOK'
    <2>1. Buffer(c, a, r) /\ CloseAgent(a)
        BY <1>11 DEF RecvBacktrackClose
    <2>2. phase' \in [Reqs -> {"idle", "refused", "buffered", "done", "leaked"}]
        BY <1>11, LeakType DEF TypeOK, RecvBacktrackClose
    <2> QED
        BY <2>1, <2>2, BufferType, CloseAgentType DEF TypeOK
<1>12. ASSUME NEW a \in Agents, NEW r \in Reqs, ClientAnswers(a, r)
       PROVE  TypeOK'
    <2> PICK x \in Entries(a, rSeq[r]) : Settle(x, r)
        BY <1>12 DEF ClientAnswers
    <2>1. x \in Reqs
        BY DEF Entries, Table
    <2>2. refs' \in [Conns -> Int]
        BY <2>1, UnrefType DEF Settle
    <2>3. phase' = [phase EXCEPT ![x] = "done"]
        BY DEF Settle
    <2>4. resp' = [resp EXCEPT ![x] = r] \/ resp' = [resp EXCEPT ![x] = Failed]
        BY DEF Settle
    <2>5. resp' \in [Reqs -> Reqs \union {NoResp, Overtime, Failed}]
        BY <2>4 DEF TypeOK
    <2>6. idle' \in [Agents -> 0..(AliveTime + 1)]
        BY <1>12, NumberAssumption DEF TypeOK, ClientAnswers
    <2> QED
        BY <1>12, <2>1, <2>2, <2>3, <2>5, <2>6 DEF TypeOK, ClientAnswers
<1>13. CASE Tick
    BY <1>13, NumberAssumption DEF TypeOK, Tick, connVars, Floor
<1>14. CASE UNCHANGED vars
    BY <1>14 DEF TypeOK, vars, connVars, agVars, reqVars
<1> QED
    BY <1>1, <1>2, <1>3, <1>4, <1>5, <1>6, <1>7, <1>8, <1>9, <1>10, <1>11, <1>12,
       <1>13, <1>14 DEF Next

\* Every state of every execution is of the declared types: sequence numbers
\* stay within 15 bits, and the idle clock within its bound.
THEOREM TypeCorrect == Spec => []TypeOK
<1>1. TypeOK /\ [Next]_vars => TypeOK'
    BY TypeStep
<1> QED
    BY TypeInit, <1>1, PTL DEF Spec

-----------------------------------------------------------------------------
(* The reference counts.                                                   *)

LEMMA RefsInit == Init => RefsAccounting
<1> SUFFICES ASSUME Init, NEW c \in Conns
             PROVE  refs[c] = Cardinality(Holding(c))
    BY DEF RefsAccounting
<1>1. Holding(c) = {}
    BY DEF Init, Holding
<1> QED
    BY <1>1, FS_EmptySet DEF Init

\* A step that leaves the counts alone, and every request held or not held by
\* the connection it was held by, keeps the accounting.
LEMMA RefsSame ==
    ASSUME RefsAccounting, refs' = refs,
           \A r \in Reqs : /\ phase'[r] \in {"buffered", "leaked"}
                              <=> phase[r] \in {"buffered", "leaked"}
                           /\ phase[r] \in {"buffered", "leaked"} => rConn'[r] = rConn[r]
    PROVE  RefsAccounting'
<1> SUFFICES ASSUME NEW c \in Conns
             PROVE  refs'[c] = Cardinality(Holding(c)')
    BY DEF RefsAccounting
<1>1. \A r \in Reqs : (phase'[r] \in {"buffered", "leaked"} /\ rConn'[r] = c)
                       <=> (phase[r] \in {"buffered", "leaked"} /\ rConn[r] = c)
    OBVIOUS
<1>2. Holding(c)' = Holding(c)
    BY <1>1 DEF Holding
<1> QED
    BY <1>2 DEF RefsAccounting

\* Buffering request r for connection c, whether it stays or leaks at once,
\* adds one to both sides for c.
LEMMA RefsBuffer ==
    ASSUME TypeOK, RefsAccounting,
           NEW c \in Conns, NEW a \in Agents, NEW r \in Reqs, Buffer(c, a, r),
           phase[r] = "idle", phase'[r] \in {"buffered", "leaked"},
           \A q \in Reqs \ {r} : phase'[q] \in {"buffered", "leaked"}
                                   <=> phase[q] \in {"buffered", "leaked"}
    PROVE  RefsAccounting'
<1> SUFFICES ASSUME NEW d \in Conns
             PROVE  refs'[d] = Cardinality(Holding(d)')
    BY DEF RefsAccounting
<1>1. rConn' = [rConn EXCEPT ![r] = c] /\ refs' = [refs EXCEPT ![c] = @ + 1]
    BY DEF Buffer
<1>2. Holding(d) \in SUBSET Reqs /\ r \notin Holding(d)
    BY DEF Holding
<1>3. IsFiniteSet(Holding(d))
    BY <1>2, ReqSets
<1>4. CASE d = c
    <2>1. Holding(d)' = Holding(d) \cup {r}
        BY <1>1, <1>4 DEF Holding, TypeOK
    <2>2. Cardinality(Holding(d) \cup {r}) = Cardinality(Holding(d)) + 1
        BY <1>2, <1>3, FS_AddElement
    <2>3. refs'[d] = refs[d] + 1
        BY <1>1, <1>4 DEF TypeOK
    <2> QED
        BY <2>1, <2>2, <2>3 DEF RefsAccounting
<1>5. CASE d # c
    <2>1. Holding(d)' = Holding(d)
        BY <1>1, <1>2, <1>5 DEF Holding, TypeOK
    <2>2. refs'[d] = refs[d]
        BY <1>1, <1>5 DEF TypeOK
    <2> QED
        BY <2>1, <2>2 DEF RefsAccounting
<1> QED
    BY <1>4, <1>5

\* Taking the buffered requests P out of their tables, with one reference
\* dropped for each, takes the same number from both sides; the others may leak.
LEMMA RefsTake ==
    ASSUME TypeOK, RefsAccounting, NEW P \in SUBSET {r \in Reqs : phase[r] = "buffered"},
           refs' = Unref(P), rConn' = rConn,
           \A r \in P : phase'[r] = "done",
           \A r \in Reqs \ P : phase'[r] \in {"buffered", "leaked"}
                                   <=> phase[r] \in {"buffered", "leaked"}
    PROVE  RefsAccounting'
<1> SUFFICES ASSUME NEW c \in Conns
             PROVE  refs'[c] = Cardinality(Holding(c)')
    BY DEF RefsAccounting
<1> DEFINE Q == {r \in P : rConn[r] = c}
<1>1. Holding(c)' = Holding(c) \ Q
    BY DEF Holding
<1>2. Q \in SUBSET Holding(c)
    BY DEF Holding
<1>3. IsFiniteSet(Holding(c))
    BY ReqSets DEF Holding
<1>4. Cardinality(Holding(c) \ Q) = Cardinality(Holding(c)) - Cardinality(Q)
    BY <1>2, <1>3, CardinalityDifference
<1>5. refs'[c] = refs[c] - Cardinality(Q)
    BY DEF Unref
<1> QED
    BY <1>1, <1>4, <1>5 DEF RefsAccounting

\* An agent's table leaks only what it holds, and what leaks stays counted.
LEMMA LeakHolds ==
    ASSUME NEW ph, NEW a, NEW r \in Reqs
    PROVE  /\ Leak(ph, a)[r] \in {"buffered", "leaked"} <=> ph[r] \in {"buffered", "leaked"}
           /\ ph[r] \notin {"buffered", "leaked"} => Leak(ph, a)[r] = ph[r]
BY DEF Leak

\* What the proofs need of a run of an agent's timer: the requests P it takes
\* out, the references it drops, and the phases it leaves.
LEMMA AgentTimerTakes ==
    ASSUME NEW a \in Agents, AgentTimer(a)
    PROVE  \E P \in TakenByKey(a, Overdue(a)) :
              /\ P \in SUBSET {r \in Reqs : phase[r] = "buffered"}
              /\ refs' = Unref(P)
              /\ \A r \in P : phase'[r] = "done"
              /\ \A r \in Reqs \ P :
                    /\ phase'[r] \in {"buffered", "leaked"}
                         <=> phase[r] \in {"buffered", "leaked"}
                    /\ phase'[r] = "buffered" => phase[r] = "buffered"
<1> PICK P \in TakenByKey(a, Overdue(a)) :
          /\ refs' = Unref(P)
          /\ LET ph == [r \in Reqs |-> IF r \in P THEN "done" ELSE phase[r]] IN
             phase' = ph \/ phase' = Leak(ph, a)
    BY DEF AgentTimer
<1>1. P \in SUBSET {r \in Reqs : phase[r] = "buffered"}
    BY DEF TakenByKey, Table
<1> QED
    BY <1>1 DEF Leak

\* Every step keeps the accounting.
LEMMA RefsStep == TypeOK /\ RefsAccounting /\ [Next]_vars => RefsAccounting'
<1> SUFFICES ASSUME TypeOK, RefsAccounting, [Next]_vars
             PROVE  RefsAccounting'
    OBVIOUS
<1>1. ASSUME NEW c \in Conns, AcceptConn(c) \/ ConnDown(c)
      PROVE  RefsAccounting'
    BY <1>1, RefsSame DEF AcceptConn, ConnDown, reqVars
<1>2. ASSUME NEW a \in Agents, AcceptAgent(a) \/ ClientSends(a)
      PROVE  RefsAccounting'
    BY <1>2, RefsSame DEF AcceptAgent, ClientSends, connVars, reqVars
<1>3. ASSUME NEW a \in Agents, AgentDown(a)
      PROVE  RefsAccounting'
    BY <1>3, RefsSame, LeakHolds DEF AgentDown, connVars
<1>4. ASSUME NEW a \in Agents, AgentTimer(a)
      PROVE  RefsAccounting'
    <2>1. rConn' = rConn
        BY <1>4 DEF AgentTimer
    <2>2. PICK P \in TakenByKey(a, Overdue(a)) :
             /\ P \in SUBSET {r \in Reqs : phase[r] = "buffered"}
             /\ refs' = Unref(P)
             /\ \A r \in P : phase'[r] = "done"
             /\ \A r \in Reqs \ P : phase'[r] \in {"buffered", "leaked"}
                                      <=> phase[r] \in {"buffered", "leaked"}
        BY <1>4, AgentTimerTakes, Zenon
    <2> QED
        BY <2>1, <2>2, RefsTake
<1>5. ASSUME NEW c \in Conns, NEW a \in Agents, RecvDirect(c, a)
      PROVE  RefsAccounting'
    BY <1>5, RefsSame DEF RecvDirect, connVars, reqVars
<1>6. ASSUME NEW c \in Conns, NEW a \in Agents, RecvDirectClose(c, a)
      PROVE  RefsAccounting'
    BY <1>6, RefsSame, LeakHolds DEF RecvDirectClose, connVars
<1>7. ASSUME NEW c \in Conns, NEW r \in Reqs, RecvBacktrackRefused(c, r)
      PROVE  RefsAccounting'
    BY <1>7, RefsSame DEF TypeOK, RecvBacktrackRefused, connVars
<1>8. ASSUME NEW c \in Conns, NEW a \in Agents, NEW r \in Reqs, RecvBacktrack(c, a, r)
      PROVE  RefsAccounting'
    <2>1. /\ Buffer(c, a, r)
          /\ phase[r] = "idle"
          /\ phase' = [phase EXCEPT ![r] = "buffered"]
        BY <1>8 DEF RecvBacktrack
    <2>2. phase'[r] = "buffered" /\ \A q \in Reqs \ {r} : phase'[q] = phase[q]
        BY <2>1 DEF TypeOK
    <2> QED
        BY <2>1, <2>2, RefsBuffer
<1>9. ASSUME NEW c \in Conns, NEW a \in Agents, NEW r \in Reqs, RecvBacktrackClose(c, a, r)
      PROVE  RefsAccounting'
    <2>1. /\ Buffer(c, a, r)
          /\ phase[r] = "idle"
          /\ phase' = [Leak(phase, a) EXCEPT ![r] = "leaked"]
        BY <1>9 DEF RecvBacktrackClose
    <2>2. /\ phase'[r] = "leaked"
          /\ \A q \in Reqs \ {r} : phase'[q] = Leak(phase, a)[q]
        BY <2>1 DEF Leak
    <2> QED
        BY <2>1, <2>2, RefsBuffer, LeakHolds
<1>10. ASSUME NEW a \in Agents, NEW r \in Reqs, ClientAnswers(a, r)
       PROVE  RefsAccounting'
    <2> PICK x \in Entries(a, rSeq[r]) : Settle(x, r)
        BY <1>10 DEF ClientAnswers
    <2>1. x \in Reqs /\ phase[x] = "buffered"
        BY DEF Entries, Table
    <2>2. refs' = Unref({x}) /\ phase' = [phase EXCEPT ![x] = "done"]
        BY DEF Settle
    <2>3. phase'[x] = "done" /\ \A q \in Reqs \ {x} : phase'[q] = phase[q]
        BY <2>1, <2>2 DEF TypeOK
    <2>4. rConn' = rConn
        BY <1>10 DEF ClientAnswers
    <2>5. {x} \in SUBSET {q \in Reqs : phase[q] = "buffered"}
        BY <2>1
    <2> QED
        BY <2>2, <2>3, <2>4, <2>5, RefsTake
<1>11. CASE Tick
    BY <1>11, RefsSame DEF Tick, connVars
<1>12. CASE UNCHANGED vars
    BY <1>12, RefsSame DEF vars, connVars, reqVars
<1> QED
    BY <1>1, <1>2, <1>3, <1>4, <1>5, <1>6, <1>7, <1>8, <1>9, <1>10, <1>11, <1>12 DEF Next

\* The count on a connection is always the number of requests that point to it,
\* buffered or gone with their agent, whatever descriptors and sequence numbers
\* are reused.
THEOREM RefsAccounted == Spec => []RefsAccounting
<1>1. Init => TypeOK /\ RefsAccounting
    BY TypeInit, RefsInit
<1>2. TypeOK /\ RefsAccounting /\ [Next]_vars => (TypeOK /\ RefsAccounting)'
    BY TypeStep, RefsStep
<1> QED
    BY <1>1, <1>2, PTL DEF Spec

-----------------------------------------------------------------------------
(* No request points to a freed connection, if descriptors of stashed       *)
(* connections do not come back.                                           *)

Live(c) == connSt[c] \in {"open", "stashed"}

\* Requests that hold a connection name one.
HeldConn == \A r \in Reqs : phase[r] \in {"buffered", "leaked"} => rConn[r] \in Conns

\* Connections in use have descriptors, and different ones.
LiveFds == \A c \in Conns : Live(c) => connFd[c] \in Fds

FdsDistinct == \A c, d \in Conns : c # d /\ Live(c) /\ Live(d) => connFd[c] # connFd[d]

StashInv == HeldConn /\ LiveFds /\ FdsDistinct /\ NoDanglingRequest

LEMMA StashInit == Init => StashInv
BY DEF Init, StashInv, HeldConn, LiveFds, FdsDistinct, NoDanglingRequest, Live

\* The table and connection part of the invariant survives a step that leaves
\* the connections alone and buffers at most requests for live ones.
LEMMA StashSame ==
    ASSUME StashInv, connSt' = connSt, connFd' = connFd,
           \A r \in Reqs : phase'[r] \in {"buffered", "leaked"} =>
              \/ rConn'[r] \in Conns /\ connSt[rConn'[r]] = "open"
              \/ /\ phase[r] \in {"buffered", "leaked"}
                 /\ phase'[r] = "buffered" => phase[r] = "buffered"
                 /\ rConn'[r] = rConn[r]
    PROVE  StashInv'
<1>1. HeldConn'
    BY DEF StashInv, HeldConn
<1>2. LiveFds' /\ FdsDistinct'
    BY DEF StashInv, LiveFds, FdsDistinct, Live
<1>3. NoDanglingRequest'
    BY DEF StashInv, NoDanglingRequest
<1> QED
    BY <1>1, <1>2, <1>3 DEF StashInv

\* The sweep frees only connections without references: with distinct
\* descriptors, what is found under the key is what the key was taken from.
LEMMA SweepsUnreferenced ==
    ASSUME TypeOK, LiveFds, FdsDistinct, NEW rf \in [Conns -> Int],
           NEW F \in Swept(rf), NEW c \in F
    PROVE  c \in Conns /\ rf[c] = 0
<1> DEFINE f == connFd[c]
           A == {d \in F : connFd[d] = f}
           B == {d \in Conns : connSt[d] = "stashed" /\ rf[d] = 0 /\ connFd[d] = f}
<1>1. c \in Conns /\ connSt[c] = "stashed" /\ F \in SUBSET Conns
    BY DEF Swept
<1>2. f \in Fds
    BY <1>1 DEF LiveFds, Live
<1>3. Cardinality(A) = Cardinality(B)
    BY <1>2 DEF Swept
<1>4. IsFiniteSet(A) /\ IsFiniteSet(B)
    BY <1>1, FiniteAssumption, FS_Subset, A \in SUBSET Conns, B \in SUBSET Conns
<1>5. A # {}
    OBVIOUS
<1>6. B # {}
    BY <1>3, <1>4, <1>5, FS_EmptySet
<1>7. PICK d \in B : TRUE
    BY <1>6
<1>8. d = c
    BY <1>1, <1>7 DEF FdsDistinct, Live
<1> QED
    BY <1>1, <1>7, <1>8

\* A connection without references holds no request.
LEMMA Unreferenced ==
    ASSUME RefsAccounting, NEW c \in Conns, refs[c] = 0, NEW r \in Reqs,
           phase[r] \in {"buffered", "leaked"}
    PROVE  rConn[r] # c
<1>1. IsFiniteSet(Holding(c)) /\ Cardinality(Holding(c)) = 0
    BY ReqSets DEF RefsAccounting, Holding
<1>2. Holding(c) = {}
    BY <1>1, FS_EmptySet
<1> QED
    BY <1>2 DEF Holding

LEMMA StashStep ==
    ASSUME ~FdReuse, TypeOK, RefsAccounting, RefsAccounting', TypeOK', StashInv, [Next]_vars
    PROVE  StashInv'
<1> USE DEF StashInv
<1>1. ASSUME NEW c \in Conns, AcceptConn(c)
      PROVE  StashInv'
    <2> PICK f \in Fds :
           /\ FdFree(f)
           /\ \/ /\ connSt' = [connSt EXCEPT ![c] = "open"]
                 /\ connFd' = [connFd EXCEPT ![c] = f]
              \/ /\ connSt' = [connSt EXCEPT ![c] = "freed"]
                 /\ UNCHANGED connFd
        BY <1>1 DEF AcceptConn
    <2>1. connSt[c] = "none" /\ phase' = phase /\ rConn' = rConn
        BY <1>1 DEF AcceptConn, reqVars
    <2>2. \A d \in Conns : Live(d) => connFd[d] # f
        BY DEF FdFree, Live
    <2>3. \A d \in Conns \ {c} : connSt'[d] = connSt[d] /\ connFd'[d] = connFd[d]
        BY DEF TypeOK
    <2>4. (connSt'[c] = "open" /\ connFd'[c] = f) \/ connSt'[c] = "freed"
        BY DEF TypeOK
    <2>5. HeldConn'
        BY <2>1 DEF HeldConn
    <2>6. LiveFds'
        BY <2>3, <2>4 DEF LiveFds, Live
    <2>7. FdsDistinct'
        BY <2>2, <2>3, <2>4 DEF FdsDistinct, Live
    <2>8. NoDanglingRequest'
        BY <2>1, <2>3 DEF NoDanglingRequest, HeldConn
    <2> QED
        BY <2>5, <2>6, <2>7, <2>8
<1>2. ASSUME NEW c \in Conns, ConnDown(c)
      PROVE  StashInv'
    <2>1. /\ connSt[c] = "open"
          /\ phase' = phase /\ rConn' = rConn /\ refs' = refs
        BY <1>2 DEF ConnDown, reqVars
    <2>2. \A d \in Conns \ {c} : connSt'[d] = connSt[d] /\ connFd'[d] = connFd[d]
        BY <1>2 DEF ConnDown, CloseConn, TypeOK
    <2>3. \/ refs[c] = 0 /\ connSt'[c] = "freed"
          \/ connSt'[c] = "stashed" /\ connFd'[c] = connFd[c]
        BY <1>2 DEF ConnDown, CloseConn, TypeOK
    <2>4. HeldConn'
        BY <2>1 DEF HeldConn
    <2>5. LiveFds'
        BY <2>1, <2>2, <2>3 DEF LiveFds, Live
    <2>6. FdsDistinct'
        BY <2>1, <2>2, <2>3 DEF FdsDistinct, Live
    <2>7. NoDanglingRequest'
        BY <2>1, <2>2, <2>3, Unreferenced DEF NoDanglingRequest, HeldConn
    <2> QED
        BY <2>4, <2>5, <2>6, <2>7
<1>3. ASSUME NEW a \in Agents, AgentTimer(a)
      PROVE  StashInv'
    <2>1. PICK F \in Swept(refs') :
             /\ connSt' = [c \in Conns |-> IF c \in F THEN "freed" ELSE connSt[c]]
             /\ connFd' = [c \in Conns |-> IF c \in F THEN NoFd ELSE connFd[c]]
        BY <1>3 DEF AgentTimer
    <2>2. rConn' = rConn
        BY <1>3 DEF AgentTimer
    <2>3. \A r \in Reqs : /\ phase'[r] = "buffered" => phase[r] = "buffered"
                          /\ phase'[r] \in {"buffered", "leaked"}
                                => phase[r] \in {"buffered", "leaked"}
        <3>1. PICK P \in TakenByKey(a, Overdue(a)) :
                 /\ \A r \in P : phase'[r] = "done"
                 /\ \A r \in Reqs \ P :
                       /\ phase'[r] \in {"buffered", "leaked"}
                            <=> phase[r] \in {"buffered", "leaked"}
                       /\ phase'[r] = "buffered" => phase[r] = "buffered"
            BY <1>3, AgentTimerTakes, Zenon
        <3> QED
            BY <3>1
    <2>4. \A c \in F : c \in Conns /\ refs'[c] = 0
        BY SweepsUnreferenced DEF TypeOK
    <2>5. \A c \in F, r \in Reqs : phase'[r] = "buffered" => rConn'[r] # c
        <3> SUFFICES ASSUME NEW c \in F, NEW r \in Reqs, phase'[r] = "buffered",
                            rConn'[r] = c
                     PROVE  FALSE
            OBVIOUS
        <3>1. IsFiniteSet(Holding(c)') /\ Cardinality(Holding(c)') = 0
            BY <2>4, ReqSets DEF RefsAccounting, Holding
        <3>2. Holding(c)' = {}
            BY <3>1, FS_EmptySet
        <3> QED
            BY <3>2 DEF Holding
    <2>6. HeldConn'
        BY <2>2, <2>3 DEF HeldConn
    <2>7. LiveFds' /\ FdsDistinct'
        BY <2>1 DEF LiveFds, FdsDistinct, Live
    <2>8. NoDanglingRequest'
        BY <2>1, <2>2, <2>3, <2>5 DEF NoDanglingRequest, HeldConn
    <2> QED
        BY <2>6, <2>7, <2>8
<1>4. ASSUME NEW c \in Conns, NEW a \in Agents, NEW r \in Reqs,
             RecvBacktrack(c, a, r) \/ RecvBacktrackClose(c, a, r)
      PROVE  StashInv'
    <2>1. /\ connSt[c] = "open"
          /\ connSt' = connSt /\ connFd' = connFd
          /\ rConn' = [rConn EXCEPT ![r] = c]
        BY <1>4 DEF RecvBacktrack, RecvBacktrackClose, Buffer
    <2>2. rConn'[r] = c /\ \A q \in Reqs \ {r} : rConn'[q] = rConn[q]
        BY <2>1 DEF TypeOK
    <2>3. \A q \in Reqs \ {r} :
             /\ phase'[q] = "buffered" => phase[q] = "buffered"
             /\ phase'[q] \in {"buffered", "leaked"} => phase[q] \in {"buffered", "leaked"}
        <3>1. CASE RecvBacktrack(c, a, r)
            BY <3>1 DEF TypeOK, RecvBacktrack
        <3>2. CASE RecvBacktrackClose(c, a, r)
            BY <3>2 DEF TypeOK, RecvBacktrackClose, Leak
        <3> QED
            BY <1>4, <3>1, <3>2
    <2> QED
        BY <2>1, <2>2, <2>3, StashSame
<1>5. ASSUME NEW a \in Agents, NEW r \in Reqs, ClientAnswers(a, r)
      PROVE  StashInv'
    <2>1. PICK x \in Reqs : phase' = [phase EXCEPT ![x] = "done"]
        BY <1>5 DEF ClientAnswers, Settle, Entries, Table
    <2>2. connSt' = connSt /\ connFd' = connFd /\ rConn' = rConn
        BY <1>5 DEF ClientAnswers
    <2>3. \A q \in Reqs : phase'[q] = phase[q] \/ phase'[q] = "done"
        BY <2>1 DEF TypeOK
    <2> QED
        BY <2>2, <2>3, StashSame
<1>6. ASSUME NEW a \in Agents, AcceptAgent(a) \/ ClientSends(a)
      PROVE  StashInv'
    BY <1>6, StashSame DEF AcceptAgent, ClientSends, connVars, reqVars
<1>7. ASSUME NEW a \in Agents, AgentDown(a) \/ \E c \in Conns : RecvDirectClose(c, a)
      PROVE  StashInv'
    <2>1. phase' = Leak(phase, a) /\ connSt' = connSt /\ connFd' = connFd /\ rConn' = rConn
        BY <1>7 DEF AgentDown, RecvDirectClose, connVars
    <2>2. \A r \in Reqs :
             /\ phase'[r] = "buffered" => phase[r] = "buffered"
             /\ phase'[r] \in {"buffered", "leaked"} => phase[r] \in {"buffered", "leaked"}
        BY <2>1 DEF Leak
    <2> QED
        BY <2>1, <2>2, StashSame
<1>8. ASSUME NEW c \in Conns, NEW a \in Agents, RecvDirect(c, a)
      PROVE  StashInv'
    BY <1>8, StashSame DEF RecvDirect, connVars, reqVars
<1>9. ASSUME NEW c \in Conns, NEW r \in Reqs, RecvBacktrackRefused(c, r)
      PROVE  StashInv'
    BY <1>9, StashSame DEF TypeOK, RecvBacktrackRefused, connVars
<1>10. CASE Tick
    BY <1>10, StashSame DEF Tick, connVars
<1>11. CASE UNCHANGED vars
    BY <1>11, StashSame DEF vars, connVars, reqVars
<1> QED
    BY <1>1, <1>2, <1>3, <1>4, <1>5, <1>6, <1>7, <1>8, <1>9, <1>10, <1>11 DEF Next

\* If descriptors of stashed connections do not come back, a buffered request
\* always points to a connection that is still allocated, so that the client's
\* answer and the timer may read its status.
THEOREM NoDangling ==
    ASSUME ~FdReuse
    PROVE  Spec => []NoDanglingRequest
<1> DEFINE I == TypeOK /\ RefsAccounting /\ StashInv
<1>1. Init => I
    BY TypeInit, RefsInit, StashInit
<1>2. I /\ [Next]_vars => I'
    BY TypeStep, RefsStep, StashStep
<1>3. I => NoDanglingRequest
    BY DEF StashInv
<1> QED
    BY <1>1, <1>2, <1>3, PTL DEF Spec
=============================================================================
