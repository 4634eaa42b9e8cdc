------------------------ MODULE SvrTxPromiseProofs ------------------------
(***************************************************************************)
(* Proofs that every answer goes to its own request, that no request       *)
(* outstays its deadline, and that SvrTx keeps the promise of TxPromise,   *)
(* for clients that are never sent more than MaxSeq messages.              *)
(*                                                                         *)
(* The argument is one of keys.  As long as an agent's counter has not     *)
(* come round, the requests it was sent carry different numbers, so that   *)
(* what a handler finds under a key is what the key was taken from: the    *)
(* answer's own request, and the timer's overdue ones.                     *)
(***************************************************************************)
EXTENDS SvrTxProofs

-----------------------------------------------------------------------------
(* The inductive invariant.                                                *)

\* The client may still answer request r.
Sent(r) == phase[r] \in {"buffered", "done"}

\* A request that was handed to a client knows it, and is buffered only while
\* that client is there.
OwnersKnown ==
    \A r \in Reqs : phase[r] \in {"buffered", "done", "leaked"} =>
        /\ owner[r] \in Agents
        /\ agSt[owner[r]] \in {"mapped", "closed"}
        /\ phase[r] = "buffered" => agSt[owner[r]] = "mapped"

\* The numbers of the requests sent to a client are behind its counter...
SeqsGiven ==
    \A r \in Reqs :
        Sent(r) /\ agSt[owner[r]] = "mapped" => rSeq[r] \in 1..bnSeq[owner[r]]

\* ...and all different, even those of requests that are over.
SeqsDistinct ==
    \A r, q \in Reqs :
        /\ r # q /\ Sent(r) /\ Sent(q)
        /\ owner[r] = owner[q] /\ agSt[owner[r]] = "mapped"
        => rSeq[r] # rSeq[q]

\* A response is written when its request leaves the table, and only then.
AnswersDone == \A r \in Reqs : resp[r] # NoResp <=> phase[r] = "done"

Keys == OwnersKnown /\ SeqsGiven /\ SeqsDistinct

SeqInv == Keys /\ AnswersDone /\ AnswerMatches

\* The timer of a client that is there is set, and not too late.
TimersRun == \A a \in Agents : Up(a) => timer[a] \in (-MaxLate)..TimerInterval

\* The timer comes at most a period after the deadline of what is buffered.
InTime ==
    \A r \in Reqs : phase[r] = "buffered" => left[r] >= timer[owner[r]] - TimerInterval

DeadlineInv == TimersRun /\ InTime

LEMMA SeqInit == Init => SeqInv /\ DeadlineInv
BY DistinctAssumption
   DEF Init, SeqInv, Keys, OwnersKnown, SeqsGiven, SeqsDistinct, Sent, AnswersDone,
       AnswerMatches, DeadlineInv, TimersRun, InTime, Up

-----------------------------------------------------------------------------
(* What is found under a key.                                              *)

\* At most one buffered request of a client has a given number.
LEMMA OneUnderKey ==
    ASSUME Keys, NEW a \in Agents, NEW X \in SUBSET Table(a), NEW r \in Table(a)
    PROVE  {q \in X : rSeq[q] = rSeq[r]} = IF r \in X THEN {r} ELSE {}
BY DEF Keys, OwnersKnown, SeqsDistinct, Sent, Table

\* The number of a buffered request is one the counter gives.
LEMMA KeyInRange ==
    ASSUME TypeOK, Keys, NEW a \in Agents, NEW r \in Table(a)
    PROVE  rSeq[r] \in 1..MaxSeq
<1>1. r \in Reqs /\ phase[r] = "buffered" /\ owner[r] = a
    BY DEF Table
<1>2. rSeq[r] \in 1..bnSeq[a]
    BY <1>1 DEF Keys, OwnersKnown, SeqsGiven, Sent
<1>3. bnSeq[a] \in 0..MaxSeq
    BY DEF TypeOK
<1> QED
    BY <1>2, <1>3, NumberAssumption

\* The client's answer under r's number finds r, or nothing.
LEMMA FindsItself ==
    ASSUME Keys, NEW a \in Agents, NEW r \in Reqs, agSt[a] = "mapped", owner[r] = a,
           Sent(r), NEW x \in Entries(a, rSeq[r])
    PROVE  x = r
BY DEF Keys, SeqsDistinct, Sent, Entries, Table

\* What the timer takes out under the keys of the overdue requests are the
\* overdue requests.
LEMMA TakenIsOverdue ==
    ASSUME TypeOK, Keys, NEW a \in Agents, NEW P \in TakenByKey(a, Overdue(a))
    PROVE  P = Overdue(a)
<1>1. P \in SUBSET Table(a) /\ Overdue(a) \in SUBSET Table(a)
    BY DEF TakenByKey, Overdue
<1>2. ASSUME NEW r \in Table(a)
      PROVE  r \in P <=> r \in Overdue(a)
    <2> DEFINE A == {q \in P : rSeq[q] = rSeq[r]}
               B == {q \in Overdue(a) : rSeq[q] = rSeq[r]}
    <2>1. Cardinality(A) = Cardinality(B)
        BY <1>2, KeyInRange DEF TakenByKey
    <2>2. A = IF r \in P THEN {r} ELSE {}
        BY <1>1, <1>2, OneUnderKey
    <2>3. B = IF r \in Overdue(a) THEN {r} ELSE {}
        BY <1>1, <1>2, OneUnderKey
    <2>4. Cardinality({}) = 0 /\ Cardinality({r}) = 1
        BY FS_EmptySet, FS_Singleton
    <2> HIDE DEF A, B
    <2>5. (r \in P) = (Cardinality(A) = 1)
        BY <2>2, <2>4
    <2>6. (r \in Overdue(a)) = (Cardinality(B) = 1)
        BY <2>3, <2>4
    <2> QED
        BY <2>1, <2>5, <2>6
<1> QED
    BY <1>1, <1>2
-----------------------------------------------------------------------------
(* The keys are kept.                                                      *)

\* A step that hands no request to a client, closes no agent that keeps a
\* buffered request and lets no counter of a mapped agent go back, keeps them.
LEMMA KeysSame ==
    ASSUME TypeOK, TypeOK', Keys, owner' = owner, rSeq' = rSeq,
           \A r \in Reqs :
              /\ phase'[r] \in {"buffered", "done", "leaked"}
                    => phase[r] \in {"buffered", "done", "leaked"}
              /\ phase'[r] \in {"buffered", "done"} => phase[r] \in {"buffered", "done"}
              /\ phase'[r] = "buffered"
                    => phase[r] = "buffered" /\ agSt'[owner[r]] = "mapped",
           \A b \in Agents :
              /\ agSt[b] \in {"mapped", "closed"} => agSt'[b] \in {"mapped", "closed"}
              /\ agSt'[b] = "mapped" =>
                    /\ agSt[b] # "closed"
                    /\ bnSeq[b] <= bnSeq'[b]
    PROVE  Keys'
<1>1. OwnersKnown'
    BY DEF Keys, OwnersKnown
<1>2. ASSUME NEW r \in Reqs, Sent(r)', agSt'[owner'[r]] = "mapped"
      PROVE  /\ Sent(r)
             /\ owner[r] \in Agents
             /\ agSt[owner[r]] = "mapped"
             /\ bnSeq[owner[r]] <= bnSeq'[owner[r]]
    BY <1>2 DEF Keys, OwnersKnown, Sent
<1>3. SeqsGiven'
    <2> SUFFICES ASSUME NEW r \in Reqs, Sent(r)', agSt'[owner'[r]] = "mapped"
                 PROVE  rSeq'[r] \in 1..bnSeq'[owner'[r]]
        BY DEF SeqsGiven
    <2>1. rSeq[r] \in 1..bnSeq[owner[r]] /\ bnSeq[owner[r]] <= bnSeq'[owner[r]]
        BY <1>2 DEF Keys, SeqsGiven
    <2>2. bnSeq[owner[r]] \in Int /\ bnSeq'[owner[r]] \in Int
        BY <1>2, NumberAssumption DEF TypeOK
    <2> QED
        BY <2>1, <2>2
<1>4. SeqsDistinct'
    BY <1>2 DEF Keys, SeqsDistinct
<1> QED
    BY <1>1, <1>3, <1>4 DEF Keys

\* The number of the next request is a new one.
LEMMA NextIsNew ==
    ASSUME ~SeqWraps, TypeOK, NEW a \in Agents, CanNumber(a)
    PROVE  NextSeq(bnSeq[a]) = bnSeq[a] + 1 /\ bnSeq[a] \in Nat
BY NumberAssumption DEF TypeOK, CanNumber, NextSeq

\* Closing agent a and leaking what it has buffered, of the phases ph, keeps the
\* keys of the others.
LEMMA KeysClose ==
    ASSUME TypeOK, TypeOK', Keys, owner' = owner, rSeq' = rSeq,
           NEW a \in Agents, CloseAgent(a), Up(a),
           NEW ph, phase' = Leak(ph, a),
           \A r \in Reqs : ph[r] = phase[r] \/ (phase[r] = "buffered" /\ ph[r] = "done")
    PROVE  Keys'
<1>1. /\ agSt'[a] = "closed"
      /\ \A b \in Agents \ {a} : agSt'[b] = agSt[b] /\ bnSeq'[b] = bnSeq[b]
    BY DEF CloseAgent, TypeOK
<1>2. \A r \in Reqs :
         \/ phase'[r] = phase[r] /\ (phase[r] = "buffered" => owner[r] # a)
         \/ phase[r] = "buffered" /\ phase'[r] \in {"done", "leaked"}
    BY DEF Leak
<1>3. \A r \in Reqs : phase'[r] = "buffered" =>
         phase[r] = "buffered" /\ agSt'[owner[r]] = "mapped"
    BY <1>1, <1>2 DEF Keys, OwnersKnown
<1>4. \A b \in Agents :
         /\ agSt[b] \in {"mapped", "closed"} => agSt'[b] \in {"mapped", "closed"}
         /\ agSt'[b] = "mapped" => agSt[b] # "closed" /\ bnSeq[b] <= bnSeq'[b]
    BY <1>1, NumberAssumption DEF TypeOK
<1>5. \A r \in Reqs :
         /\ phase'[r] \in {"buffered", "done", "leaked"}
               => phase[r] \in {"buffered", "done", "leaked"}
         /\ phase'[r] \in {"buffered", "done"} => phase[r] \in {"buffered", "done"}
    BY <1>2
<1> QED
    BY <1>3, <1>4, <1>5, KeysSame
\* The phases once the overdue requests have been taken out.
TimerPhases(a) == [r \in Reqs |-> IF r \in Overdue(a) THEN "done" ELSE phase[r]]

\* What a run of an agent's timer does to the requests, and to the agent.
LEMMA TimerRun ==
    ASSUME TypeOK, Keys, NEW a \in Agents, AgentTimer(a)
    PROVE  /\ \A r \in Overdue(a) : /\ r \in Reqs /\ phase[r] = "buffered" /\ left[r] < 0
                                    /\ phase'[r] = "done" /\ resp'[r] \in {Overtime, Failed}
           /\ \A r \in Reqs \ Overdue(a) :
                 /\ resp'[r] = resp[r]
                 /\ phase'[r] # phase[r] => phase[r] = "buffered" /\ phase'[r] = "leaked"
           /\ \/ CloseAgent(a) /\ phase' = Leak(TimerPhases(a), a)
              \/ timer' = Rearm(a) /\ agSt' = agSt /\ bnSeq' = bnSeq
           /\ UNCHANGED <<owner, rConn, rSeq, left>>
<1>1. PICK P \in TakenByKey(a, Overdue(a)) :
         /\ \E W \in SUBSET {r \in P : MayWrite(rConn[r])} :
               resp' = [r \in Reqs |-> IF r \in W THEN Overtime
                                       ELSE IF r \in P THEN Failed ELSE resp[r]]
         /\ LET ph == [r \in Reqs |-> IF r \in P THEN "done" ELSE phase[r]] IN
            \/ CloseAgent(a) /\ phase' = Leak(ph, a)
            \/ timer' = Rearm(a) /\ phase' = ph /\ UNCHANGED <<agSt, bnSeq, idle>>
    BY DEF AgentTimer
<1>2. P = Overdue(a)
    BY TakenIsOverdue
<1>3. \A r \in Overdue(a) : r \in Reqs /\ phase[r] = "buffered" /\ left[r] < 0
    BY DEF Overdue, Table
<1>4. /\ \A r \in Overdue(a) : resp'[r] \in {Overtime, Failed}
      /\ \A r \in Reqs \ Overdue(a) : resp'[r] = resp[r]
    BY <1>1, <1>2, <1>3
<1>5. \/ CloseAgent(a) /\ phase' = Leak(TimerPhases(a), a)
      \/ timer' = Rearm(a) /\ phase' = TimerPhases(a) /\ agSt' = agSt /\ bnSeq' = bnSeq
    BY <1>1, <1>2 DEF TimerPhases
<1>6. /\ \A r \in Overdue(a) : phase'[r] = "done"
      /\ \A r \in Reqs \ Overdue(a) :
            phase'[r] # phase[r] => phase[r] = "buffered" /\ phase'[r] = "leaked"
    BY <1>3, <1>5 DEF Leak, TimerPhases
<1>7. UNCHANGED <<owner, rConn, rSeq, left>>
    BY DEF AgentTimer
<1> QED
    BY <1>3, <1>4, <1>5, <1>6, <1>7

\* Handing request r to the client of agent a under the next number keeps the
\* keys, whether the request is buffered or goes at once with its agent.
LEMMA KeysBacktrack ==
    ASSUME ~SeqWraps, TypeOK, TypeOK', Keys,
           NEW c \in Conns, NEW a \in Agents, NEW r \in Reqs, RecvBacktrack(c, a, r)
    PROVE  Keys'
<1>1. /\ phase[r] = "idle" /\ agSt[a] = "mapped" /\ agSt' = agSt
      /\ phase' = [phase EXCEPT ![r] = "buffered"]
      /\ owner' = [owner EXCEPT ![r] = a]
      /\ rSeq' = [rSeq EXCEPT ![r] = NextSeq(bnSeq[a])]
      /\ bnSeq' = [bnSeq EXCEPT ![a] = NextSeq(bnSeq[a])]
    BY DEF RecvBacktrack, Buffer
<1>2. NextSeq(bnSeq[a]) = bnSeq[a] + 1 /\ bnSeq[a] \in Nat
    BY NextIsNew DEF RecvBacktrack
<1>3. /\ phase'[r] = "buffered" /\ owner'[r] = a /\ rSeq'[r] = bnSeq[a] + 1
      /\ \A q \in Reqs \ {r} : phase'[q] = phase[q] /\ owner'[q] = owner[q] /\ rSeq'[q] = rSeq[q]
      /\ bnSeq'[a] = bnSeq[a] + 1
      /\ \A b \in Agents \ {a} : bnSeq'[b] = bnSeq[b]
    BY <1>1, <1>2 DEF TypeOK
<1>4. OwnersKnown'
    BY <1>1, <1>3 DEF Keys, OwnersKnown
<1>5. \A q \in Reqs \ {r} : Sent(q)' /\ owner'[q] = a => rSeq[q] \in 1..bnSeq[a]
    BY <1>1, <1>3 DEF Keys, SeqsGiven, Sent
<1>6. SeqsGiven'
    <2> SUFFICES ASSUME NEW q \in Reqs, Sent(q)', agSt'[owner'[q]] = "mapped"
                 PROVE  rSeq'[q] \in 1..bnSeq'[owner'[q]]
        BY DEF SeqsGiven
    <2>1. CASE q = r
        BY <1>2, <1>3, <2>1
    <2>2. CASE q # r /\ owner[q] = a
        BY <1>2, <1>3, <1>5, <2>2
    <2>3. CASE q # r /\ owner[q] # a
        <3>1. owner[q] \in Agents
            BY <1>3, <2>3 DEF Keys, OwnersKnown, Sent
        <3> QED
            BY <1>1, <1>3, <2>3, <3>1 DEF Keys, SeqsGiven, Sent
    <2> QED
        BY <2>1, <2>2, <2>3
<1>7. SeqsDistinct'
    <2>1. ASSUME NEW q \in Reqs \ {r}, Sent(q)', owner'[q] = a
          PROVE  rSeq'[q] # rSeq'[r]
        BY <1>2, <1>3, <1>5, <2>1
    <2>2. ASSUME NEW q \in Reqs \ {r}, NEW p \in Reqs \ {r}, p # q, Sent(q)', Sent(p)',
                 owner'[q] = owner'[p], agSt'[owner'[q]] = "mapped"
          PROVE  rSeq'[q] # rSeq'[p]
        BY <1>1, <1>3, <2>2 DEF Keys, SeqsDistinct, Sent
    <2> QED
        BY <1>3, <2>1, <2>2 DEF SeqsDistinct
<1> QED
    BY <1>4, <1>6, <1>7 DEF Keys

LEMMA KeysBacktrackClose ==
    ASSUME TypeOK, TypeOK', Keys,
           NEW c \in Conns, NEW a \in Agents, NEW r \in Reqs, RecvBacktrackClose(c, a, r)
    PROVE  Keys'
<1>1. /\ phase[r] = "idle" /\ CloseAgent(a)
      /\ phase' = [Leak(phase, a) EXCEPT ![r] = "leaked"]
      /\ owner' = [owner EXCEPT ![r] = a]
      /\ rSeq' = [rSeq EXCEPT ![r] = NextSeq(bnSeq[a])]
    BY DEF RecvBacktrackClose, Buffer
<1>2. /\ phase'[r] = "leaked" /\ owner'[r] = a
      /\ \A q \in Reqs \ {r} :
            /\ phase'[q] = IF phase[q] = "buffered" /\ owner[q] = a THEN "leaked" ELSE phase[q]
            /\ owner'[q] = owner[q] /\ rSeq'[q] = rSeq[q]
      /\ agSt'[a] = "closed"
      /\ \A b \in Agents \ {a} : agSt'[b] = agSt[b] /\ bnSeq'[b] = bnSeq[b]
    BY <1>1 DEF Leak, CloseAgent, TypeOK
<1>3. OwnersKnown'
    BY <1>2 DEF Keys, OwnersKnown
<1>4. ASSUME NEW q \in Reqs, Sent(q)', agSt'[owner'[q]] = "mapped"
      PROVE  /\ q # r /\ Sent(q) /\ owner'[q] = owner[q] /\ rSeq'[q] = rSeq[q]
             /\ owner[q] \in Agents \ {a} /\ agSt[owner[q]] = "mapped"
    BY <1>2, <1>4 DEF Keys, OwnersKnown, Sent
<1>5. SeqsGiven'
    BY <1>2, <1>4 DEF Keys, SeqsGiven
<1>6. SeqsDistinct'
    BY <1>4 DEF Keys, SeqsDistinct
<1> QED
    BY <1>3, <1>5, <1>6 DEF Keys
LEMMA KeysStep ==
    ASSUME ~SeqWraps, TypeOK, TypeOK', Keys, [Next]_vars
    PROVE  Keys'
<1>1. ASSUME NEW c \in Conns, AcceptConn(c) \/ ConnDown(c)
      PROVE  Keys'
    BY <1>1 DEF AcceptConn, ConnDown, agVars, reqVars, Keys, OwnersKnown, SeqsGiven,
                SeqsDistinct, Sent
<1>2. ASSUME NEW a \in Agents, AcceptAgent(a)
      PROVE  Keys'
    <2>1. /\ agSt[a] = "none" /\ agSt' = [agSt EXCEPT ![a] = "accepted"]
          /\ bnSeq' = bnSeq /\ phase' = phase /\ owner' = owner /\ rSeq' = rSeq
        BY <1>2 DEF AcceptAgent, reqVars
    <2>2. \A b \in Agents : agSt'[b] = IF b = a THEN "accepted" ELSE agSt[b]
        BY <2>1 DEF TypeOK
    <2>3. \A r \in Reqs : phase[r] \in {"buffered", "done", "leaked"} =>
             owner[r] \in Agents /\ owner[r] # a
        BY <2>1 DEF Keys, OwnersKnown
    <2> QED
        BY <2>1, <2>2, <2>3
           DEF Keys, OwnersKnown, SeqsGiven, SeqsDistinct, Sent
<1>3. ASSUME NEW a \in Agents, ClientSends(a)
      PROVE  Keys'
    <2>1. /\ agSt' = [agSt EXCEPT ![a] = "mapped"] /\ Up(a)
          /\ bnSeq' = bnSeq /\ phase' = phase /\ owner' = owner /\ rSeq' = rSeq
        BY <1>3 DEF ClientSends, reqVars
    <2>2. \A b \in Agents : agSt'[b] = IF b = a THEN "mapped" ELSE agSt[b]
        BY <2>1 DEF TypeOK
    <2>3. \A r \in Reqs : phase[r] = "buffered" => agSt'[owner[r]] = "mapped"
        BY <2>2 DEF Keys, OwnersKnown
    <2>4. \A b \in Agents :
             /\ agSt[b] \in {"mapped", "closed"} => agSt'[b] \in {"mapped", "closed"}
             /\ agSt'[b] = "mapped" => agSt[b] # "closed" /\ bnSeq[b] <= bnSeq'[b]
        BY <2>1, <2>2, NumberAssumption DEF Up, TypeOK
    <2> QED
        BY <2>1, <2>3, <2>4, KeysSame
<1>4. ASSUME NEW a \in Agents, AgentDown(a) \/ \E c \in Conns : RecvDirectClose(c, a)
      PROVE  Keys'
    <2>1. /\ CloseAgent(a) /\ Up(a) /\ phase' = Leak(phase, a)
          /\ owner' = owner /\ rSeq' = rSeq
        BY <1>4 DEF AgentDown, RecvDirectClose, Up
    <2> QED
        BY <2>1, KeysClose
<1>5. ASSUME NEW a \in Agents, AgentTimer(a)
      PROVE  Keys'
    <2>1. Up(a) /\ owner' = owner /\ rSeq' = rSeq
        BY <1>5 DEF AgentTimer
    <2>2. \A r \in Overdue(a) : r \in Reqs /\ phase[r] = "buffered" /\ phase'[r] = "done"
        BY <1>5, TimerRun
    <2>3. \A r \in Reqs \ Overdue(a) :
             phase'[r] # phase[r] => phase[r] = "buffered" /\ phase'[r] = "leaked"
        BY <1>5, TimerRun
    <2>4. \/ CloseAgent(a) /\ phase' = Leak(TimerPhases(a), a)
          \/ agSt' = agSt /\ bnSeq' = bnSeq
        BY <1>5, TimerRun
    <2>5. CASE CloseAgent(a) /\ phase' = Leak(TimerPhases(a), a)
        <3>1. \A r \in Reqs : \/ TimerPhases(a)[r] = phase[r]
                              \/ phase[r] = "buffered" /\ TimerPhases(a)[r] = "done"
            BY <2>2 DEF TimerPhases
        <3> QED
            BY <2>1, <2>5, <3>1, KeysClose
    <2>6. CASE agSt' = agSt /\ bnSeq' = bnSeq
        <3>1. \A r \in Reqs :
                 \/ phase'[r] = phase[r]
                 \/ phase[r] = "buffered" /\ phase'[r] \in {"done", "leaked"}
            BY <2>2, <2>3
        <3>2. \A r \in Reqs : phase[r] = "buffered" => agSt'[owner[r]] = "mapped"
            BY <2>6 DEF Keys, OwnersKnown
        <3>3. \A b \in Agents : bnSeq[b] <= bnSeq'[b]
            BY <2>6, NumberAssumption DEF TypeOK
        <3> QED
            BY <2>1, <2>6, <3>1, <3>2, <3>3, KeysSame
    <2> QED
        BY <2>4, <2>5, <2>6
<1>6. ASSUME NEW c \in Conns, NEW a \in Agents, RecvDirect(c, a)
      PROVE  Keys'
    <2>1. /\ agSt' = agSt /\ phase' = phase /\ owner' = owner /\ rSeq' = rSeq
          /\ \/ bnSeq' = bnSeq
             \/ CanNumber(a) /\ bnSeq' = [bnSeq EXCEPT ![a] = NextSeq(bnSeq[a])]
        BY <1>6 DEF RecvDirect, reqVars
    <2>2. CanNumber(a) => NextSeq(bnSeq[a]) = bnSeq[a] + 1 /\ bnSeq[a] \in Nat
        BY NextIsNew
    <2>3. \A b \in Agents : bnSeq[b] <= bnSeq'[b]
        BY <2>1, <2>2, NumberAssumption DEF TypeOK
    <2>4. \A r \in Reqs : phase[r] = "buffered" => agSt'[owner[r]] = "mapped"
        BY <2>1 DEF Keys, OwnersKnown
    <2> QED
        BY <2>1, <2>3, <2>4, KeysSame
<1>7. ASSUME NEW c \in Conns, NEW r \in Reqs, RecvBacktrackRefused(c, r)
      PROVE  Keys'
    <2>1. /\ phase' = [phase EXCEPT ![r] = "refused"]
          /\ agSt' = agSt /\ bnSeq' = bnSeq /\ owner' = owner /\ rSeq' = rSeq
        BY <1>7 DEF RecvBacktrackRefused, agVars
    <2>2. \A q \in Reqs : phase'[q] = phase[q] \/ phase'[q] = "refused"
        BY <2>1 DEF TypeOK
    <2>3. \A q \in Reqs : phase[q] = "buffered" => agSt'[owner[q]] = "mapped"
        BY <2>1 DEF Keys, OwnersKnown
    <2>4. \A b \in Agents : bnSeq[b] <= bnSeq'[b]
        BY <2>1, NumberAssumption DEF TypeOK
    <2> QED
        BY <2>1, <2>2, <2>3, <2>4, KeysSame
<1>8. ASSUME NEW a \in Agents, NEW r \in Reqs, ClientAnswers(a, r)
      PROVE  Keys'
    <2> PICK x \in Entries(a, rSeq[r]) : Settle(x, r)
        BY <1>8 DEF ClientAnswers
    <2>1. x \in Reqs /\ phase[x] = "buffered"
        BY DEF Entries, Table
    <2>2. phase' = [phase EXCEPT ![x] = "done"]
        BY DEF Settle
    <2>3. agSt' = agSt /\ bnSeq' = bnSeq /\ owner' = owner /\ rSeq' = rSeq
        BY <1>8 DEF ClientAnswers
    <2>4. \A q \in Reqs : phase'[q] = phase[q] \/ (phase[q] = "buffered" /\ phase'[q] = "done")
        BY <2>1, <2>2 DEF TypeOK
    <2>5. \A q \in Reqs : phase[q] = "buffered" => agSt'[owner[q]] = "mapped"
        BY <2>3 DEF Keys, OwnersKnown
    <2>6. \A b \in Agents : bnSeq[b] <= bnSeq'[b]
        BY <2>3, NumberAssumption DEF TypeOK
    <2> QED
        BY <2>3, <2>4, <2>5, <2>6, KeysSame
<1>9. CASE Tick
    BY <1>9 DEF Tick, Keys, OwnersKnown, SeqsGiven, SeqsDistinct, Sent
<1>10. CASE UNCHANGED vars
    BY <1>10 DEF vars, agVars, reqVars, Keys, OwnersKnown, SeqsGiven, SeqsDistinct, Sent
<1> QED
    BY <1>1, <1>2, <1>3, <1>4, <1>5, <1>6, <1>7, <1>8, <1>9, <1>10, KeysBacktrack,
       KeysBacktrackClose DEF Next

-----------------------------------------------------------------------------
(* Answers.                                                                *)

\* A step that writes no response and finishes no request keeps what is known of responses.
LEMMA AnswersSame ==
    ASSUME AnswersDone, AnswerMatches, resp' = resp,
           \A r \in Reqs : phase'[r] = "done" <=> phase[r] = "done"
    PROVE  AnswersDone' /\ AnswerMatches'
BY DEF AnswersDone, AnswerMatches

LEMMA AnswersStep ==
    ASSUME TypeOK, SeqInv, [Next]_vars
    PROVE  AnswersDone' /\ AnswerMatches'
<1> USE DEF SeqInv
<1>1. ASSUME NEW a \in Agents, NEW r \in Reqs, ClientAnswers(a, r)
      PROVE  AnswersDone' /\ AnswerMatches'
    <2> PICK x \in Entries(a, rSeq[r]) : Settle(x, r)
        BY <1>1 DEF ClientAnswers
    <2>1. x = r
        BY <1>1, FindsItself DEF ClientAnswers, Sent
    <2>2. /\ phase' = [phase EXCEPT ![r] = "done"]
          /\ resp' = [resp EXCEPT ![r] = r] \/ resp' = [resp EXCEPT ![r] = Failed]
        BY <2>1 DEF Settle
    <2>3. phase'[r] = "done" /\ \A q \in Reqs \ {r} : phase'[q] = phase[q]
        BY <2>2 DEF TypeOK
    <2>4. resp'[r] \in {r, Failed} /\ \A q \in Reqs \ {r} : resp'[q] = resp[q]
        BY <2>2 DEF TypeOK
    <2> QED
        BY <2>3, <2>4, DistinctAssumption DEF AnswersDone, AnswerMatches
<1>2. ASSUME NEW a \in Agents, AgentTimer(a)
      PROVE  AnswersDone' /\ AnswerMatches'
    <2>1. \A r \in Overdue(a) : phase'[r] = "done" /\ resp'[r] \in {Overtime, Failed}
        BY <1>2, TimerRun
    <2>2. \A r \in Reqs \ Overdue(a) :
             /\ resp'[r] = resp[r]
             /\ phase'[r] # phase[r] => phase[r] = "buffered" /\ phase'[r] = "leaked"
        BY <1>2, TimerRun
    <2> QED
        BY <2>1, <2>2, DistinctAssumption DEF AnswersDone, AnswerMatches
<1>3. ASSUME NEW c \in Conns, NEW a \in Agents, NEW r \in Reqs,
             RecvBacktrack(c, a, r) \/ RecvBacktrackClose(c, a, r)
      PROVE  AnswersDone' /\ AnswerMatches'
    <2>1. /\ phase[r] = "idle" /\ resp' = resp
          /\ \/ phase' = [phase EXCEPT ![r] = "buffered"]
             \/ phase' = [Leak(phase, a) EXCEPT ![r] = "leaked"]
        BY <1>3 DEF RecvBacktrack, RecvBacktrackClose, Buffer
    <2>2. \A q \in Reqs : phase'[q] = "done" <=> phase[q] = "done"
        BY <2>1 DEF TypeOK, Leak
    <2> QED
        BY <2>1, <2>2, AnswersSame
<1>4. ASSUME NEW a \in Agents, AgentDown(a) \/ \E c \in Conns : RecvDirectClose(c, a)
      PROVE  AnswersDone' /\ AnswerMatches'
    BY <1>4, AnswersSame DEF AgentDown, RecvDirectClose, Leak
<1>5. ASSUME NEW c \in Conns, NEW r \in Reqs, RecvBacktrackRefused(c, r)
      PROVE  AnswersDone' /\ AnswerMatches'
    BY <1>5, AnswersSame DEF RecvBacktrackRefused, TypeOK
<1>6. CASE phase' = phase /\ resp' = resp
    BY <1>6, AnswersSame
<1>7. ASSUME NEW c \in Conns, AcceptConn(c) \/ ConnDown(c) \/ \E a \in Agents : RecvDirect(c, a)
      PROVE  phase' = phase /\ resp' = resp
    BY <1>7 DEF AcceptConn, ConnDown, RecvDirect, reqVars
<1>8. ASSUME NEW a \in Agents, AcceptAgent(a) \/ ClientSends(a)
      PROVE  phase' = phase /\ resp' = resp
    BY <1>8 DEF AcceptAgent, ClientSends, reqVars
<1>9. Tick \/ UNCHANGED vars => phase' = phase /\ resp' = resp
    BY DEF Tick, vars, reqVars
<1> QED
    BY <1>1, <1>2, <1>3, <1>4, <1>5, <1>6, <1>7, <1>8, <1>9 DEF Next

\* A client that is never sent more than MaxSeq messages never has its answer
\* written for another request than the one it answers, however late it comes,
\* and however often.
THEOREM AnswersMatch ==
    ASSUME ~SeqWraps
    PROVE  Spec => []AnswerMatches
<1>1. Init => TypeOK /\ SeqInv
    BY TypeInit, SeqInit
<1>2. TypeOK /\ SeqInv /\ [Next]_vars => (TypeOK /\ SeqInv)'
    BY TypeStep, KeysStep, AnswersStep DEF SeqInv
<1>3. SeqInv => AnswerMatches
    BY DEF SeqInv
<1> QED
    BY <1>1, <1>2, <1>3, PTL DEF Spec
-----------------------------------------------------------------------------
(* Deadlines.                                                              *)

\* A step that sets no timer and no deadline, and buffers nothing, keeps them
\* in time.
LEMMA DeadlineSame ==
    ASSUME Keys, DeadlineInv, left' = left,
           \A b \in Agents : Up(b)' => Up(b) /\ timer'[b] = timer[b],
           \A r \in Reqs : phase'[r] = "buffered" =>
                              /\ phase[r] = "buffered" /\ owner'[r] = owner[r]
                              /\ Up(owner[r])'
    PROVE  DeadlineInv'
<1>1. TimersRun'
    BY DEF DeadlineInv, TimersRun
<1>2. InTime'
    BY DEF DeadlineInv, InTime, Keys, OwnersKnown
<1> QED
    BY <1>1, <1>2 DEF DeadlineInv

\* The agent of a buffered request is up.
LEMMA OwnerUp ==
    ASSUME Keys
    PROVE  \A r \in Reqs : phase[r] = "buffered" => owner[r] \in Agents /\ Up(owner[r])
BY DEF Keys, OwnersKnown, Up

LEMMA DeadlineStep ==
    ASSUME TypeOK, TypeOK', Keys, Keys', DeadlineInv, [Next]_vars
    PROVE  DeadlineInv'
<1>a. \A r \in Reqs : phase'[r] = "buffered" =>
         owner'[r] \in Agents /\ agSt'[owner'[r]] = "mapped"
    BY DEF Keys, OwnersKnown
<1>1. ASSUME NEW c \in Conns, AcceptConn(c) \/ ConnDown(c) \/ \E a \in Agents : RecvDirect(c, a)
      PROVE  DeadlineInv'
    BY <1>1, DeadlineSame, OwnerUp DEF AcceptConn, ConnDown, RecvDirect, agVars, reqVars, Up
<1>2. ASSUME NEW a \in Agents, AcceptAgent(a)
      PROVE  DeadlineInv'
    <2>1. /\ agSt[a] = "none" /\ agSt' = [agSt EXCEPT ![a] = "accepted"]
          /\ timer' = [timer EXCEPT ![a] = FirstDelay]
          /\ phase' = phase /\ owner' = owner /\ left' = left
        BY <1>2 DEF AcceptAgent, reqVars
    <2>2. /\ timer'[a] = FirstDelay
          /\ \A b \in Agents \ {a} : agSt'[b] = agSt[b] /\ timer'[b] = timer[b]
        BY <2>1 DEF TypeOK
    <2>3. TimersRun'
        BY <2>2, NumberAssumption DEF DeadlineInv, TimersRun, Up
    <2>4. \A r \in Reqs : phase[r] = "buffered" => owner[r] \in Agents \ {a}
        BY <2>1, OwnerUp DEF Up
    <2>5. InTime'
        BY <2>1, <2>2, <2>4 DEF DeadlineInv, InTime
    <2> QED
        BY <2>3, <2>5 DEF DeadlineInv
<1>3. ASSUME NEW a \in Agents, ClientSends(a)
      PROVE  DeadlineInv'
    <2>1. /\ Up(a) /\ agSt' = [agSt EXCEPT ![a] = "mapped"] /\ timer' = timer
          /\ phase' = phase /\ owner' = owner /\ left' = left
        BY <1>3 DEF ClientSends, reqVars
    <2>2. \A b \in Agents : Up(b)' <=> Up(b)
        BY <2>1 DEF TypeOK, Up
    <2> QED
        BY <2>1, <2>2, OwnerUp, DeadlineSame
<1>4. ASSUME NEW a \in Agents, CloseAgent(a), left' = left, owner' = owner,
             \A r \in Reqs : phase'[r] = "buffered" => phase[r] = "buffered"
      PROVE  DeadlineInv'
    <2>1. \A b \in Agents : Up(b)' => Up(b) /\ timer'[b] = timer[b]
        BY <1>4 DEF CloseAgent, TypeOK, Up
    <2>2. \A r \in Reqs : phase'[r] = "buffered" => Up(owner[r])'
        BY <1>4 DEF Keys, OwnersKnown, Up
    <2> QED
        BY <1>4, <2>1, <2>2, DeadlineSame
<1>5. ASSUME NEW a \in Agents, AgentDown(a) \/ \E c \in Conns : RecvDirectClose(c, a)
      PROVE  DeadlineInv'
    <2>1. CloseAgent(a) /\ left' = left /\ owner' = owner /\ phase' = Leak(phase, a)
        BY <1>5 DEF AgentDown, RecvDirectClose
    <2>2. \A r \in Reqs : phase'[r] = "buffered" => phase[r] = "buffered"
        BY <2>1 DEF Leak
    <2> QED
        BY <1>4, <2>1, <2>2
<1>6. ASSUME NEW a \in Agents, AgentTimer(a)
      PROVE  DeadlineInv'
    <2>1. left' = left /\ owner' = owner /\ Up(a)
        BY <1>6 DEF AgentTimer
    <2>2. \A r \in Overdue(a) : phase'[r] = "done"
        BY <1>6, TimerRun
    <2>3. \A r \in Reqs \ Overdue(a) : phase'[r] # phase[r] => phase'[r] = "leaked"
        BY <1>6, TimerRun
    <2>4. \A r \in Reqs : phase'[r] = "buffered" => phase[r] = "buffered" /\ r \notin Overdue(a)
        BY <2>2, <2>3
    <2>5. CASE CloseAgent(a)
        BY <1>4, <2>1, <2>4, <2>5
    <2>6. CASE timer' = Rearm(a) /\ agSt' = agSt
        <3>1. /\ timer'[a] = TimerInterval
              /\ \A b \in Agents \ {a} : timer'[b] = timer[b]
            BY <2>6 DEF Rearm, TypeOK
        <3>2. TimersRun'
            BY <2>6, <3>1, NumberAssumption DEF DeadlineInv, TimersRun, Up
        <3>3. InTime'
            <4> SUFFICES ASSUME NEW r \in Reqs, phase'[r] = "buffered"
                         PROVE  left[r] >= timer'[owner[r]] - TimerInterval
                BY <2>1 DEF InTime
            <4>1. phase[r] = "buffered" /\ r \notin Overdue(a) /\ owner[r] \in Agents
                BY <2>4, OwnerUp
            <4>2. CASE owner[r] = a
                <5>1. left[r] \in Int /\ ~(left[r] < 0)
                    BY <4>1, <4>2 DEF Overdue, Table, TypeOK
                <5> QED
                    BY <3>1, <4>2, <5>1, NumberAssumption
            <4>3. CASE owner[r] # a
                BY <3>1, <4>1, <4>3 DEF DeadlineInv, InTime
            <4> QED
                BY <4>2, <4>3
        <3> QED
            BY <3>2, <3>3 DEF DeadlineInv
    <2> QED
        BY <1>6, <2>5, <2>6, TimerRun
<1>7. ASSUME NEW c \in Conns, NEW r \in Reqs, RecvBacktrackRefused(c, r)
      PROVE  DeadlineInv'
    <2>1. /\ phase' = [phase EXCEPT ![r] = "refused"]
          /\ agSt' = agSt /\ timer' = timer /\ owner' = owner /\ left' = left
        BY <1>7 DEF RecvBacktrackRefused, agVars
    <2>2. \A q \in Reqs : phase'[q] = "buffered" => phase[q] = "buffered"
        BY <2>1 DEF TypeOK
    <2> QED
        BY <2>1, <2>2, OwnerUp, DeadlineSame DEF Up
<1>8. ASSUME NEW c \in Conns, NEW a \in Agents, NEW r \in Reqs, RecvBacktrack(c, a, r)
      PROVE  DeadlineInv'
    <2>1. /\ agSt[a] = "mapped" /\ agSt' = agSt /\ timer' = timer
          /\ phase' = [phase EXCEPT ![r] = "buffered"]
          /\ owner' = [owner EXCEPT ![r] = a]
          /\ left' = [left EXCEPT ![r] = TxTimeout]
        BY <1>8 DEF RecvBacktrack, Buffer
    <2>2. TimersRun'
        BY <2>1 DEF DeadlineInv, TimersRun, Up
    <2>3. timer[a] \in Int /\ timer[a] <= TimerInterval
        BY <2>1, NumberAssumption DEF DeadlineInv, TimersRun, Up
    <2>4. /\ owner'[r] = a /\ left'[r] = TxTimeout
          /\ \A q \in Reqs \ {r} :
                owner'[q] = owner[q] /\ left'[q] = left[q] /\ phase'[q] = phase[q]
        BY <2>1 DEF TypeOK
    <2>5. left'[r] >= timer'[owner'[r]] - TimerInterval
        BY <2>1, <2>3, <2>4, NumberAssumption
    <2>6. InTime'
        BY <2>1, <2>4, <2>5 DEF DeadlineInv, InTime
    <2> QED
        BY <2>2, <2>6 DEF DeadlineInv
<1>9. ASSUME NEW c \in Conns, NEW a \in Agents, NEW r \in Reqs, RecvBacktrackClose(c, a, r)
      PROVE  DeadlineInv'
    <2>1. /\ CloseAgent(a)
          /\ phase' = [Leak(phase, a) EXCEPT ![r] = "leaked"]
          /\ owner' = [owner EXCEPT ![r] = a]
          /\ left' = [left EXCEPT ![r] = TxTimeout]
        BY <1>9 DEF RecvBacktrackClose, Buffer
    <2>2. \A b \in Agents : Up(b)' => Up(b) /\ timer'[b] = timer[b]
        BY <2>1 DEF CloseAgent, TypeOK, Up
    <2>3. \A q \in Reqs : phase'[q] = "buffered" =>
             /\ phase[q] = "buffered" /\ owner'[q] = owner[q] /\ left'[q] = left[q]
        BY <2>1 DEF Leak, TypeOK
    <2>4. TimersRun'
        BY <2>2 DEF DeadlineInv, TimersRun
    <2>5. InTime'
        BY <1>a, <2>2, <2>3 DEF DeadlineInv, InTime, Up
    <2> QED
        BY <2>4, <2>5 DEF DeadlineInv
<1>10. ASSUME NEW a \in Agents, NEW r \in Reqs, ClientAnswers(a, r)
       PROVE  DeadlineInv'
    <2> PICK x \in Entries(a, rSeq[r]) : Settle(x, r)
        BY <1>10 DEF ClientAnswers
    <2>1. phase' = [phase EXCEPT ![x] = "done"]
        BY DEF Settle
    <2>2. \A q \in Reqs : phase'[q] = "buffered" => phase[q] = "buffered"
        BY <2>1 DEF TypeOK
    <2>3. agSt' = agSt /\ timer' = timer /\ owner' = owner /\ left' = left
        BY <1>10 DEF ClientAnswers
    <2> QED
        BY <2>2, <2>3, OwnerUp, DeadlineSame DEF Up
<1>11. CASE Tick
    <2>1. /\ \A a \in Agents : Up(a) => timer[a] > -MaxLate
          /\ timer' = [a \in Agents |-> IF Up(a) THEN timer[a] - 1 ELSE timer[a]]
          /\ left' = [r \in Reqs |-> IF phase[r] = "buffered" /\ left[r] > Floor
                                     THEN left[r] - 1 ELSE left[r]]
          /\ agSt' = agSt /\ phase' = phase /\ owner' = owner
        BY <1>11 DEF Tick
    <2>2. TimersRun'
        <3> SUFFICES ASSUME NEW a \in Agents, Up(a)
                     PROVE  timer'[a] \in (-MaxLate)..TimerInterval
            BY <2>1 DEF TimersRun, Up
        <3>1. timer[a] \in (-MaxLate)..TimerInterval /\ timer[a] > -MaxLate
            BY <2>1 DEF DeadlineInv, TimersRun
        <3> QED
            BY <2>1, <3>1, NumberAssumption
    <2>3. InTime'
        <3> SUFFICES ASSUME NEW r \in Reqs, phase[r] = "buffered"
                     PROVE  left'[r] >= timer'[owner[r]] - TimerInterval
            BY <2>1 DEF InTime
        <3>1. owner[r] \in Agents /\ Up(owner[r])
            BY OwnerUp
        <3>2. /\ timer[owner[r]] \in Int /\ timer[owner[r]] >= -MaxLate
              /\ timer'[owner[r]] = timer[owner[r]] - 1
            BY <2>1, <3>1, NumberAssumption DEF DeadlineInv, TimersRun
        <3>3. left[r] \in Int /\ left[r] >= timer[owner[r]] - TimerInterval
            BY DEF DeadlineInv, InTime, TypeOK
        <3>4. left[r] > Floor
            BY <3>2, <3>3, NumberAssumption DEF Floor
        <3>5. left'[r] = left[r] - 1
            BY <2>1, <3>4
        <3> QED
            BY <3>2, <3>3, <3>5, NumberAssumption
    <2> QED
        BY <2>2, <2>3 DEF DeadlineInv
<1>12. CASE UNCHANGED vars
    BY <1>12, OwnerUp, DeadlineSame DEF vars, agVars, reqVars, Up
<1> QED
    BY <1>1, <1>2, <1>3, <1>5, <1>6, <1>7, <1>8, <1>9, <1>10, <1>11, <1>12 DEF Next

\* A request is in its table at most a period of the agent's timer and the
\* lateness of the loop beyond its deadline, whatever the client and the
\* backend do.
THEOREM DeadlinesBounded ==
    ASSUME ~SeqWraps
    PROVE  Spec => []OverdueBounded
<1> DEFINE I == TypeOK /\ Keys /\ DeadlineInv
<1>1. Init => I
    BY TypeInit, SeqInit DEF SeqInv
<1>2. I /\ [Next]_vars => I'
    BY TypeStep, KeysStep, DeadlineStep
<1>3. I => OverdueBounded
    <2> SUFFICES ASSUME I, NEW r \in Reqs, phase[r] = "buffered"
                 PROVE  left[r] >= -(TimerInterval + MaxLate)
        BY DEF OverdueBounded
    <2>1. owner[r] \in Agents /\ Up(owner[r])
        BY OwnerUp
    <2>2. timer[owner[r]] \in Int /\ timer[owner[r]] >= -MaxLate
        BY <2>1, NumberAssumption DEF DeadlineInv, TimersRun
    <2>3. left[r] \in Int /\ left[r] >= timer[owner[r]] - TimerInterval
        BY DEF DeadlineInv, InTime, TypeOK
    <2> QED
        BY <2>2, <2>3, NumberAssumption
<1> QED
    BY <1>1, <1>2, <1>3, PTL DEF Spec
-----------------------------------------------------------------------------
(* The promise.                                                            *)

\* What the mapping makes of the requests, each phase for itself.
OutcomesKnown ==
    \A r \in Reqs :
        /\ phase[r] \in {"idle", "refused", "buffered", "done", "leaked"}
        /\ phase[r] \in {"idle", "refused"} => Outcome(r) = "idle"
        /\ phase[r] = "buffered" => Outcome(r) = "pending"
        /\ phase[r] = "leaked" => Outcome(r) = "abandoned"
        /\ phase[r] = "done" => \/ Outcome(r) = "answered"
                                \/ Outcome(r) = "timedout" /\ resp[r] = Overtime
                                \/ Outcome(r) = "failed"

LEMMA Outcomes == TypeOK /\ SeqInv => OutcomesKnown
<1> SUFFICES ASSUME TypeOK, SeqInv, NEW r \in Reqs
             PROVE  /\ phase[r] \in {"idle", "refused", "buffered", "done", "leaked"}
                    /\ phase[r] \in {"idle", "refused"} => Outcome(r) = "idle"
                    /\ phase[r] = "buffered" => Outcome(r) = "pending"
                    /\ phase[r] = "leaked" => Outcome(r) = "abandoned"
                    /\ phase[r] = "done" => \/ Outcome(r) = "answered"
                                            \/ Outcome(r) = "timedout" /\ resp[r] = Overtime
                                            \/ Outcome(r) = "failed"
    BY DEF OutcomesKnown
<1>1. phase[r] # "done" => resp[r] = NoResp
    BY DEF SeqInv, AnswersDone
<1>2. phase[r] = "done" => resp[r] \in {r, Overtime, Failed}
    BY DEF SeqInv, AnswersDone, AnswerMatches, TypeOK
<1>3. r \notin {NoResp, Overtime, Failed}
    BY DistinctAssumption
<1>4. phase[r] \in {"idle", "refused", "buffered", "done", "leaked"}
    BY DEF TypeOK
<1>5. CASE phase[r] \in {"idle", "refused", "leaked"}
    BY <1>5 DEF Outcome
<1>6. CASE phase[r] = "buffered"
    BY <1>1, <1>6, DistinctAssumption DEF Outcome
<1>7. CASE phase[r] = "done" /\ resp[r] = r
    BY <1>3, <1>7, DistinctAssumption DEF Outcome
<1>8. CASE phase[r] = "done" /\ resp[r] = Overtime
    BY <1>3, <1>8, DistinctAssumption DEF Outcome
<1>9. CASE phase[r] = "done" /\ resp[r] = Failed
    BY <1>3, <1>9, DistinctAssumption DEF Outcome
<1> QED
    BY <1>2, <1>4, <1>5, <1>6, <1>7, <1>8, <1>9

\* A step that moves each request only to a fate it may meet, grants the
\* timeout to those it makes pending, and no second to any, is a move.
LEMMA IsMove ==
    ASSUME TypeOK, SeqInv, TypeOK', SeqInv',
           \A r \in Reqs :
              \/ phase'[r] = phase[r] /\ resp'[r] = resp[r] /\ left'[r] = left[r]
              \/ /\ phase[r] = "idle"
                 /\ \/ phase'[r] \in {"refused", "leaked"}
                    \/ phase'[r] = "buffered" /\ left'[r] = TxTimeout
              \/ /\ phase[r] = "buffered"
                 /\ \/ phase'[r] = "leaked"
                    \/ /\ phase'[r] = "done"
                       /\ resp'[r] = Overtime => left[r] < 0
    PROVE  Promise!Move
<1>a. OutcomesKnown /\ OutcomesKnown'
    BY Outcomes, PTL
<1>1. ASSUME NEW r \in Reqs
      PROVE  /\ phase[r] \in {"idle", "refused"} => Outcome(r) = "idle"
             /\ phase[r] = "buffered" => Outcome(r) = "pending"
             /\ phase[r] = "leaked" => Outcome(r) = "abandoned"
             /\ phase[r] = "done" => Outcome(r) \in {"answered", "timedout", "failed"}
             /\ phase'[r] \in {"idle", "refused"} => Outcome(r)' = "idle"
             /\ phase'[r] = "buffered" => Outcome(r)' = "pending"
             /\ phase'[r] = "leaked" => Outcome(r)' = "abandoned"
             /\ phase'[r] = "done" =>
                   \/ Outcome(r)' \in {"answered", "failed"}
                   \/ Outcome(r)' = "timedout" /\ resp'[r] = Overtime
             /\ phase'[r] = phase[r] /\ resp'[r] = resp[r] => Outcome(r)' = Outcome(r)
             /\ phase[r] \in {"idle", "refused", "buffered", "done", "leaked"}
             /\ phase'[r] \in {"idle", "refused", "buffered", "done", "leaked"}
    <2>1. phase'[r] = phase[r] /\ resp'[r] = resp[r] => Outcome(r)' = Outcome(r)
        BY DEF Outcome
    <2> QED
        BY <1>a, <2>1 DEF OutcomesKnown
<1>2. ASSUME NEW r \in Reqs
      PROVE  Outcome(r)' \in
                CASE Outcome(r) = "idle"    -> {"idle", "pending", "abandoned"}
                  [] Outcome(r) = "pending" -> {"pending", "answered", "failed", "abandoned"}
                                         \union {f \in {"timedout"} : ToGo(r) < 0}
                  [] OTHER                  -> {Outcome(r)}
    <2>1. CASE phase[r] = "buffered"
        <3>1. Outcome(r) = "pending"
            BY <1>1, <2>1
        <3>2. \/ Outcome(r)' \in {"pending", "answered", "failed", "abandoned"}
              \/ Outcome(r)' = "timedout" /\ left[r] < 0
            BY <1>1, <2>1
        <3> QED
            BY <2>1, <3>1, <3>2 DEF ToGo
    <2>2. CASE phase[r] \in {"idle", "refused"}
        BY <1>1, <2>2
    <2>3. CASE phase[r] \in {"done", "leaked"}
        BY <1>1, <2>3
    <2> QED
        BY <1>1, <2>1, <2>2, <2>3
<1>3. ASSUME NEW r \in Reqs
      PROVE  ToGo(r)' = IF Outcome(r) = "idle" /\ Outcome(r)' = "pending" THEN TxTimeout
                        ELSE IF Outcome(r)' = "pending" THEN ToGo(r) ELSE 0
    BY <1>1, NumberAssumption DEF ToGo
<1> DEFINE st == [r \in Reqs |-> Outcome(r)]
           togo == [r \in Reqs |-> ToGo(r)]
<1>4. st' \in [Reqs -> {"idle", "pending"} \union Promise!Final]
    BY <1>1 DEF Promise!Final
<1>5. \A r \in Reqs : st'[r] \in Promise!Fates(r)
    BY <1>2 DEF Promise!Fates
<1>6. togo' = [r \in Reqs |->
                 IF st[r] = "idle" /\ st'[r] = "pending" THEN TxTimeout
                 ELSE IF st'[r] = "pending" THEN togo[r] ELSE 0]
    BY <1>3
<1> QED
    BY <1>4, <1>5, <1>6 DEF Promise!Move

\* A second on the clock is a second for every pending request.
LEMMA IsSecond ==
    ASSUME TypeOK, SeqInv, Tick
    PROVE  Promise!Second
<1>1. /\ left' = [r \in Reqs |-> IF phase[r] = "buffered" /\ left[r] > Floor
                                 THEN left[r] - 1 ELSE left[r]]
      /\ phase' = phase /\ resp' = resp
    BY DEF Tick
<1>2. ASSUME NEW r \in Reqs
      PROVE  Outcome(r)' = Outcome(r)
    BY <1>1 DEF Outcome
<1>3. ASSUME NEW r \in Reqs
      PROVE  ToGo(r)' = IF Outcome(r) = "pending" /\ ToGo(r) >= 0 THEN ToGo(r) - 1
                        ELSE ToGo(r)
    <2>1. phase[r] = "buffered" <=> Outcome(r) = "pending"
        BY Outcomes DEF OutcomesKnown
    <2>2. left[r] \in Int /\ left'[r] \in Int /\ Floor \in Int /\ Floor < 0
        BY <1>1, NumberAssumption DEF TypeOK, Floor
    <2>3. phase[r] = "buffered" /\ left[r] >= 0 => left'[r] = left[r] - 1
        BY <1>1, <2>2
    <2>4. phase[r] = "buffered" /\ left[r] < 0 => left'[r] < 0
        BY <1>1, <2>2
    <2> QED
        BY <1>1, <2>1, <2>2, <2>3, <2>4 DEF ToGo
<1> QED
    BY <1>2, <1>3 DEF Promise!Second

\* The initial states of the promise.
LEMMA PromiseInit == Init => Promise!PInit
<1> SUFFICES ASSUME Init
             PROVE  Promise!PInit
    OBVIOUS
<1>1. \A r \in Reqs : phase[r] = "idle"
    BY DEF Init
<1>2. \A r \in Reqs : Outcome(r) = "idle" /\ ToGo(r) = 0
    BY <1>1 DEF Outcome, ToGo
<1> QED
    BY <1>2 DEF Promise!PInit

\* A step that only leaks buffered requests, and one that touches no request, is
\* a move of the promise.
LEMMA LeakMoves ==
    ASSUME TypeOK, SeqInv, TypeOK', SeqInv', left' = left, resp' = resp,
           NEW a, phase' = phase \/ phase' = Leak(phase, a)
    PROVE  Promise!Move
<1>1. \A r \in Reqs : phase'[r] = phase[r] \/ (phase[r] = "buffered" /\ phase'[r] = "leaked")
    BY DEF Leak
<1> QED
    BY <1>1, IsMove

\* Every step is a step of the promise, or changes nothing in it.
LEMMA PromiseStep ==
    ASSUME TypeOK, SeqInv, TypeOK', SeqInv', [Next]_vars
    PROVE  [Promise!PNext]_(Promise!pvars)
<1> SUFFICES Promise!PNext \/ UNCHANGED Promise!pvars
    OBVIOUS
<1> USE DEF Promise!PNext
<1>1. ASSUME NEW c \in Conns, AcceptConn(c) \/ ConnDown(c) \/ \E a \in Agents : RecvDirect(c, a)
      PROVE  Promise!PNext
    <2>1. phase' = phase /\ left' = left /\ resp' = resp
        BY <1>1 DEF AcceptConn, ConnDown, RecvDirect, reqVars
    <2> QED
        BY <2>1, LeakMoves
<1>2. ASSUME NEW a \in Agents, AcceptAgent(a) \/ ClientSends(a)
      PROVE  Promise!PNext
    <2>1. phase' = phase /\ left' = left /\ resp' = resp
        BY <1>2 DEF AcceptAgent, ClientSends, reqVars
    <2> QED
        BY <2>1, LeakMoves
<1>3. ASSUME NEW a \in Agents, AgentDown(a) \/ \E c \in Conns : RecvDirectClose(c, a)
      PROVE  Promise!PNext
    <2>1. phase' = Leak(phase, a) /\ left' = left /\ resp' = resp
        BY <1>3 DEF AgentDown, RecvDirectClose
    <2> QED
        BY <2>1, LeakMoves
<1>4. ASSUME NEW a \in Agents, AgentTimer(a)
      PROVE  Promise!PNext
    <2>1. \A r \in Overdue(a) : phase[r] = "buffered" /\ left[r] < 0 /\ phase'[r] = "done"
        BY <1>4, TimerRun DEF SeqInv
    <2>2. \A r \in Reqs \ Overdue(a) :
             /\ resp'[r] = resp[r]
             /\ phase'[r] # phase[r] => phase[r] = "buffered" /\ phase'[r] = "leaked"
        BY <1>4, TimerRun DEF SeqInv
    <2>3. left' = left
        BY <1>4 DEF AgentTimer
    <2> QED
        BY <2>1, <2>2, <2>3, IsMove
<1>5. ASSUME NEW c \in Conns, NEW r \in Reqs, RecvBacktrackRefused(c, r)
      PROVE  Promise!PNext
    <2>1. /\ phase[r] = "idle" /\ phase' = [phase EXCEPT ![r] = "refused"]
          /\ left' = left /\ resp' = resp
        BY <1>5 DEF RecvBacktrackRefused
    <2>2. phase'[r] = "refused" /\ \A q \in Reqs \ {r} : phase'[q] = phase[q]
        BY <2>1 DEF TypeOK
    <2> QED
        BY <2>1, <2>2, IsMove
<1>6. ASSUME NEW c \in Conns, NEW a \in Agents, NEW r \in Reqs,
             RecvBacktrack(c, a, r) \/ RecvBacktrackClose(c, a, r)
      PROVE  Promise!PNext
    <2>1. /\ phase[r] = "idle" /\ resp' = resp /\ left' = [left EXCEPT ![r] = TxTimeout]
          /\ \/ phase' = [phase EXCEPT ![r] = "buffered"]
             \/ phase' = [Leak(phase, a) EXCEPT ![r] = "leaked"]
        BY <1>6 DEF RecvBacktrack, RecvBacktrackClose, Buffer
    <2>2. left'[r] = TxTimeout /\ \A q \in Reqs \ {r} : left'[q] = left[q]
        BY <2>1 DEF TypeOK
    <2>3. phase'[r] \in {"buffered", "leaked"}
        BY <2>1 DEF TypeOK, Leak
    <2>4. ASSUME NEW q \in Reqs \ {r}
          PROVE  phase'[q] = phase[q] \/ (phase[q] = "buffered" /\ phase'[q] = "leaked")
      <3>1. CASE phase' = [phase EXCEPT ![r] = "buffered"]
          BY <3>1 DEF TypeOK
      <3>2. CASE phase' = [Leak(phase, a) EXCEPT ![r] = "leaked"]
        <4>1. phase'[q] = Leak(phase, a)[q]
            BY <3>2 DEF Leak
        <4> QED
            BY <4>1 DEF Leak
      <3> QED
          BY <2>1, <3>1, <3>2
    <2> QED
        BY <2>1, <2>2, <2>3, <2>4, IsMove
<1>7. ASSUME NEW a \in Agents, NEW r \in Reqs, ClientAnswers(a, r)
      PROVE  Promise!PNext
    <2> PICK x \in Entries(a, rSeq[r]) : Settle(x, r)
        BY <1>7 DEF ClientAnswers
    <2>1. x = r
        BY <1>7, FindsItself DEF ClientAnswers, Sent, SeqInv
    <2>2. phase[r] = "buffered"
        BY <2>1 DEF Entries, Table
    <2>3. phase' = [phase EXCEPT ![r] = "done"]
        BY <2>1 DEF Settle
    <2>4. resp' = [resp EXCEPT ![r] = r] \/ resp' = [resp EXCEPT ![r] = Failed]
        BY <2>1 DEF Settle
    <2>5. phase'[r] = "done" /\ \A q \in Reqs \ {r} : phase'[q] = phase[q]
        BY <2>3 DEF TypeOK
    <2>6. resp'[r] # Overtime /\ \A q \in Reqs \ {r} : resp'[q] = resp[q]
        BY <2>4, DistinctAssumption DEF TypeOK
    <2>7. left' = left
        BY <1>7 DEF ClientAnswers
    <2> QED
        BY <2>2, <2>5, <2>6, <2>7, IsMove
<1>8. CASE Tick
    BY <1>8, IsSecond
<1>9. CASE UNCHANGED vars
    <2>1. phase' = phase /\ left' = left /\ resp' = resp
        BY <1>9 DEF vars, reqVars
    <2> QED
        BY <2>1, LeakMoves
<1> QED
    BY <1>1, <1>2, <1>3, <1>4, <1>5, <1>6, <1>7, <1>8, <1>9 DEF Next

\* The server keeps its promise to the backends: one final outcome for each
\* request, the client's own answer if it is answered, and the 504 only after
\* the deadline, for clients that are never sent more than MaxSeq messages.
THEOREM PromiseKept ==
    ASSUME ~SeqWraps
    PROVE  Spec => KeepsPromise
<1> DEFINE I == TypeOK /\ SeqInv
<1>1. Init => I /\ Promise!PInit
    BY TypeInit, SeqInit, PromiseInit
<1>2. I /\ [Next]_vars => I'
    BY TypeStep, KeysStep, AnswersStep DEF SeqInv
<1>3. I /\ I' /\ [Next]_vars => [Promise!PNext]_(Promise!pvars)
    BY PromiseStep
<1> QED
    BY <1>1, <1>2, <1>3, PTL DEF Spec, KeepsPromise, Promise!PSpec
=============================================================================
