---------------------------- MODULE EvTimerProofs ----------------------------
(***************************************************************************)
(* Proofs about EvTimer, for any timers, any size of the wheel and any     *)
(* modulus of its counter.                                                 *)
(***************************************************************************)
EXTENDS EvTimer, FiniteSetTheorems, SequenceTheorems, TLAPS

-----------------------------------------------------------------------------
(* Slots.                                                                  *)

\* Quotient and remainder are the only ones.
LEMMA ModUnique ==
    ASSUME NEW n \in Nat \ {0}, NEW q \in Int, NEW r \in 0..(n - 1)
    PROVE  (n * q + r) % n = r
<1> DEFINE c == n * q + r
<1>1. c \in Int
    OBVIOUS
<1>2. c = n * (c \div n) + (c % n) /\ c \div n \in Int /\ c % n \in 0..(n - 1)
    BY <1>1
<1>3. n * (q - (c \div n)) = (c % n) - r
    BY <1>1, <1>2
<1>4. q - (c \div n) = 0
    <2>1. \A k \in Int : k >= 1 => n * k >= n
        OBVIOUS
    <2>2. \A k \in Int : k <= -1 => n * k <= -n
        OBVIOUS
    <2> DEFINE k == q - (c \div n)
    <2>3. k \in Int /\ n * k < n /\ n * k > -n
        BY <1>2, <1>3
    <2> HIDE DEF k
    <2>4. ~(k >= 1) /\ ~(k <= -1)
        BY <2>1, <2>2, <2>3
    <2>5. k = 0
        BY <2>3, <2>4
    <2> QED
        BY <2>5 DEF k
<1> QED
    BY <1>2, <1>3, <1>4

\* d slots ahead, at most once around.
LEMMA ModAhead ==
    ASSUME NEW n \in Nat \ {0}, NEW c \in Nat, NEW d \in 0..n
    PROVE  /\ c % n \in 0..(n - 1)
           /\ (c + d) % n = IF (c % n) + d < n THEN (c % n) + d ELSE (c % n) + d - n
<1> DEFINE q == c \div n
           r == c % n
<1>1. c = n * q + r /\ q \in Int /\ r \in 0..(n - 1)
    OBVIOUS
<1> HIDE DEF q, r
<1>2. CASE r + d < n
    <2>1. r + d \in 0..(n - 1) /\ c + d = n * q + (r + d)
        BY <1>1, <1>2
    <2>2. (c + d) % n = r + d
        BY <1>1, <2>1, ModUnique
    <2> QED
        BY <1>1, <1>2, <2>2 DEF r
<1>3. CASE ~(r + d < n)
    <2>1. r + d - n \in 0..(n - 1) /\ q + 1 \in Int
        BY <1>1, <1>3
    <2>2. n * (q + 1) = n * q + n
        BY <1>1
    <2>3. c + d = n * (q + 1) + (r + d - n)
        BY <1>1, <2>2
    <2>4. (c + d) % n = r + d - n
        BY <2>1, <2>3, ModUnique
    <2> QED
        BY <1>1, <1>3, <2>4 DEF r
<1> QED
    BY <1>2, <1>3

\* How many times the loop has to move on before it is at slot s.
Dist(s) == IF s >= Here THEN s - Here ELSE s - Here + Size

LEMMA HereInSlots ==
    ASSUME cur \in Nat
    PROVE  Here \in Slots
BY WheelAssumption, ModAhead DEF Here, Slots

\* A timer that is due in d seconds goes d slots ahead, unless that is the full round.
LEMMA AheadIsAhead ==
    ASSUME cur \in Nat, NEW d \in 0..(Size - 1)
    PROVE  SlotAhead(d) \in Slots /\ Dist(SlotAhead(d)) = d
<1>0. Size \in Nat \ {0} /\ d \in 0..Size
    BY WheelAssumption
<1>1. /\ Here \in 0..(Size - 1)
      /\ SlotAhead(d) = IF Here + d < Size THEN Here + d ELSE Here + d - Size
    BY <1>0, ModAhead DEF Here, SlotAhead
<1> QED
    BY <1>1, WheelAssumption DEF Slots, Dist

\* The loop is at the next slot after MoveOn, if the counter does not wrap.
LEMMA NextSlotIsNext ==
    ASSUME cur \in 0..(CurMod - 1), cur' = NextSlot, cur <= cur'
    PROVE  Here' = IF Here + 1 < Size THEN Here + 1 ELSE 0
<1>0. cur \in Nat /\ Size \in Nat \ {0} /\ CurMod \in Nat \ {0}
    BY WheelAssumption
<1>a. 1 \in 0..Size
    BY <1>0
<1>b. /\ Here \in 0..(Size - 1)
      /\ (cur + 1) % Size = IF Here + 1 < Size THEN Here + 1 ELSE Here + 1 - Size
    BY <1>0, <1>a, ModAhead DEF Here
<1>1. (cur + 1) % Size = IF Here + 1 < Size THEN Here + 1 ELSE 0
    BY <1>0, <1>b
<1>2. 0 % Size = 0
    <2>1. (Size * 0 + 0) % Size = 0
        BY <1>0, ModUnique
    <2> QED
        BY <1>0, <2>1
<1>3. CASE cur + 1 < CurMod
    <2>1. (CurMod * 0 + (cur + 1)) % CurMod = cur + 1
        BY <1>0, <1>3, ModUnique
    <2>2. cur' = cur + 1
        BY <1>0, <2>1 DEF NextSlot
    <2> QED
        BY <1>1, <2>2 DEF Here
<1>4. CASE cur + 1 = CurMod
    <2>1. (CurMod * 1 + 0) % CurMod = 0
        BY <1>0, ModUnique
    <2>2. cur' = 0
        BY <1>0, <1>4, <2>1 DEF NextSlot
    <2>3. cur = 0 /\ CurMod = 1 /\ Size = 1
        BY <1>0, <1>4, <2>2, WheelAssumption
    <2> QED
        BY <1>2, <2>2, <2>3 DEF Here
<1> QED
    BY <1>0, <1>3, <1>4

-----------------------------------------------------------------------------
(* Types.                                                                  *)

LEMMA PushedType ==
    ASSUME TypeOK, NEW t \in Timers, NEW d \in 0..Size
    PROVE  Pushed(t, d) \in [Slots -> Seq(Timers)]
<1>1. wheel \in [Slots -> Seq(Timers)]
    BY DEF TypeOK
<1>2. \A s \in Slots : <<t>> \o wheel[s] \in Seq(Timers)
    BY <1>1
<1> QED
    BY <1>1, <1>2 DEF Pushed

LEMMA PoppedType ==
    ASSUME TypeOK, AtEntry
    PROVE  Here \in Slots /\ Head1 \in Timers /\ Popped \in Seq(Timers)
<1>1. Here \in Slots
    BY HereInSlots, WheelAssumption DEF TypeOK
<1>2. wheel[Here] \in Seq(Timers) /\ wheel[Here] # <<>>
    BY <1>1 DEF TypeOK, AtEntry
<1> QED
    BY <1>1, <1>2 DEF Head1, Popped

LEMMA TimerTypeInit == Init => TypeOK
<1> SUFFICES ASSUME Init PROVE TypeOK
    OBVIOUS
<1>0. <<>> \in Seq(Timers) /\ CurMod - 1 \in Nat
    BY WheelAssumption
<1>a. wheel \in [Slots -> Seq(Timers)]
    BY <1>0 DEF Init
<1>b. cur = 0
    BY DEF Init
<1>1. wheel \in [Slots -> Seq(Timers)] /\ cur \in 0..(CurMod - 1)
    BY <1>0, <1>a, <1>b, WheelAssumption
<1>2. due \in [Timers -> Int] /\ st \in [Timers -> {"free", "armed", "deleted"}]
    BY DEF Init
<1>3. wrapped \in BOOLEAN /\ turned \in BOOLEAN /\ pc \in {"timers", "files"}
    BY DEF Init
<1> QED
    BY <1>1, <1>2, <1>3 DEF TypeOK

LEMMA TimerTypeStep == TypeOK /\ [Next]_vars => TypeOK'
<1> SUFFICES ASSUME TypeOK, [Next]_vars PROVE TypeOK'
    OBVIOUS
<1>0. cur \in Nat
    BY WheelAssumption DEF TypeOK
<1>1. ASSUME NEW t \in Timers, NEW d \in AddDelays, AddTimer(t, d) PROVE TypeOK'
    <2>1. d \in 0..Size /\ d \in Int
        BY WheelAssumption
    <2>2. Pushed(t, d) \in [Slots -> Seq(Timers)]
        BY <2>1, PushedType
    <2> QED
        BY <1>1, <2>1, <2>2 DEF AddTimer, TypeOK
<1>2. ASSUME NEW t \in Timers, DelTimer(t) PROVE TypeOK'
    BY <1>2 DEF DelTimer, TypeOK
<1>3. ASSUME DropDeleted \/ RunLast PROVE TypeOK'
    <2>1. AtEntry
        BY <1>3 DEF DropDeleted, RunLast
    <2>2. /\ wheel' = [wheel EXCEPT ![Here] = Popped]
          /\ st' = [st EXCEPT ![Head1] = "free"]
          /\ due' = [due EXCEPT ![Head1] = 0]
          /\ UNCHANGED <<cur, pc, turned, wrapped>>
        BY <1>3 DEF DropDeleted, RunLast
    <2>3. wheel' \in [Slots -> Seq(Timers)]
        BY <2>1, <2>2, PoppedType DEF TypeOK
    <2>4. st' \in [Timers -> {"free", "armed", "deleted"}] /\ due' \in [Timers -> Int]
        <3>1. st' \in [Timers -> {"free", "armed", "deleted"}]
            BY <2>2 DEF TypeOK
        <3>a. due \in [Timers -> Int] /\ due' = [due EXCEPT ![Head1] = 0]
            BY <2>2 DEF TypeOK
        <3>b. Head1 \in Timers
            BY <2>1, PoppedType
        <3>2. due' \in [Timers -> Int]
            BY <3>a, <3>b
        <3> QED
            BY <3>1, <3>2
    <2> QED
        BY <2>2, <2>3, <2>4 DEF TypeOK
<1>4. ASSUME NEW t \in Timers, NEW d \in CbDelays, RunRearm(t, d) PROVE TypeOK'
    <2>1. AtEntry /\ d \in 0..Size /\ d \in Int
        BY <1>4, WheelAssumption DEF RunRearm
    <2>2. Pushed(t, d) \in [Slots -> Seq(Timers)]
        BY <2>1, PushedType
    <2>3. wheel' \in [Slots -> Seq(Timers)]
        BY <1>4, <2>1, <2>2, PoppedType DEF RunRearm
    <2>4. st' \in [Timers -> {"free", "armed", "deleted"}] /\ due' \in [Timers -> Int]
        <3>1. st' \in [Timers -> {"free", "armed", "deleted"}]
            BY <1>4 DEF RunRearm, TypeOK
        <3>2. due' = [due EXCEPT ![Head1] = 0, ![t] = d]
            BY <1>4 DEF RunRearm
        <3>3. due' \in [Timers -> Int]
            BY <2>1, <3>2 DEF TypeOK
        <3> QED
            BY <3>1, <3>3
    <2> QED
        BY <1>4, <2>3, <2>4 DEF RunRearm, TypeOK
<1>5. ASSUME Wait PROVE TypeOK'
    BY <1>5 DEF Wait, TypeOK
<1>6. ASSUME MoveOn PROVE TypeOK'
    <2>1. cur + 1 \in Nat /\ CurMod \in Nat \ {0}
        BY <1>0, WheelAssumption
    <2>2. NextSlot \in 0..(CurMod - 1)
        BY <2>1 DEF NextSlot
    <2> QED
        BY <1>6, <2>2 DEF MoveOn, TypeOK
<1>7. ASSUME EndTurn PROVE TypeOK'
    BY <1>7 DEF EndTurn, TypeOK
<1>8. ASSUME Tick PROVE TypeOK'
    <2>1. due' \in [Timers -> Int]
        BY <1>8 DEF Tick, TypeOK
    <2> QED
        BY <1>8, <2>1 DEF Tick, TypeOK
<1>9. ASSUME UNCHANGED vars PROVE TypeOK'
    BY <1>9 DEF vars, TypeOK
<1> QED
    BY <1>1, <1>2, <1>3, <1>4, <1>5, <1>6, <1>7, <1>8, <1>9 DEF Next, TimerStep

\* The wheel, its position and the timers stay in their types.
THEOREM TimerTypeCorrect == Spec => []TypeOK
BY TimerTypeInit, TimerTypeStep, PTL DEF Spec

-----------------------------------------------------------------------------
(* The places of the timers.                                               *)

\* Entries are of timers that are not free, no timer has two, and each that is not
\* free has one.
NoneFreed == \A s \in Slots : \A i \in DOMAIN wheel[s] : st[wheel[s][i]] # "free"

Once ==
    \A s1, s2 \in Slots : \A i1 \in DOMAIN wheel[s1], i2 \in DOMAIN wheel[s2] :
        wheel[s1][i1] = wheel[s2][i2] => s1 = s2 /\ i1 = i2

NoneLost ==
    \A t \in Timers :
        st[t] # "free" => \E s \in Slots : \E i \in DOMAIN wheel[s] : wheel[s][i] = t

LinkInv == NoneFreed /\ Once /\ NoneLost

None == -1

\* The first entry of slot h is taken away, and t is pushed on slot a.
Moved(i, s, h, a) == IF s = a THEN i - 1 ELSE IF s = h THEN i + 1 ELSE i

Relinked(h, a, t) ==
    wheel' = [s \in Slots |-> IF s = a THEN <<t>> \o wheel[s]
                              ELSE IF s = h THEN Tail(wheel[s]) ELSE wheel[s]]

LEMMA PopRelinks ==
    ASSUME TypeOK, AtEntry, wheel' = [wheel EXCEPT ![Here] = Popped], NEW t
    PROVE  Relinked(Here, None, t)
<1>1. Here \in Slots /\ None \notin Slots
    BY PoppedType DEF Slots, None
<1> QED
    BY <1>1 DEF TypeOK, Relinked, Popped

LEMMA PushRelinks ==
    ASSUME TypeOK, NEW t \in Timers, NEW d, SlotAhead(d) \in Slots, wheel' = Pushed(t, d)
    PROVE  Relinked(None, SlotAhead(d), t)
<1>1. None \notin Slots
    BY DEF Slots, None
<1> QED
    BY <1>1 DEF TypeOK, Pushed, Relinked

\* A callback's timer goes to another slot than the one that the loop is at.
LEMMA RearmRelinks ==
    ASSUME TypeOK, AtEntry, NEW t \in Timers, NEW d \in 1..(Size - 1),
           wheel' = [Pushed(t, d) EXCEPT ![Here] = Popped]
    PROVE  /\ Relinked(Here, SlotAhead(d), t)
           /\ SlotAhead(d) \in Slots /\ SlotAhead(d) # Here
<1>1. Here \in Slots
    BY PoppedType
<1>2. SlotAhead(d) \in Slots /\ Dist(SlotAhead(d)) = d /\ d > 0
    BY AheadIsAhead, WheelAssumption DEF TypeOK
<1>3. SlotAhead(d) # Here
    <2>1. Here \in Int
        BY <1>1 DEF Slots
    <2>2. SlotAhead(d) = Here => Dist(SlotAhead(d)) = 0
        BY <2>1 DEF Dist
    <2> QED
        BY <1>2, <2>2
<1>4. wheel = [s \in Slots |-> wheel[s]]
    BY DEF TypeOK
<1> HIDE DEF Here
<1> QED
    BY <1>1, <1>2, <1>3, <1>4 DEF Pushed, Popped, Relinked

\* A sequence with one more entry in front, and one without its first entry.
LEMMA PushPlaces ==
    ASSUME NEW S, NEW q \in Seq(S), NEW t \in S
    PROVE  /\ DOMAIN (<<t>> \o q) = 1..(Len(q) + 1)
           /\ (<<t>> \o q)[1] = t
           /\ \A i \in 1..Len(q) : (<<t>> \o q)[i + 1] = q[i]
<1>1. <<t>> \in Seq(S) /\ Len(<<t>>) = 1
    OBVIOUS
<1> QED
    BY <1>1, ConcatProperties

LEMMA PopPlaces ==
    ASSUME NEW S, NEW q \in Seq(S), q # <<>>
    PROVE  /\ DOMAIN Tail(q) = 1..(Len(q) - 1)
           /\ \A i \in 1..(Len(q) - 1) : Tail(q)[i] = q[i + 1]
<1>1. /\ Tail(q) \in Seq(S) /\ Len(Tail(q)) = Len(q) - 1
      /\ \A i \in 1..Len(Tail(q)) : Tail(q)[i] = q[i + 1]
    BY HeadTailProperties
<1> QED
    BY <1>1

\* Where an entry was before, and where it goes to.
LEMMA RelinkedPlaces ==
    ASSUME TypeOK, NEW h \in Slots \union {None}, NEW a \in Slots \union {None},
           NEW t \in Timers, h # None => h # a /\ wheel[h] # <<>>, Relinked(h, a, t)
    PROVE  /\ \A s \in Slots : \A i \in DOMAIN wheel'[s] :
                 \/ s = a /\ i = 1 /\ wheel'[s][i] = t
                 \/ /\ Moved(i, s, h, a) \in DOMAIN wheel[s]
                    /\ wheel'[s][i] = wheel[s][Moved(i, s, h, a)]
                    /\ s = h => Moved(i, s, h, a) > 1
           /\ \A s \in Slots : \A j \in DOMAIN wheel[s] :
                 \/ s = h /\ j = 1
                 \/ \E i \in DOMAIN wheel'[s] : wheel'[s][i] = wheel[s][j]
           /\ a # None => 1 \in DOMAIN wheel'[a] /\ wheel'[a][1] = t
<1>0. None \notin Slots
    BY DEF Slots, None
<1> SUFFICES ASSUME NEW s \in Slots
             PROVE  /\ \A i \in DOMAIN wheel'[s] :
                          \/ s = a /\ i = 1 /\ wheel'[s][i] = t
                          \/ /\ Moved(i, s, h, a) \in DOMAIN wheel[s]
                             /\ wheel'[s][i] = wheel[s][Moved(i, s, h, a)]
                             /\ s = h => Moved(i, s, h, a) > 1
                    /\ \A j \in DOMAIN wheel[s] :
                          \/ s = h /\ j = 1
                          \/ \E i \in DOMAIN wheel'[s] : wheel'[s][i] = wheel[s][j]
                    /\ s = a => 1 \in DOMAIN wheel'[s] /\ wheel'[s][1] = t
    BY <1>0
<1>1. wheel[s] \in Seq(Timers) /\ DOMAIN wheel[s] = 1..Len(wheel[s]) /\ Len(wheel[s]) \in Nat
    BY DEF TypeOK
<1>2. CASE s = a
    <2>1. s # h
        BY <1>0, <1>2
    <2>2. wheel'[s] = <<t>> \o wheel[s]
        BY <1>2 DEF Relinked
    <2>3. /\ DOMAIN wheel'[s] = 1..(Len(wheel[s]) + 1)
          /\ wheel'[s][1] = t
          /\ \A i \in 1..Len(wheel[s]) : wheel'[s][i + 1] = wheel[s][i]
        BY <1>1, <2>2, PushPlaces
    <2>4. \A i : Moved(i, s, h, a) = i - 1
        BY <1>2 DEF Moved
    <2>5. ASSUME NEW i \in DOMAIN wheel'[s], i # 1
          PROVE  i - 1 \in DOMAIN wheel[s] /\ wheel'[s][i] = wheel[s][i - 1]
        <3>1. i - 1 \in 1..Len(wheel[s]) /\ (i - 1) + 1 = i
            BY <1>1, <2>3, <2>5
        <3> QED
            BY <1>1, <2>3, <3>1
    <2>6. ASSUME NEW j \in DOMAIN wheel[s] PROVE \E i \in DOMAIN wheel'[s] : wheel'[s][i] = wheel[s][j]
        <3>1. j + 1 \in DOMAIN wheel'[s] /\ j \in 1..Len(wheel[s])
            BY <1>1, <2>3
        <3> QED
            BY <2>3, <3>1
    <2>7. 1 \in DOMAIN wheel'[s]
        BY <1>1, <2>3
    <2> QED
        BY <1>2, <2>1, <2>3, <2>4, <2>5, <2>6, <2>7
<1>3. CASE s # a /\ s = h
    <2>1. wheel'[s] = Tail(wheel[s]) /\ wheel[s] # <<>>
        BY <1>0, <1>3 DEF Relinked
    <2>2. /\ DOMAIN wheel'[s] = 1..(Len(wheel[s]) - 1)
          /\ \A i \in 1..(Len(wheel[s]) - 1) : wheel'[s][i] = wheel[s][i + 1]
        BY <1>1, <2>1, PopPlaces
    <2>3. \A i : Moved(i, s, h, a) = i + 1
        BY <1>3 DEF Moved
    <2>4. ASSUME NEW i \in DOMAIN wheel'[s]
          PROVE  i + 1 \in DOMAIN wheel[s] /\ i + 1 > 1 /\ wheel'[s][i] = wheel[s][i + 1]
        BY <1>1, <2>2
    <2>5. ASSUME NEW j \in DOMAIN wheel[s], j # 1
          PROVE  \E i \in DOMAIN wheel'[s] : wheel'[s][i] = wheel[s][j]
        <3>1. j - 1 \in DOMAIN wheel'[s] /\ (j - 1) + 1 = j
            BY <1>1, <2>2, <2>5
        <3> QED
            BY <2>2, <3>1
    <2> QED
        BY <1>3, <2>3, <2>4, <2>5
<1>4. CASE s # a /\ s # h
    <2>1. wheel'[s] = wheel[s]
        BY <1>4 DEF Relinked
    <2>2. \A i : Moved(i, s, h, a) = i
        BY <1>4 DEF Moved
    <2> QED
        BY <1>4, <2>1, <2>2
<1> QED
    BY <1>2, <1>3, <1>4

\* Taking away the first entry of h, whose timer is freed, and pushing a free timer on
\* a, which is armed, keeps every timer that is not free in one place.
LEMMA LinksStay ==
    ASSUME TypeOK, TypeOK', LinkInv,
           NEW h \in Slots \union {None}, NEW a \in Slots \union {None}, NEW t \in Timers,
           Relinked(h, a, t),
           h # None => h # a /\ wheel[h] # <<>> /\ st'[wheel[h][1]] = "free",
           a # None => st[t] = "free" /\ st'[t] # "free",
           \A u \in Timers : \/ st'[u] = "free" <=> st[u] = "free"
                             \/ h # None /\ u = wheel[h][1]
                             \/ a # None /\ u = t
    PROVE  LinkInv'
<1>0. None \notin Slots
    BY DEF Slots, None
<1>1. /\ \A s \in Slots : \A i \in DOMAIN wheel'[s] :
            \/ s = a /\ i = 1 /\ wheel'[s][i] = t
            \/ /\ Moved(i, s, h, a) \in DOMAIN wheel[s]
               /\ wheel'[s][i] = wheel[s][Moved(i, s, h, a)]
               /\ s = h => Moved(i, s, h, a) > 1
      /\ \A s \in Slots : \A j \in DOMAIN wheel[s] :
            \/ s = h /\ j = 1
            \/ \E i \in DOMAIN wheel'[s] : wheel'[s][i] = wheel[s][j]
      /\ a # None => 1 \in DOMAIN wheel'[a] /\ wheel'[a][1] = t
    BY RelinkedPlaces
<1>2. h # None => h \in Slots /\ 1 \in DOMAIN wheel[h]
    BY DEF TypeOK
<1>3. \A s \in Slots : \A i \in DOMAIN wheel[s] : wheel[s][i] \in Timers
    BY DEF TypeOK
\* An old entry that is still there is neither t nor the one taken away.
<1>4. ASSUME NEW s \in Slots, NEW j \in DOMAIN wheel[s], s = h => j > 1
      PROVE  /\ st[wheel[s][j]] # "free" /\ st'[wheel[s][j]] # "free"
             /\ a # None => wheel[s][j] # t
    <2>1. st[wheel[s][j]] # "free"
        BY DEF LinkInv, NoneFreed
    <2>2. h # None => wheel[s][j] # wheel[h][1]
        <3> SUFFICES ASSUME h # None, wheel[s][j] = wheel[h][1] PROVE FALSE
            OBVIOUS
        <3>1. s = h /\ j = 1
            BY <1>2 DEF LinkInv, Once
        <3> QED
            BY <1>4, <3>1
    <2> QED
        BY <1>3, <2>1, <2>2
<1>5. NoneFreed'
    <2> SUFFICES ASSUME NEW s \in Slots, NEW i \in DOMAIN wheel'[s]
                 PROVE  st'[wheel'[s][i]] # "free"
        BY DEF NoneFreed
    <2>1. CASE s = a /\ i = 1 /\ wheel'[s][i] = t
        BY <1>0, <2>1
    <2>2. CASE /\ Moved(i, s, h, a) \in DOMAIN wheel[s]
               /\ wheel'[s][i] = wheel[s][Moved(i, s, h, a)]
               /\ s = h => Moved(i, s, h, a) > 1
        BY <1>4, <2>2
    <2> QED
        BY <1>1, <2>1, <2>2
<1>6. Once'
    <2> SUFFICES ASSUME NEW s1 \in Slots, NEW s2 \in Slots,
                        NEW i1 \in DOMAIN wheel'[s1], NEW i2 \in DOMAIN wheel'[s2],
                        wheel'[s1][i1] = wheel'[s2][i2]
                 PROVE  s1 = s2 /\ i1 = i2
        BY DEF Once
    <2> DEFINE New(s, i) == s = a /\ i = 1 /\ wheel'[s][i] = t
               Old(s, i) == /\ Moved(i, s, h, a) \in DOMAIN wheel[s]
                            /\ wheel'[s][i] = wheel[s][Moved(i, s, h, a)]
                            /\ s = h => Moved(i, s, h, a) > 1
    <2>1. (New(s1, i1) \/ Old(s1, i1)) /\ (New(s2, i2) \/ Old(s2, i2))
        BY <1>1
    <2>2. CASE New(s1, i1) /\ New(s2, i2)
        BY <2>2
    <2>3. CASE Old(s1, i1) /\ Old(s2, i2)
        <3> DEFINE j1 == Moved(i1, s1, h, a)
                   j2 == Moved(i2, s2, h, a)
        <3>a. /\ j1 \in DOMAIN wheel[s1] /\ j2 \in DOMAIN wheel[s2]
              /\ wheel[s1][j1] = wheel[s2][j2]
            BY <2>3
        <3> HIDE DEF j1, j2
        <3>b. s1 = s2 /\ j1 = j2
            BY <3>a DEF LinkInv, Once
        <3>1. s1 = s2 /\ Moved(i1, s1, h, a) = Moved(i2, s2, h, a)
            BY <3>b DEF j1, j2
        <3>2. i1 \in Int /\ i2 \in Int
            <4>1. wheel' \in [Slots -> Seq(Timers)]
                BY DEF TypeOK
            <4>2. wheel'[s1] \in Seq(Timers) /\ wheel'[s2] \in Seq(Timers)
                BY <4>1
            <4> QED
                BY <4>2
        <3> QED
            BY <3>1, <3>2 DEF Moved
    <2>4. ASSUME NEW s \in Slots, NEW i, New(s, i), NEW r \in Slots, NEW k, Old(r, k)
          PROVE  wheel'[s][i] # wheel'[r][k]
        BY <1>0, <1>4, <2>4
    <2> QED
        BY <2>1, <2>2, <2>3, <2>4
<1>7. NoneLost'
    <2> SUFFICES ASSUME NEW u \in Timers, st'[u] # "free"
                 PROVE  \E s \in Slots : \E i \in DOMAIN wheel'[s] : wheel'[s][i] = u
        BY DEF NoneLost
    <2>1. CASE a # None /\ u = t
        BY <1>0, <1>1, <2>1
    <2>2. CASE ~(a # None /\ u = t)
        <3>1. h # None => u # wheel[h][1]
            OBVIOUS
        <3>2. PICK s \in Slots : \E j \in DOMAIN wheel[s] : wheel[s][j] = u
            BY <2>2, <3>1 DEF LinkInv, NoneLost
        <3>3. PICK j \in DOMAIN wheel[s] : wheel[s][j] = u
            BY <3>2
        <3>4. ~(s = h /\ j = 1)
            BY <1>0, <3>1, <3>3
        <3> QED
            BY <1>1, <3>3, <3>4
    <2> QED
        BY <2>1, <2>2
<1> QED
    BY <1>5, <1>6, <1>7 DEF LinkInv

LEMMA LinkInit == Init => LinkInv
<1> SUFFICES ASSUME Init PROVE LinkInv
    OBVIOUS
<1>1. \A s \in Slots : wheel[s] = <<>> /\ DOMAIN wheel[s] = {}
    BY DEF Init
<1>2. \A t \in Timers : st[t] = "free"
    BY DEF Init
<1> QED
    BY <1>1, <1>2 DEF LinkInv, NoneFreed, Once, NoneLost

\* A step that leaves the wheel and which timers are free leaves the places.
LEMMA LinksSame ==
    ASSUME TypeOK, LinkInv, UNCHANGED wheel,
           \A u \in Timers : st'[u] = "free" <=> st[u] = "free"
    PROVE  LinkInv'
<1>1. \A s \in Slots : \A i \in DOMAIN wheel[s] : wheel[s][i] \in Timers
    BY DEF TypeOK
<1> QED
    BY <1>1 DEF LinkInv, NoneFreed, Once, NoneLost

\* The callback must not add a timer to the slot that the loop is at (finding 2).
LEMMA LinkStep ==
    ASSUME CbDelays \subseteq 1..(Size - 1)
    PROVE  TypeOK /\ LinkInv /\ [Next]_vars => LinkInv'
<1> SUFFICES ASSUME TypeOK, LinkInv, [Next]_vars PROVE LinkInv'
    OBVIOUS
<1>0. TypeOK' /\ cur \in Nat
    BY TimerTypeStep, WheelAssumption DEF TypeOK
<1>1. ASSUME NEW t \in Timers, NEW d \in AddDelays, AddTimer(t, d) PROVE LinkInv'
    <2>1. SlotAhead(d) \in Slots
        <3>1. Size \in Nat \ {0} /\ d \in 0..Size
            BY WheelAssumption
        <3> QED
            BY <1>0, <3>1, ModAhead DEF SlotAhead, Slots
    <2>2. Relinked(None, SlotAhead(d), t)
        BY <1>1, <2>1, PushRelinks DEF AddTimer
    <2>3. st[t] = "free" /\ st'[t] = "armed" /\ \A u \in Timers : u # t => st'[u] = st[u]
        BY <1>1 DEF AddTimer, TypeOK
    <2> QED
        <3> DEFINE h == None
                   a == SlotAhead(d)
        <3>1. /\ h \in Slots \union {None} /\ a \in Slots \union {None} /\ h = None
              /\ Relinked(h, a, t)
              /\ st[t] = "free" /\ st'[t] # "free"
              /\ a # None
              /\ \A u \in Timers : (st'[u] = "free" <=> st[u] = "free") \/ u = t
            BY <2>1, <2>2, <2>3 DEF None, Slots
        <3> HIDE DEF h, a
        <3> QED
            BY <1>0, <3>1, LinksStay
<1>2. ASSUME NEW t \in Timers, DelTimer(t) PROVE LinkInv'
    <2>1. UNCHANGED wheel /\ \A u \in Timers : st'[u] = "free" <=> st[u] = "free"
        BY <1>2 DEF DelTimer, TypeOK
    <2> QED
        BY <2>1, LinksSame
<1>3. ASSUME DropDeleted \/ RunLast PROVE LinkInv'
    <2>1. AtEntry /\ wheel' = [wheel EXCEPT ![Here] = Popped] /\ st' = [st EXCEPT ![Head1] = "free"]
        BY <1>3 DEF DropDeleted, RunLast
    <2>2. Here \in Slots /\ Head1 \in Timers /\ None \notin Slots
        BY <2>1, PoppedType DEF Slots, None
    <2>3. Relinked(Here, None, Head1)
        BY <2>1, PopRelinks
    <2>4. /\ st'[wheel[Here][1]] = "free" /\ wheel[Here] # <<>>
          /\ \A u \in Timers : u # wheel[Here][1] => st'[u] = st[u]
        BY <2>1, <2>2 DEF TypeOK, Head1, AtEntry
    <2> HIDE DEF Here
    <2> QED
        BY <1>0, <2>2, <2>3, <2>4, LinksStay
<1>4. ASSUME NEW t \in Timers, NEW d \in CbDelays, RunRearm(t, d) PROVE LinkInv'
    <2>1. /\ AtEntry /\ wheel' = [Pushed(t, d) EXCEPT ![Here] = Popped] /\ st[t] = "free"
          /\ st' = [st EXCEPT ![Head1] = "free", ![t] = "armed"] /\ Due(Head1)
        BY <1>4 DEF RunRearm
    <2>2. Here \in Slots /\ Head1 \in Timers /\ None \notin Slots
        BY <2>1, PoppedType DEF Slots, None
    <2>3. Relinked(Here, SlotAhead(d), t) /\ SlotAhead(d) \in Slots /\ SlotAhead(d) # Here
        BY <2>1, RearmRelinks
    <2>4. t # Head1
        BY <2>1 DEF Due
    <2>5. /\ st'[wheel[Here][1]] = "free" /\ wheel[Here] # <<>>
          /\ st'[t] = "armed"
          /\ \A u \in Timers : u # wheel[Here][1] /\ u # t => st'[u] = st[u]
        BY <2>1, <2>2, <2>4 DEF TypeOK, Head1, AtEntry
    <2> HIDE DEF Here
    <2> QED
        <3> DEFINE a == SlotAhead(d)
        <3>1. /\ Here \in Slots /\ a \in Slots /\ Here # None /\ a # None /\ Here # a
              /\ Relinked(Here, a, t)
              /\ st[t] = "free" /\ st'[t] # "free"
              /\ \A u \in Timers : \/ st'[u] = "free" <=> st[u] = "free"
                                   \/ u = wheel[Here][1]
                                   \/ u = t
            BY <2>1, <2>2, <2>3, <2>5
        <3> HIDE DEF a
        <3> QED
            BY <1>0, <2>5, <3>1, LinksStay
<1>5. ASSUME Wait \/ MoveOn \/ EndTurn \/ Tick \/ UNCHANGED vars PROVE LinkInv'
    <2>1. UNCHANGED <<wheel, st>>
        BY <1>5 DEF Wait, MoveOn, EndTurn, Tick, vars
    <2> QED
        BY <2>1, LinksSame
<1> QED
    BY <1>1, <1>2, <1>3, <1>4, <1>5 DEF Next, TimerStep

LEMMA LinkInvMeans ==
    ASSUME TypeOK, LinkInv
    PROVE  Linked
<1> SUFFICES ASSUME NEW t \in Timers
             PROVE  Cardinality(Places(t)) = IF st[t] = "free" THEN 0 ELSE 1
    BY DEF Linked
<1>0. \A p : p \in Places(t) <=>
                \E s \in Slots : \E i \in DOMAIN wheel[s] : p = <<s, i>> /\ wheel[s][i] = t
    BY DEF Places
<1>1. CASE st[t] = "free"
    <2>1. Places(t) = {}
        BY <1>0, <1>1 DEF LinkInv, NoneFreed
    <2> QED
        BY <1>1, <2>1, FS_EmptySet
<1>2. CASE st[t] # "free"
    <2>1. PICK s \in Slots : \E i \in DOMAIN wheel[s] : wheel[s][i] = t
        BY <1>2 DEF LinkInv, NoneLost
    <2>2. PICK i \in DOMAIN wheel[s] : wheel[s][i] = t
        BY <2>1
    <2>3. ASSUME NEW p \in Places(t) PROVE p = <<s, i>>
        <3>1. PICK s2 \in Slots : \E i2 \in DOMAIN wheel[s2] : p = <<s2, i2>> /\ wheel[s2][i2] = t
            BY <1>0
        <3>2. PICK i2 \in DOMAIN wheel[s2] : p = <<s2, i2>> /\ wheel[s2][i2] = t
            BY <3>1
        <3>3. s2 = s /\ i2 = i
            BY <2>2, <3>2 DEF LinkInv, Once
        <3> QED
            BY <3>2, <3>3
    <2>4. Places(t) = {<<s, i>>}
        BY <1>0, <2>2, <2>3
    <2> QED
        BY <1>2, <2>4, FS_Singleton
<1> QED
    BY <1>1, <1>2

\* Every timer that is armed, or deleted and not yet dropped, is in the wheel exactly
\* once, and no freed one is, whatever handlers and callbacks do, as long as no
\* callback adds a timer a full round ahead.
THEOREM LinkedAlways ==
    ASSUME CbDelays \subseteq 1..(Size - 1)
    PROVE  Spec => []Linked
<1>1. Init => TypeOK /\ LinkInv
    BY TimerTypeInit, LinkInit
<1>2. TypeOK /\ LinkInv /\ [Next]_vars => TypeOK' /\ LinkInv'
    BY TimerTypeStep, LinkStep
<1>3. TypeOK /\ LinkInv => Linked
    BY LinkInvMeans
<1> QED
    BY <1>1, <1>2, <1>3, PTL DEF Spec

-----------------------------------------------------------------------------
(* How late timers are.                                                    *)

\* No delay is longer than the wheel, or than the lateness that is tolerated; no
\* callback adds a timer to the slot that the loop is at.
DelaysFit ==
    /\ MaxLate >= 1
    /\ AddDelays \subseteq 0..(Size - 1) /\ CbDelays \subseteq 1..(Size - 1)
    /\ \A d \in AddDelays \union CbDelays : d <= MaxLate

Armed(s, i) == st[wheel[s][i]] = "armed"
At(s, i) == due[wheel[s][i]]
Margin == IF turned THEN 1 ELSE 0

\* An armed timer is due no earlier than the loop could be at its slot, less MaxLate;
\* a turn in this second leaves a second to spare.
EachInTime ==
    \A s \in Slots : \A i \in DOMAIN wheel[s] :
        Armed(s, i) => At(s, i) <= MaxLate /\ At(s, i) >= Dist(s) - MaxLate + Margin

\* Where the loop comes to one entry before another, waiting for the first makes the
\* second late by no more than that.
InFront(s1, i1, s2, i2) == Dist(s1) < Dist(s2) \/ (s1 = s2 /\ i1 < i2)

FrontInTime ==
    \A s1, s2 \in Slots : \A i1 \in DOMAIN wheel[s1], i2 \in DOMAIN wheel[s2] :
        Armed(s1, i1) /\ Armed(s2, i2) /\ InFront(s1, i1, s2, i2) =>
            At(s1, i1) - At(s2, i2) <= MaxLate - (Dist(s2) - Dist(s1))

LateInv == EachInTime /\ FrontInTime

LEMMA DistType ==
    ASSUME TypeOK, NEW s \in Slots
    PROVE  Dist(s) \in 0..(Size - 1) /\ Dist(Here) = 0 /\ (s # Here => Dist(s) > 0)
<1>1. Here \in Slots
    BY HereInSlots, WheelAssumption DEF TypeOK
<1> HIDE DEF Here
<1> QED
    BY <1>1, WheelAssumption DEF Dist, Slots

LEMMA EntryTypes ==
    ASSUME TypeOK, NEW s \in Slots, NEW i \in DOMAIN wheel[s]
    PROVE  wheel[s][i] \in Timers /\ At(s, i) \in Int /\ i \in Nat /\ i >= 1
<1>1. wheel[s] \in Seq(Timers)
    BY DEF TypeOK
<1>2. wheel[s][i] \in Timers /\ i \in Nat /\ i >= 1
    BY <1>1
<1> QED
    BY <1>2 DEF At, TypeOK

LEMMA LateInit == Init => LateInv
<1> SUFFICES ASSUME Init PROVE LateInv
    OBVIOUS
<1>1. \A s \in Slots : DOMAIN wheel[s] = {}
    BY DEF Init
<1> QED
    BY <1>1 DEF LateInv, EachInTime, FrontInTime

\* Taking away an entry and pushing one that is due when the loop can be there.
LEMMA LateRelinked ==
    ASSUME TypeOK, TypeOK', LinkInv, LateInv, MaxLate >= 1, UNCHANGED <<cur, turned>>,
           NEW h \in Slots \union {None}, NEW a \in Slots \union {None}, NEW t \in Timers,
           Relinked(h, a, t),
           h # None => h # a /\ wheel[h] # <<>>,
           a # None => st[t] = "free" /\ due'[t] = Dist(a) /\ Dist(a) <= MaxLate,
           \A u \in Timers : \/ st'[u] = st[u] /\ due'[u] = due[u]
                             \/ h # None /\ u = wheel[h][1]
                             \/ a # None /\ u = t
    PROVE  LateInv'
<1> DEFINE New(s, i) == s = a /\ i = 1 /\ wheel'[s][i] = t /\ a # None
           Old(s, i) == /\ Moved(i, s, h, a) \in DOMAIN wheel[s]
                        /\ Armed(s, i)' = Armed(s, Moved(i, s, h, a))
                        /\ At(s, i)' = At(s, Moved(i, s, h, a))
<1>0. None \notin Slots /\ MaxLate \in Nat
    BY WheelAssumption DEF Slots, None
<1>1. /\ \A s : Dist(s)' = Dist(s)
      /\ Margin' = Margin /\ Margin \in 0..1
      /\ \A s \in Slots : Dist(s) \in Nat
    <2>1. \A s : Dist(s)' = Dist(s)
        BY DEF Dist, Here
    <2>2. Margin' = Margin /\ Margin \in 0..1
        BY DEF Margin
    <2>3. \A s \in Slots : Dist(s) \in Nat
        BY DistType, WheelAssumption
    <2> QED
        BY <2>1, <2>2, <2>3
<1>2. ASSUME NEW s \in Slots, NEW j \in DOMAIN wheel[s], s = h => j > 1
      PROVE  st'[wheel[s][j]] = st[wheel[s][j]] /\ due'[wheel[s][j]] = due[wheel[s][j]]
    <2>1. wheel[s][j] \in Timers /\ st[wheel[s][j]] # "free"
        BY EntryTypes DEF LinkInv, NoneFreed
    <2>2. h # None => wheel[s][j] # wheel[h][1]
        <3> SUFFICES ASSUME h # None, wheel[s][j] = wheel[h][1] PROVE FALSE
            OBVIOUS
        <3>1. h \in Slots /\ 1 \in DOMAIN wheel[h]
            BY DEF TypeOK
        <3>2. s = h /\ j = 1
            BY <3>1 DEF LinkInv, Once
        <3> QED
            BY <1>2, <3>2
    <2> QED
        BY <2>1, <2>2
<1>3. ASSUME NEW s \in Slots, NEW i \in DOMAIN wheel'[s]
      PROVE  New(s, i) \/ Old(s, i)
    <2>1. \/ s = a /\ i = 1 /\ wheel'[s][i] = t
          \/ /\ Moved(i, s, h, a) \in DOMAIN wheel[s]
             /\ wheel'[s][i] = wheel[s][Moved(i, s, h, a)]
             /\ s = h => Moved(i, s, h, a) > 1
        BY RelinkedPlaces
    <2> DEFINE j == Moved(i, s, h, a)
    <2>2. CASE j \in DOMAIN wheel[s] /\ wheel'[s][i] = wheel[s][j] /\ (s = h => j > 1)
        <3> HIDE DEF j
        <3>1. st'[wheel[s][j]] = st[wheel[s][j]] /\ due'[wheel[s][j]] = due[wheel[s][j]]
            BY <1>2, <2>2
        <3>2. Armed(s, i)' = Armed(s, j) /\ At(s, i)' = At(s, j)
            BY <2>2, <3>1 DEF Armed, At
        <3> QED
            BY <2>2, <3>2 DEF j
    <2> QED
        BY <1>0, <2>1, <2>2
<1>4. ASSUME NEW s \in Slots, NEW i \in DOMAIN wheel'[s], New(s, i)
      PROVE  At(s, i)' = Dist(s) /\ Dist(s) <= MaxLate
    BY <1>4 DEF At
<1>5. ASSUME NEW s \in Slots, NEW i \in DOMAIN wheel'[s], Old(s, i), Armed(s, i)'
      PROVE  /\ At(s, i)' \in Int /\ At(s, i)' <= MaxLate
             /\ At(s, i)' >= Dist(s) - MaxLate + Margin
    <2> DEFINE j == Moved(i, s, h, a)
    <2>1. j \in DOMAIN wheel[s] /\ Armed(s, j) /\ At(s, i)' = At(s, j)
        BY <1>5
    <2> HIDE DEF j
    <2> QED
        BY <2>1, EntryTypes DEF LateInv, EachInTime
<1>6. EachInTime'
    <2> SUFFICES ASSUME NEW s \in Slots, NEW i \in DOMAIN wheel'[s], Armed(s, i)'
                 PROVE  At(s, i)' <= MaxLate /\ At(s, i)' >= Dist(s)' - MaxLate + Margin'
        BY DEF EachInTime
    <2>1. CASE New(s, i)
        BY <1>0, <1>1, <1>4, <2>1
    <2>2. CASE Old(s, i)
        BY <1>1, <1>5, <2>2
    <2> QED
        BY <1>3, <2>1, <2>2
<1>7. FrontInTime'
    <2> SUFFICES ASSUME NEW s1 \in Slots, NEW s2 \in Slots,
                        NEW i1 \in DOMAIN wheel'[s1], NEW i2 \in DOMAIN wheel'[s2],
                        Armed(s1, i1)', Armed(s2, i2)', InFront(s1, i1, s2, i2)'
                 PROVE  At(s1, i1)' - At(s2, i2)' <= MaxLate - (Dist(s2) - Dist(s1))
        BY <1>1 DEF FrontInTime
    <2>0. /\ Dist(s1) < Dist(s2) \/ (s1 = s2 /\ i1 < i2)
          /\ Dist(s1) \in Nat /\ Dist(s2) \in Nat
          /\ i1 \in Nat /\ i2 \in Nat /\ i1 >= 1
        <3>1. wheel'[s1] \in Seq(Timers) /\ wheel'[s2] \in Seq(Timers)
            <4>1. wheel' \in [Slots -> Seq(Timers)]
                BY DEF TypeOK
            <4> QED
                BY <4>1
        <3>2. i1 \in Nat /\ i2 \in Nat /\ i1 >= 1
            BY <3>1
        <3> QED
            BY <1>1, <3>2 DEF InFront
    <2>1. CASE New(s1, i1) /\ New(s2, i2)
        BY <2>0, <2>1
    <2>2. CASE New(s1, i1) /\ Old(s2, i2)
        <3>1. At(s1, i1)' = Dist(s1)
            BY <1>4, <2>2
        <3>2. At(s2, i2)' \in Int /\ At(s2, i2)' >= Dist(s2) - MaxLate + Margin
            BY <1>5, <2>2
        <3> QED
            BY <1>0, <1>1, <2>0, <3>1, <3>2
    <2>3. CASE Old(s1, i1) /\ New(s2, i2)
        <3>1. At(s2, i2)' = Dist(s2)
            BY <1>4, <2>3
        <3>2. At(s1, i1)' \in Int /\ At(s1, i1)' <= MaxLate
            BY <1>5, <2>3
        <3> QED
            BY <1>0, <2>0, <3>1, <3>2
    <2>4. CASE Old(s1, i1) /\ Old(s2, i2)
        <3> DEFINE j1 == Moved(i1, s1, h, a)
                   j2 == Moved(i2, s2, h, a)
        <3>1. /\ j1 \in DOMAIN wheel[s1] /\ Armed(s1, j1) /\ At(s1, i1)' = At(s1, j1)
              /\ j2 \in DOMAIN wheel[s2] /\ Armed(s2, j2) /\ At(s2, i2)' = At(s2, j2)
            BY <2>4
        <3>2. s1 = s2 /\ i1 < i2 => j1 < j2
            BY <2>0 DEF Moved
        <3> HIDE DEF j1, j2
        <3>3. InFront(s1, j1, s2, j2)
            BY <2>0, <3>2 DEF InFront
        <3> QED
            BY <3>1, <3>3 DEF LateInv, FrontInTime
    <2> QED
        BY <1>3, <2>1, <2>2, <2>3, <2>4
<1> QED
    BY <1>6, <1>7 DEF LateInv

\* Where a timer waits at the head of its slot, all the others are behind it.
LEMMA LateWait ==
    ASSUME TypeOK, LateInv, Wait
    PROVE  LateInv'
<1>1. /\ wheel[Here] # <<>> /\ st[wheel[Here][1]] = "armed" /\ due[wheel[Here][1]] > 0
      /\ turned' = TRUE /\ UNCHANGED <<wheel, cur, st, due>>
    BY DEF Wait, AtEntry, Head1
<1>2. Here \in Slots /\ 1 \in DOMAIN wheel[Here] /\ MaxLate \in Nat
    <2>1. Here \in Slots
        BY HereInSlots, WheelAssumption DEF TypeOK
    <2>2. wheel[Here] \in Seq(Timers)
        BY <2>1 DEF TypeOK
    <2> QED
        BY <1>1, <2>1, <2>2, WheelAssumption
<1>3. \A s : Dist(s)' = Dist(s)
    BY <1>1 DEF Dist, Here
<1>4. Margin' = 1
    BY <1>1 DEF Margin
<1> DEFINE H == Here
<1>5. H \in Slots /\ 1 \in DOMAIN wheel[H] /\ Armed(H, 1) /\ At(H, 1) > 0 /\ Dist(H) = 0
    BY <1>1, <1>2, DistType DEF Armed, At
<1>6. ASSUME NEW s \in Slots, s # H PROVE Dist(s) > 0
    BY <1>6, DistType
<1> HIDE DEF H
<1>7. EachInTime'
    <2> SUFFICES ASSUME NEW s \in Slots, NEW i \in DOMAIN wheel[s], Armed(s, i)
                 PROVE  At(s, i) <= MaxLate /\ At(s, i) >= Dist(s) - MaxLate + 1
        BY <1>1, <1>3, <1>4 DEF EachInTime, Armed, At
    <2>0. /\ At(s, i) <= MaxLate /\ At(s, i) \in Int /\ i \in Nat /\ i >= 1
          /\ Dist(s) \in Int /\ At(H, 1) \in Int /\ At(H, 1) <= MaxLate
        BY <1>5, EntryTypes, DistType DEF LateInv, EachInTime
    <2>1. CASE s = H /\ i = 1
        BY <1>2, <1>5, <2>0, <2>1
    <2>2. CASE ~(s = H /\ i = 1)
        <3>1. InFront(H, 1, s, i)
            BY <1>5, <1>6, <2>0, <2>2 DEF InFront
        <3>2. At(H, 1) - At(s, i) <= MaxLate - (Dist(s) - Dist(H))
            BY <1>5, <3>1 DEF LateInv, FrontInTime
        <3> QED
            BY <1>2, <1>5, <2>0, <3>2
    <2> QED
        BY <2>1, <2>2
<1>8. FrontInTime'
    BY <1>1, <1>3 DEF LateInv, FrontInTime, InFront, Armed, At
<1> QED
    BY <1>7, <1>8 DEF LateInv

\* The loop leaves an empty slot, so that it is one nearer to every entry.
LEMMA LateMoveOn ==
    ASSUME TypeOK, LateInv, MoveOn, cur <= cur'
    PROVE  LateInv'
<1>1. /\ wheel[Here] = <<>> /\ cur' = NextSlot
      /\ turned' = TRUE /\ UNCHANGED <<wheel, st, due>>
    BY DEF MoveOn
<1>2. /\ Here \in Slots /\ cur \in 0..(CurMod - 1) /\ Size \in Nat \ {0} /\ MaxLate \in Nat
    BY HereInSlots, WheelAssumption DEF TypeOK
<1>3. Here' = IF Here + 1 < Size THEN Here + 1 ELSE 0
    BY <1>1, <1>2, NextSlotIsNext
<1>4. ASSUME NEW s \in Slots, NEW i \in DOMAIN wheel[s]
      PROVE  Dist(s)' = Dist(s) - 1 /\ Dist(s) \in Int
    <2>1. s # Here
        BY <1>1
    <2>2. Dist(s)' = IF s >= Here' THEN s - Here' ELSE s - Here' + Size
        BY DEF Dist
    <2> DEFINE x == Here
               y == Here'
    <2>3. /\ x \in 0..(Size - 1) /\ s \in 0..(Size - 1) /\ s # x
          /\ y = IF x + 1 < Size THEN x + 1 ELSE 0
          /\ Dist(s)' = IF s >= y THEN s - y ELSE s - y + Size
          /\ Dist(s) = IF s >= x THEN s - x ELSE s - x + Size
        BY <1>2, <1>3, <2>1, <2>2 DEF Slots, Dist
    <2> HIDE DEF x, y
    <2> QED
        BY <1>2, <2>3
<1>5. Margin' = 1 /\ Margin \in 0..1
    BY <1>1 DEF Margin
<1>6. EachInTime'
    <2> SUFFICES ASSUME NEW s \in Slots, NEW i \in DOMAIN wheel[s], Armed(s, i)
                 PROVE  At(s, i) <= MaxLate /\ At(s, i) >= Dist(s)' - MaxLate + Margin'
        BY <1>1 DEF EachInTime, Armed, At
    <2>1. /\ At(s, i) <= MaxLate /\ At(s, i) >= Dist(s) - MaxLate + Margin
          /\ At(s, i) \in Int
        BY EntryTypes DEF LateInv, EachInTime
    <2>2. Dist(s)' = Dist(s) - 1 /\ Dist(s) \in Int
        BY <1>4
    <2> QED
        BY <1>2, <1>5, <2>1, <2>2
<1>7. FrontInTime'
    <2> SUFFICES ASSUME NEW s1 \in Slots, NEW s2 \in Slots,
                        NEW i1 \in DOMAIN wheel[s1], NEW i2 \in DOMAIN wheel[s2],
                        Armed(s1, i1), Armed(s2, i2), InFront(s1, i1, s2, i2)'
                 PROVE  At(s1, i1) - At(s2, i2) <= MaxLate - (Dist(s2)' - Dist(s1)')
        BY <1>1 DEF FrontInTime, Armed, At
    <2>1. /\ Dist(s1)' = Dist(s1) - 1 /\ Dist(s1) \in Int
          /\ Dist(s2)' = Dist(s2) - 1 /\ Dist(s2) \in Int
        BY <1>4
    <2>2. InFront(s1, i1, s2, i2)
        BY <2>1 DEF InFront
    <2>3. At(s1, i1) - At(s2, i2) <= MaxLate - (Dist(s2) - Dist(s1))
        BY <2>2 DEF LateInv, FrontInTime
    <2> QED
        BY <2>1, <2>3
<1> QED
    BY <1>6, <1>7 DEF LateInv

\* In the second that passes a turn was made.
LEMMA LateTick ==
    ASSUME TypeOK, LateInv, Tick
    PROVE  LateInv'
<1>1. turned /\ turned' = FALSE /\ UNCHANGED <<wheel, cur, st>>
    BY DEF Tick
<1>2. \A s : Dist(s)' = Dist(s)
    BY <1>1 DEF Dist, Here
<1>3. Margin = 1 /\ Margin' = 0 /\ MaxLate \in Nat
    BY <1>1, WheelAssumption DEF Margin
<1>4. ASSUME NEW s \in Slots, NEW i \in DOMAIN wheel[s], Armed(s, i)
      PROVE  At(s, i)' = At(s, i) - 1 /\ At(s, i) \in Int
    <2>1. /\ wheel[s][i] \in Timers /\ At(s, i) \in Int /\ Dist(s) \in 0..(Size - 1)
          /\ At(s, i) >= Dist(s) - MaxLate + Margin
        BY <1>4, EntryTypes, DistType DEF LateInv, EachInTime
    <2>2. due[wheel[s][i]] >= -MaxLate
        BY <1>3, <2>1, WheelAssumption DEF At
    <2> QED
        BY <1>1, <1>4, <2>1, <2>2 DEF Tick, Armed, At
<1>5. EachInTime'
    <2> SUFFICES ASSUME NEW s \in Slots, NEW i \in DOMAIN wheel[s], Armed(s, i)
                 PROVE  At(s, i)' <= MaxLate /\ At(s, i)' >= Dist(s) - MaxLate + 0
        BY <1>1, <1>2, <1>3 DEF EachInTime, Armed
    <2>1. At(s, i) <= MaxLate /\ At(s, i) >= Dist(s) - MaxLate + Margin /\ Dist(s) \in 0..(Size - 1)
        BY DistType DEF LateInv, EachInTime
    <2> QED
        BY <1>3, <1>4, <2>1, WheelAssumption
<1>6. FrontInTime'
    <2> SUFFICES ASSUME NEW s1 \in Slots, NEW s2 \in Slots,
                        NEW i1 \in DOMAIN wheel[s1], NEW i2 \in DOMAIN wheel[s2],
                        Armed(s1, i1), Armed(s2, i2), InFront(s1, i1, s2, i2)
                 PROVE  At(s1, i1)' - At(s2, i2)' <= MaxLate - (Dist(s2) - Dist(s1))
        BY <1>1, <1>2 DEF FrontInTime, InFront, Armed
    <2>1. At(s1, i1) - At(s2, i2) <= MaxLate - (Dist(s2) - Dist(s1))
        BY DEF LateInv, FrontInTime
    <2> QED
        BY <1>4, <2>1
<1> QED
    BY <1>5, <1>6 DEF LateInv

LEMMA LateStep ==
    ASSUME DelaysFit
    PROVE  TypeOK /\ LinkInv /\ LateInv /\ [Next]_vars
              /\ cur <= cur' => LateInv'
<1> SUFFICES ASSUME TypeOK, LinkInv, LateInv, [Next]_vars, cur <= cur'
             PROVE  LateInv'
    OBVIOUS
<1>0. TypeOK' /\ cur \in Nat /\ MaxLate >= 1 /\ None \notin Slots
    BY TimerTypeStep, WheelAssumption DEF TypeOK, DelaysFit, Slots, None
<1>1. ASSUME NEW t \in Timers, NEW d \in AddDelays, AddTimer(t, d) PROVE LateInv'
    <2> DEFINE a == SlotAhead(d)
    <2>1. a \in Slots /\ Dist(a) = d /\ d <= MaxLate
        BY <1>0, AheadIsAhead DEF DelaysFit
    <2>2. Relinked(None, a, t)
        BY <1>1, <2>1, PushRelinks DEF AddTimer
    <2>3. /\ UNCHANGED <<cur, turned>> /\ st[t] = "free" /\ due'[t] = d
          /\ \A u \in Timers : u # t => st'[u] = st[u] /\ due'[u] = due[u]
        BY <1>1 DEF AddTimer, TypeOK
    <2> HIDE DEF a
    <2>4. /\ a # None
          /\ \A u \in Timers : \/ st'[u] = st[u] /\ due'[u] = due[u]
                               \/ a # None /\ u = t
        BY <1>0, <2>1, <2>3
    <2> QED
        BY <1>0, <2>1, <2>2, <2>3, <2>4, LateRelinked
<1>2. ASSUME NEW t \in Timers, DelTimer(t) PROVE LateInv'
    <2>1. UNCHANGED <<wheel, cur, due, turned>> /\ st' = [st EXCEPT ![t] = "deleted"]
        BY <1>2 DEF DelTimer
    <2>2. \A s \in Slots : \A i \in DOMAIN wheel[s] :
              /\ Armed(s, i)' => Armed(s, i)
              /\ At(s, i)' = At(s, i)
        BY <2>1, EntryTypes DEF Armed, At, TypeOK
    <2>3. Margin' = Margin /\ \A s : Dist(s)' = Dist(s)
        BY <2>1 DEF Margin, Dist, Here
    <2>4. EachInTime'
        BY <2>1, <2>2, <2>3 DEF LateInv, EachInTime
    <2>5. FrontInTime'
        BY <2>1, <2>2, <2>3 DEF LateInv, FrontInTime, InFront
    <2> QED
        BY <2>4, <2>5 DEF LateInv
<1>3. ASSUME DropDeleted \/ RunLast PROVE LateInv'
    <2> DEFINE h == Here
    <2>1. /\ AtEntry /\ wheel' = [wheel EXCEPT ![Here] = Popped]
          /\ st' = [st EXCEPT ![Head1] = "free"] /\ due' = [due EXCEPT ![Head1] = 0]
          /\ UNCHANGED <<cur, turned>>
        BY <1>3 DEF DropDeleted, RunLast
    <2>2. h \in Slots /\ Head1 \in Timers /\ wheel[h] # <<>> /\ Head1 = wheel[h][1]
        BY <2>1, PoppedType DEF AtEntry, Head1
    <2>3. Relinked(h, None, Head1)
        BY <2>1, PopRelinks
    <2>4. \A u \in Timers : u # wheel[h][1] => st'[u] = st[u] /\ due'[u] = due[u]
        BY <2>1, <2>2 DEF TypeOK
    <2> HIDE DEF h
    <2>5. /\ h # None
          /\ \A u \in Timers : \/ st'[u] = st[u] /\ due'[u] = due[u]
                               \/ h # None /\ u = wheel[h][1]
        BY <1>0, <2>2, <2>4
    <2> QED
        BY <1>0, <2>1, <2>2, <2>3, <2>5, LateRelinked
<1>4. ASSUME NEW t \in Timers, NEW d \in CbDelays, RunRearm(t, d) PROVE LateInv'
    <2> DEFINE h == Here
               a == SlotAhead(d)
    <2>0. d \in 1..(Size - 1) /\ d \in 0..(Size - 1)
        BY WheelAssumption DEF DelaysFit
    <2>1. /\ AtEntry /\ wheel' = [Pushed(t, d) EXCEPT ![Here] = Popped] /\ st[t] = "free"
          /\ st' = [st EXCEPT ![Head1] = "free", ![t] = "armed"] /\ Due(Head1)
          /\ due' = [due EXCEPT ![Head1] = 0, ![t] = d]
          /\ UNCHANGED <<cur, turned>>
        BY <1>4 DEF RunRearm
    <2>2. h \in Slots /\ Head1 \in Timers /\ wheel[h] # <<>> /\ Head1 = wheel[h][1]
        BY <2>1, PoppedType DEF AtEntry, Head1
    <2>3. Relinked(h, a, t) /\ a \in Slots /\ a # h
        BY <2>0, <2>1, RearmRelinks
    <2>4. Dist(a) = d /\ d <= MaxLate
        BY <1>0, <2>0, AheadIsAhead DEF DelaysFit
    <2>5. /\ due'[t] = d
          /\ \A u \in Timers : u # Head1 /\ u # t => st'[u] = st[u] /\ due'[u] = due[u]
        BY <2>1, <2>2 DEF TypeOK
    <2> HIDE DEF h, a
    <2>6. /\ h # None /\ a # None
          /\ \A u \in Timers : \/ st'[u] = st[u] /\ due'[u] = due[u]
                               \/ h # None /\ u = wheel[h][1]
                               \/ a # None /\ u = t
        BY <1>0, <2>2, <2>3, <2>5
    <2> QED
        <3>1. /\ h \in Slots \union {None} /\ a \in Slots \union {None}
              /\ h # None => h # a /\ wheel[h] # <<>>
              /\ a # None => st[t] = "free" /\ due'[t] = Dist(a) /\ Dist(a) <= MaxLate
            BY <2>1, <2>2, <2>3, <2>4, <2>5
        <3> QED
            BY <1>0, <2>1, <2>3, <2>6, <3>1, LateRelinked
<1>5. ASSUME EndTurn \/ UNCHANGED vars PROVE LateInv'
    <2>1. UNCHANGED <<wheel, cur, st, due, turned>>
        BY <1>5 DEF EndTurn, vars
    <2> QED
        BY <2>1 DEF LateInv, EachInTime, FrontInTime, InFront, Armed, At, Margin, Dist, Here
<1> QED
    BY <1>1, <1>2, <1>3, <1>4, <1>5, LateWait, LateMoveOn, LateTick DEF Next, TimerStep

\* The counter grows in every step until it has wrapped.
LEMMA UnwrappedStep ==
    ASSUME TypeOK, [Next]_vars, ~wrapped'
    PROVE  ~wrapped /\ cur <= cur'
<1>1. CASE MoveOn
    <2>1. cur' = NextSlot /\ ~wrapped /\ ~(NextSlot < cur)
        BY <1>1 DEF MoveOn
    <2>2. cur \in Nat /\ cur' \in Nat
        BY TimerTypeStep, WheelAssumption DEF TypeOK
    <2> QED
        BY <2>1, <2>2
<1>2. CASE UNCHANGED <<cur, wrapped>>
    BY <1>2, WheelAssumption DEF TypeOK
<1>3. MoveOn \/ UNCHANGED <<cur, wrapped>>
    BY DEF Next, TimerStep, AddTimer, DelTimer, DropDeleted, RunLast, RunRearm, Wait, EndTurn,
           Tick, vars
<1> QED
    BY <1>1, <1>2, <1>3

LEMMA LateInvMeans ==
    ASSUME TypeOK, LinkInv, LateInv
    PROVE  \A t \in Timers : st[t] = "armed" => due[t] >= -MaxLate
<1> SUFFICES ASSUME NEW t \in Timers, st[t] = "armed" PROVE due[t] >= -MaxLate
    OBVIOUS
<1>1. PICK s \in Slots : \E i \in DOMAIN wheel[s] : wheel[s][i] = t
    BY DEF LinkInv, NoneLost
<1>2. PICK i \in DOMAIN wheel[s] : wheel[s][i] = t
    BY <1>1
<1>3. /\ At(s, i) = due[t] /\ Armed(s, i) /\ At(s, i) \in Int
      /\ Dist(s) \in 0..(Size - 1) /\ Margin \in 0..1
    BY <1>2, EntryTypes, DistType DEF At, Armed, Margin
<1>4. due[t] >= Dist(s) - MaxLate + Margin
    BY <1>3 DEF LateInv, EachInTime
<1> QED
    BY <1>3, <1>4, WheelAssumption

\* Until the counter of turns wraps, a timer is late by no more than the longest delay
\* (or a second), although everything behind an entry that is not due waits for it.
THEOREM LateBoundedAlways ==
    ASSUME DelaysFit
    PROVE  Spec => []LateBounded
<1> DEFINE Inv == TypeOK /\ LinkInv /\ (~wrapped => LateInv)
<1>1. Init => Inv
    BY TimerTypeInit, LinkInit, LateInit
<1>2. Inv /\ [Next]_vars => Inv'
    <2>1. CbDelays \subseteq 1..(Size - 1)
        BY DEF DelaysFit
    <2>2. TypeOK /\ [Next]_vars /\ ~wrapped' => ~wrapped /\ cur <= cur'
        BY UnwrappedStep
    <2> QED
        BY <2>1, <2>2, TimerTypeStep, LinkStep, LateStep
<1>3. Inv => LateBounded
    BY LateInvMeans DEF LateBounded
<1> QED
    BY <1>1, <1>2, <1>3, PTL DEF Spec
=============================================================================
