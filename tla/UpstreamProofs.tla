--------------------------- MODULE UpstreamProofs ---------------------------
(***************************************************************************)
(* Proofs about Upstream, for any messages, any number of connections and  *)
(* any bounds of the pending list and of failures.                         *)
(***************************************************************************)
EXTENDS Upstream, SequenceTheorems, TLAPS

-----------------------------------------------------------------------------
(* Pieces of sequences.                                                    *)

LEMMA FromFacts ==
    ASSUME NEW S, NEW q \in Seq(S), NEW k \in 0..Len(q)
    PROVE  /\ From(q, k) \in Seq(S)
           /\ Len(From(q, k)) = Len(q) - k
           /\ \A i \in 1..(Len(q) - k) : From(q, k)[i] = q[k + i]
<1>1. From(q, k) \in Seq(S)
    BY DEF From
<1>2. Len(From(q, k)) = Len(q) - k
    BY DEF From
<1>3. ASSUME NEW i \in 1..(Len(q) - k) PROVE From(q, k)[i] = q[k + i]
    BY DEF From
<1> QED
    BY <1>1, <1>2, <1>3

LEMMA UpToFacts ==
    ASSUME NEW S, NEW q \in Seq(S), NEW k \in 0..Len(q)
    PROVE  /\ SubSeq(q, 1, k) \in Seq(S)
           /\ Len(SubSeq(q, 1, k)) = k
           /\ \A i \in 1..k : SubSeq(q, 1, k)[i] = q[i]
OBVIOUS

LEMMA ConcatFacts ==
    ASSUME NEW S, NEW q \in Seq(S), NEW r \in Seq(S)
    PROVE  /\ q \o r \in Seq(S)
           /\ Len(q \o r) = Len(q) + Len(r)
           /\ \A i \in 1..Len(q) : (q \o r)[i] = q[i]
           /\ \A i \in 1..Len(r) : (q \o r)[Len(q) + i] = r[i]
BY ConcatProperties

LEMMA LenType ==
    ASSUME NEW S, NEW q \in Seq(S)
    PROVE  Len(q) \in Nat
OBVIOUS

\* The first k elements of one queue, put at the end of another.
LEMMA MoveFacts ==
    ASSUME NEW S, NEW q \in Seq(S), NEW w \in Seq(S), NEW k \in 0..Len(q)
    PROVE  /\ (w \o SubSeq(q, 1, k)) \in Seq(S)
           /\ Len(w \o SubSeq(q, 1, k)) = Len(w) + k
           /\ \A i \in 1..Len(w) : (w \o SubSeq(q, 1, k))[i] = w[i]
           /\ \A i \in 1..k : (w \o SubSeq(q, 1, k))[Len(w) + i] = q[i]
<1> DEFINE up == SubSeq(q, 1, k)
<1>1. up \in Seq(S) /\ Len(up) = k /\ \A i \in 1..k : up[i] = q[i]
    BY UpToFacts
<1> HIDE DEF up
<1>2. up \in Seq(S)
    BY <1>1
<1>3. /\ (w \o up) \in Seq(S) /\ Len(w \o up) = Len(w) + Len(up)
      /\ \A i \in 1..Len(w) : (w \o up)[i] = w[i]
      /\ \A i \in 1..Len(up) : (w \o up)[Len(w) + i] = up[i]
    BY <1>2, ConcatFacts
<1>4. /\ Len(w \o up) = Len(w) + k
      /\ \A i \in 1..k : (w \o up)[Len(w) + i] = q[i]
    BY <1>1, <1>3
<1> QED
    BY <1>3, <1>4 DEF up

\* The p-th piece of all that a connection was ever given to send.
Piece(p) == <<(p + 1) \div 2, IF p % 2 = 1 THEN 1 ELSE 2>>

LEMMA PiecesFacts ==
    ASSUME NEW base \in Nat, NEW n \in Nat
    PROVE  /\ Pieces(base, n) \in Seq((1..(base + n)) \X {1, 2})
           /\ Len(Pieces(base, n)) = 2 * n
           /\ \A i \in 1..(2 * n) : Pieces(base, n)[i] = Piece(2 * base + i)
<1>1. ASSUME NEW i \in 1..(2 * n)
      PROVE  /\ base + ((i + 1) \div 2) \in 1..(base + n)
             /\ base + ((i + 1) \div 2) = ((2 * base + i) + 1) \div 2
             /\ (2 * base + i) % 2 = i % 2
    OBVIOUS
<1>2. \A i \in 1..(2 * n) : Pieces(base, n)[i] = Piece(2 * base + i)
    BY <1>1 DEF Pieces, Piece
<1>3. 2 * n \in Nat
    OBVIOUS
<1>4. Pieces(base, n) \in [1..(2 * n) -> (1..(base + n)) \X {1, 2}]
    BY <1>1 DEF Pieces
<1>5. Pieces(base, n) \in Seq((1..(base + n)) \X {1, 2}) /\ Len(Pieces(base, n)) = 2 * n
    BY <1>3, <1>4
<1> QED
    BY <1>2, <1>5

-----------------------------------------------------------------------------
(* Attempts to send.                                                       *)

PieceOf(c) == (1..Len(sent[c])) \X {1, 2}

\* All that a connection has to send when it is given the messages ms.
AllPieces(c, ms) == out[c] \o Pieces(Len(sent[c]), Len(ms))

\* What an attempt does to its connection, and that it does nothing to the others.
Attempted(c, ms, ok, k) ==
    /\ \A d \in Conns : d # c => /\ sent'[d] = sent[d] /\ stash'[d] = stash[d]
                                 /\ out'[d] = out[d] /\ wire'[d] = wire[d]
    /\ sent'[c] = sent[c] \o ms
    /\ sent'[c] \in Seq(Msgs)
    /\ Len(sent'[c]) = Len(sent[c]) + Len(ms)
    /\ stash'[c] = stash[c] \union {Len(sent[c]) + i : i \in ok}
    /\ stash'[c] \subseteq 1..Len(sent'[c])
    /\ out'[c] \in Seq(PieceOf(c)') /\ wire'[c] \in Seq(PieceOf(c)')
    /\ Len(wire'[c]) = Len(wire[c]) + k
    /\ k <= Len(out[c]) + 2 * Len(ms)
    /\ Len(out'[c]) = Len(out[c]) + 2 * Len(ms) - k
    /\ \A i \in 1..Len(wire[c]) : wire'[c][i] = wire[c][i]
    /\ \A i \in 1..k : wire'[c][Len(wire[c]) + i] =
          AllPieces(c, ms)[i]
    /\ \A i \in 1..Len(out'[c]) : out'[c][i] =
          AllPieces(c, ms)[k + i]

LEMMA AttemptFacts ==
    ASSUME TypeOK, NEW c \in Conns, NEW ms \in Seq(Msgs), NEW ok \in SUBSET (1..Len(ms)),
           NEW k \in Nat, Attempt(c, ms, ok, k)
    PROVE  Attempted(c, ms, ok, k)
<1> DEFINE base == Len(sent[c])
           all == out[c] \o Pieces(base, Len(ms))
           T == (1..(base + Len(ms))) \X {1, 2}
<1>1. /\ k <= Len(all)
      /\ sent' = [sent EXCEPT ![c] = @ \o ms]
      /\ stash' = [stash EXCEPT ![c] = @ \union {base + i : i \in ok}]
      /\ out' = [out EXCEPT ![c] = From(all, k)]
      /\ wire' = [wire EXCEPT ![c] = @ \o SubSeq(all, 1, k)]
    BY DEF Attempt, Stashed
<1>2. /\ sent \in [Conns -> Seq(Msgs)] /\ stash \in [Conns -> SUBSET Nat]
      /\ out \in [Conns -> Seq(Nat \X {1, 2})] /\ wire \in [Conns -> Seq(Nat \X {1, 2})]
      /\ stash[c] \subseteq 1..base
      /\ out[c] \in Seq((1..base) \X {1, 2}) /\ wire[c] \in Seq((1..base) \X {1, 2})
    BY DEF TypeOK
<1>3. base \in Nat /\ Len(ms) \in Nat
    BY <1>2
<1>4. (1..base) \X {1, 2} \subseteq T /\ (1..base) \subseteq 1..(base + Len(ms))
    BY <1>3
<1>5. out[c] \in Seq(T) /\ wire[c] \in Seq(T)
    BY <1>2, <1>4, SeqMonotonic
<1>6. /\ Pieces(base, Len(ms)) \in Seq(T)
      /\ Len(Pieces(base, Len(ms))) = 2 * Len(ms)
    BY <1>3, PiecesFacts
<1> HIDE DEF T, base
<1>7. all \in Seq(T) /\ Len(all) = Len(out[c]) + 2 * Len(ms)
  <2>1. out[c] \in Seq(T) /\ Pieces(base, Len(ms)) \in Seq(T)
      BY <1>5, <1>6
  <2>2. all \in Seq(T) /\ Len(all) = Len(out[c]) + Len(Pieces(base, Len(ms)))
      BY <2>1, ConcatFacts
  <2> QED
      BY <1>6, <2>2
<1> HIDE DEF all
<1>8. /\ sent'[c] = sent[c] \o ms
      /\ stash'[c] = stash[c] \union {base + i : i \in ok}
      /\ out'[c] = From(all, k) /\ wire'[c] = wire[c] \o SubSeq(all, 1, k)
    BY <1>1, <1>2
<1>9. \A d \in Conns : d # c => /\ sent'[d] = sent[d] /\ stash'[d] = stash[d]
                                 /\ out'[d] = out[d] /\ wire'[d] = wire[d]
    BY <1>1, <1>2
<1>10. sent'[c] \in Seq(Msgs) /\ Len(sent'[c]) = base + Len(ms)
    BY <1>2, <1>8, ConcatFacts DEF base
<1>11. T = PieceOf(c)'
    BY <1>10 DEF PieceOf, T
<1>12. stash'[c] \subseteq 1..(base + Len(ms))
    BY <1>2, <1>3, <1>4, <1>8
<1>13. k \in 0..Len(all)
  <2>1. all \in Seq(T)
      BY <1>7
  <2>2. Len(all) \in Nat
      BY <2>1, LenType
  <2>3. k <= Len(all)
      BY <1>1
  <2> QED
      BY <2>2, <2>3
<1>14. /\ out'[c] \in Seq(T) /\ Len(out'[c]) = Len(all) - k
       /\ \A i \in 1..(Len(all) - k) : out'[c][i] = all[k + i]
  <2>1. /\ From(all, k) \in Seq(T) /\ Len(From(all, k)) = Len(all) - k
        /\ \A i \in 1..(Len(all) - k) : From(all, k)[i] = all[k + i]
      BY <1>7, <1>13, FromFacts
  <2> QED
      BY <1>8, <2>1
<1>17. /\ wire'[c] \in Seq(T) /\ Len(wire'[c]) = Len(wire[c]) + k
       /\ \A i \in 1..Len(wire[c]) : wire'[c][i] = wire[c][i]
       /\ \A i \in 1..k : wire'[c][Len(wire[c]) + i] = all[i]
  <2> DEFINE w == wire[c]
  <2>1. w \in Seq(T) /\ all \in Seq(T)
      BY <1>5, <1>7
  <2> HIDE DEF w
  <2>2. /\ (w \o SubSeq(all, 1, k)) \in Seq(T)
        /\ Len(w \o SubSeq(all, 1, k)) = Len(w) + k
        /\ \A i \in 1..Len(w) : (w \o SubSeq(all, 1, k))[i] = w[i]
        /\ \A i \in 1..k : (w \o SubSeq(all, 1, k))[Len(w) + i] = all[i]
      BY <2>1, <1>13, MoveFacts
  <2> QED
      BY <1>8, <2>2 DEF w
<1>15. stash'[c] \subseteq 1..Len(sent'[c])
    BY <1>10, <1>12
<1>16. out'[c] \in Seq(PieceOf(c)') /\ wire'[c] \in Seq(PieceOf(c)')
    BY <1>11, <1>14, <1>17
<1>18. /\ Len(out'[c]) = Len(out[c]) + 2 * Len(ms) - k
       /\ k <= Len(out[c]) + 2 * Len(ms)
       /\ \A i \in 1..Len(out'[c]) : out'[c][i] = all[k + i]
  <2>1. Len(all) = Len(out[c]) + 2 * Len(ms) /\ Len(out'[c]) = Len(all) - k
      BY <1>7, <1>14
  <2>2. k <= Len(all)
      BY <1>1
  <2>3. \A i \in 1..Len(out'[c]) : out'[c][i] = all[k + i]
      BY <1>14
  <2>4. Len(out'[c]) = Len(out[c]) + 2 * Len(ms) - k
      BY <2>1
  <2>5. k <= Len(out[c]) + 2 * Len(ms)
      BY <2>1, <2>2
  <2> QED
      BY <2>3, <2>4, <2>5
<1> QED
    BY <1>8, <1>9, <1>10, <1>15, <1>16, <1>17, <1>18 DEF base, all, AllPieces, Attempted

\* The messages that _send_pending tries, when it gets j of them out.
LEMMA TriedFacts ==
    ASSUME pending \in Seq(Msgs), NEW j \in 0..Len(pending)
    PROVE  /\ Tried(j) \in Seq(Msgs)
           /\ Broken(j) \in {0, 1}
           /\ Broken(j) = 0 => j = Len(pending) \/ pending[j + 1] \in Unpackable
           /\ Len(Tried(j)) = j + Broken(j)
           /\ Len(Tried(j)) <= Len(pending)
           /\ \A i \in 1..Len(Tried(j)) : Tried(j)[i] = pending[i]
           /\ LeftPending(j) \in Seq(Msgs)
           /\ Len(LeftPending(j)) = Len(pending) - j
           /\ \A i \in 1..(Len(pending) - j) : LeftPending(j)[i] = pending[j + i]
<1>1. Len(pending) \in Nat
    BY LenType
<1> DEFINE k == IF SendFails(j) THEN j + 1 ELSE j
<1>2. /\ k \in 0..Len(pending) /\ k = j + Broken(j) /\ Broken(j) \in {0, 1}
      /\ Broken(j) = 0 => j = Len(pending) \/ pending[j + 1] \in Unpackable
    BY <1>1 DEF Broken, SendFails
<1>3. Tried(j) = SubSeq(pending, 1, k)
    BY DEF Tried
<1> HIDE DEF k
<1>4. /\ Tried(j) \in Seq(Msgs) /\ Len(Tried(j)) = k
      /\ \A i \in 1..k : Tried(j)[i] = pending[i]
    BY <1>2, <1>3, UpToFacts
<1>5. /\ LeftPending(j) \in Seq(Msgs) /\ Len(LeftPending(j)) = Len(pending) - j
      /\ \A i \in 1..(Len(pending) - j) : LeftPending(j)[i] = pending[j + i]
    BY FromFacts DEF LeftPending
<1>6. Len(Tried(j)) <= Len(pending)
    BY <1>1, <1>2, <1>4
<1> QED
    BY <1>2, <1>4, <1>5, <1>6

\* The messages of mrpc_us_send: those it tries of the pending ones, and its own.
LEMMA TriedAndOwn ==
    ASSUME NEW s \in Seq(Msgs), NEW m \in Msgs
    PROVE  /\ (s \o <<m>>) \in Seq(Msgs)
           /\ Len(s \o <<m>>) = Len(s) + 1
           /\ \A i \in 1..Len(s) : (s \o <<m>>)[i] = s[i]
           /\ (s \o <<m>>)[Len(s) + 1] = m
<1>1. <<m>> \in Seq(Msgs) /\ Len(<<m>>) = 1 /\ <<m>>[1] = m
    OBVIOUS
<1> DEFINE o == <<m>>
<1> HIDE DEF o
<1>2. o \in Seq(Msgs) /\ Len(o) = 1 /\ o[1] = m
    BY <1>1 DEF o
<1>3. o \in Seq(Msgs)
    BY <1>2
<1>4. /\ (s \o o) \in Seq(Msgs) /\ Len(s \o o) = Len(s) + Len(o)
      /\ \A i \in 1..Len(s) : (s \o o)[i] = s[i]
      /\ \A i \in 1..Len(o) : (s \o o)[Len(s) + i] = o[i]
    BY <1>3, ConcatFacts
<1>5. Len(s \o o) = Len(s) + 1 /\ (s \o o)[Len(s) + 1] = m
    BY <1>2, <1>4
<1> QED
    BY <1>4, <1>5 DEF o

-----------------------------------------------------------------------------
(* Types.                                                                  *)

\* The part of TypeOK about what mspc keeps of connections, and about the rest.
ConnTypes ==
    /\ sent \in [Conns -> Seq(Msgs)]
    /\ out \in [Conns -> Seq(Nat \X {1, 2})]
    /\ wire \in [Conns -> Seq(Nat \X {1, 2})]
    /\ stash \in [Conns -> SUBSET Nat]
    /\ \A c \in Conns :
          /\ stash[c] \subseteq 1..Len(sent[c])
          /\ out[c] \in Seq(PieceOf(c))
          /\ wire[c] \in Seq(PieceOf(c))

BackendTypes ==
    /\ half \in [Conns -> Nat \union {None}]
    /\ misread \in [Conns -> BOOLEAN]
    /\ back \in [Conns -> SUBSET Nat]
    /\ \A c \in Conns :
          /\ half[c] \in (1..Len(sent[c])) \union {None}
          /\ back[c] \subseteq 1..Len(sent[c])

RestTypes ==
    /\ status \in [Conns -> {"disconnected", "connecting", "connected"}]
    /\ pending \in Seq(Msgs)
    /\ pendCount \in 0..MaxPending
    /\ cur \in Conns
    /\ ret \in [Msgs -> {"none", "ok", "failed", "full"}]
    /\ delivered \in [Msgs -> Nat]
    /\ cut \in [Conns -> BOOLEAN]
    /\ errors \in Nat /\ breaks \in Nat

LEMMA TypeParts == TypeOK <=> ConnTypes /\ BackendTypes /\ RestTypes
<1>1. TypeOK => ConnTypes
    BY DEF TypeOK, ConnTypes, PieceOf
<1>2. TypeOK => BackendTypes
    BY DEF TypeOK, BackendTypes
<1>3. TypeOK => RestTypes
    BY DEF TypeOK, RestTypes
<1>4. ASSUME ConnTypes, BackendTypes, RestTypes PROVE TypeOK
  <2>1. /\ {out, wire} \subseteq [Conns -> Seq(Nat \X {1, 2})]
        /\ {stash, back} \subseteq [Conns -> SUBSET Nat]
      BY <1>4 DEF ConnTypes, BackendTypes
  <2>2. /\ sent \in [Conns -> Seq(Msgs)]
        /\ half \in [Conns -> Nat \union {None}]
        /\ misread \in [Conns -> BOOLEAN]
      BY <1>4 DEF ConnTypes, BackendTypes
  <2>3. \A c \in Conns :
          /\ stash[c] \subseteq 1..Len(sent[c])
          /\ out[c] \in Seq((1..Len(sent[c])) \X {1, 2})
          /\ wire[c] \in Seq((1..Len(sent[c])) \X {1, 2})
          /\ half[c] \in (1..Len(sent[c])) \union {None}
          /\ back[c] \subseteq 1..Len(sent[c])
      BY <1>4 DEF ConnTypes, BackendTypes, PieceOf
  <2>4. RestTypes
      BY <1>4
  <2> QED
      BY <2>1, <2>2, <2>3, <2>4 DEF TypeOK, RestTypes
<1> QED
    BY <1>1, <1>2, <1>3, <1>4

LEMMA AttemptTypes ==
    ASSUME TypeOK, NEW c \in Conns, NEW ms \in Seq(Msgs), NEW ok \in SUBSET (1..Len(ms)),
           NEW k \in Nat, Attempt(c, ms, ok, k)
    PROVE  /\ ConnTypes'
           /\ \A d \in Conns : Len(sent[d]) <= Len(sent'[d])
<1>1. /\ sent \in [Conns -> Seq(Msgs)] /\ stash \in [Conns -> SUBSET Nat]
      /\ out \in [Conns -> Seq(Nat \X {1, 2})] /\ wire \in [Conns -> Seq(Nat \X {1, 2})]
      /\ \A d \in Conns : /\ stash[d] \subseteq 1..Len(sent[d])
                          /\ out[d] \in Seq(PieceOf(d)) /\ wire[d] \in Seq(PieceOf(d))
    BY DEF TypeOK, PieceOf
<1>2. \A d \in Conns : d # c => /\ sent'[d] = sent[d] /\ stash'[d] = stash[d]
                                /\ out'[d] = out[d] /\ wire'[d] = wire[d]
    BY AttemptFacts DEF Attempted
<1>3. /\ sent'[c] \in Seq(Msgs) /\ Len(sent'[c]) = Len(sent[c]) + Len(ms)
      /\ stash'[c] \subseteq 1..Len(sent'[c])
      /\ out'[c] \in Seq(PieceOf(c)') /\ wire'[c] \in Seq(PieceOf(c)')
    BY AttemptFacts DEF Attempted
<1>4. Len(sent[c]) \in Nat /\ Len(ms) \in Nat /\ Len(sent'[c]) \in Nat
    BY <1>1, <1>3, LenType
<1>5. PieceOf(c)' \subseteq Nat \X {1, 2} /\ 1..Len(sent'[c]) \subseteq Nat
    BY <1>4 DEF PieceOf
<1>6. /\ out'[c] \in Seq(Nat \X {1, 2}) /\ wire'[c] \in Seq(Nat \X {1, 2})
      /\ stash'[c] \in SUBSET Nat
    BY <1>3, <1>5, SeqMonotonic
<1>7. /\ DOMAIN sent' = Conns /\ DOMAIN out' = Conns /\ DOMAIN wire' = Conns
      /\ DOMAIN stash' = Conns
      /\ sent' = [d \in Conns |-> sent'[d]] /\ out' = [d \in Conns |-> out'[d]]
      /\ wire' = [d \in Conns |-> wire'[d]] /\ stash' = [d \in Conns |-> stash'[d]]
    BY <1>1 DEF Attempt, Stashed
<1>8. \A d \in Conns : /\ sent'[d] \in Seq(Msgs) /\ out'[d] \in Seq(Nat \X {1, 2})
                       /\ wire'[d] \in Seq(Nat \X {1, 2}) /\ stash'[d] \in SUBSET Nat
    BY <1>1, <1>2, <1>3, <1>6
<1>9. /\ sent' \in [Conns -> Seq(Msgs)] /\ out' \in [Conns -> Seq(Nat \X {1, 2})]
      /\ wire' \in [Conns -> Seq(Nat \X {1, 2})] /\ stash' \in [Conns -> SUBSET Nat]
    BY <1>7, <1>8
<1>10. ASSUME NEW d \in Conns
       PROVE  /\ stash'[d] \subseteq 1..Len(sent'[d])
              /\ out'[d] \in Seq(PieceOf(d)') /\ wire'[d] \in Seq(PieceOf(d)')
              /\ Len(sent[d]) <= Len(sent'[d])
  <2>1. CASE d = c
      BY <1>3, <1>4, <2>1
  <2>2. CASE d # c
    <3>1. Len(sent[d]) \in Nat
        BY <1>1, LenType
    <3>2. PieceOf(d)' = PieceOf(d)
        BY <1>2, <2>2 DEF PieceOf
    <3> QED
        BY <1>1, <1>2, <2>2, <3>1, <3>2
  <2> QED
      BY <2>1, <2>2
<1>11. \A d \in Conns : /\ (stash[d] \subseteq 1..Len(sent[d]))'
                        /\ (out[d] \in Seq(PieceOf(d)))' /\ (wire[d] \in Seq(PieceOf(d)))'
    BY <1>10 DEF PieceOf
<1> QED
    BY <1>9, <1>10, <1>11 DEF ConnTypes

\* What the backend has is kept when a connection is given more to send.
LEMMA BackendKept ==
    ASSUME ConnTypes, ConnTypes', BackendTypes, UNCHANGED <<half, misread, back>>,
           \A d \in Conns : Len(sent[d]) <= Len(sent'[d])
    PROVE  BackendTypes'
<1>1. ASSUME NEW d \in Conns
      PROVE  /\ half[d] \in (1..Len(sent'[d])) \union {None}
             /\ back[d] \subseteq 1..Len(sent'[d])
  <2>1. sent[d] \in Seq(Msgs) /\ sent'[d] \in Seq(Msgs)
      BY DEF ConnTypes
  <2>2. Len(sent[d]) \in Nat /\ Len(sent'[d]) \in Nat
      BY <2>1, LenType
  <2>3. 1..Len(sent[d]) \subseteq 1..Len(sent'[d])
      BY <2>2
  <2> QED
      BY <2>3 DEF BackendTypes
<1> QED
    BY <1>1 DEF BackendTypes

LEMMA NatBounds == MaxPending \in Nat /\ MaxErrors \in Nat /\ MaxBreaks \in Nat
BY UpstreamAssumption

LEMMA TypeInit == Init => TypeOK
<1> SUFFICES ASSUME Init PROVE TypeOK
    OBVIOUS
<1>1. 0 \in Conns
    BY UpstreamAssumption DEF Conns
<1>2. ConnTypes
  <2>1. \A c \in Conns : sent[c] = <<>> /\ out[c] = <<>> /\ wire[c] = <<>> /\ stash[c] = {}
      BY DEF Init
  <2>2. \A S : <<>> \in Seq(S)
      OBVIOUS
  <2> QED
      BY <2>1, <2>2 DEF Init, ConnTypes
<1>3. BackendTypes
    BY DEF Init, BackendTypes
<1>4. RestTypes
    BY <1>1, NatBounds DEF Init, RestTypes
<1> QED
    BY <1>2, <1>3, <1>4, TypeParts

\* Attempts to connect start during a scan, and change nothing else.
LEMMA ScanTypes ==
    ASSUME RestTypes, NEW n \in Nat, Scan(n)
    PROVE  /\ status' \in [Conns -> {"disconnected", "connecting", "connected"}]
           /\ \A c \in Conns : status'[c] = "connected" <=> status[c] = "connected"
<1>1. PICK T \in SUBSET {c \in Passed(n) : status[c] = "disconnected"} :
        status' = [c \in Conns |-> IF c \in T THEN "connecting" ELSE status[c]]
    BY DEF Scan
<1>2. \A c \in T : status[c] = "disconnected"
    OBVIOUS
<1>3. \A c \in Conns : status'[c] = IF c \in T THEN "connecting" ELSE status[c]
    BY <1>1
<1> QED
    BY <1>1, <1>2, <1>3 DEF RestTypes

LEMMA NextConn ==
    ASSUME cur \in Conns, NEW n \in Nat
    PROVE  (cur + n) % ConnCount \in Conns
<1>1. ConnCount \in Nat /\ ConnCount > 0 /\ cur \in Nat
    BY UpstreamAssumption DEF Conns
<1> QED
    BY <1>1 DEF Conns

\* What UsSend does, with the connection it takes, the messages it tries and the
\* number of pieces that its socket takes.
UsSent(m, c, j, fails, k) ==
    LET ms == Tried(j) \o <<m>> IN
    /\ GoesOut(j)
    /\ Attempt(c, ms, (1..j) \union (IF fails = 0 THEN {Len(ms)} ELSE {}), k)
    /\ errors' = errors + Broken(j) + fails
    /\ pending' = LeftPending(j)
    /\ ret' = [ret EXCEPT ![m] = IF fails = 1 THEN "failed" ELSE "ok"]
    /\ status[c] = "connected"
    /\ \A d \in Conns : status'[d] = "connected" <=> status[d] = "connected"
    /\ cur' \in Conns
    /\ status' \in [Conns -> {"disconnected", "connecting", "connected"}]
    /\ UNCHANGED <<pendCount, half, misread, back, delivered, cut, breaks>>

LEMMA UsSendFacts ==
    ASSUME TypeOK, NEW m \in Msgs, NEW n \in Conns, UsSend(m, n)
    PROVE  /\ ret[m] = "none"
           /\ \E c \in Conns, j \in 0..Len(pending), fails \in {0, 1}, k \in Nat :
                 /\ UsSent(m, c, j, fails, k)
                 /\ (Tried(j) \o <<m>>) \in Seq(Msgs)
                 /\ Len(Tried(j) \o <<m>>) = j + Broken(j) + 1
                 /\ (1..j) \union (IF fails = 0 THEN {Len(Tried(j) \o <<m>>)} ELSE {})
                       \in SUBSET (1..Len(Tried(j) \o <<m>>))
<1> DEFINE c == (cur + n) % ConnCount
<1>1. RestTypes /\ ConnTypes /\ pending \in Seq(Msgs)
    BY TypeParts DEF RestTypes
<1>2. n \in Nat /\ n + 1 \in Nat /\ cur \in Conns /\ cur + n + 1 = cur + (n + 1)
    BY <1>1, UpstreamAssumption DEF RestTypes, Conns
<1>3. c \in Conns /\ (cur + n + 1) % ConnCount \in Conns
    BY <1>2, NextConn
<1>4. /\ ret[m] = "none" /\ status[c] = "connected" /\ Scan(n)
      /\ cur' = (cur + n + 1) % ConnCount
      /\ UNCHANGED <<pendCount, half, misread, back, delivered, cut, breaks>>
    BY DEF UsSend, NextUp
<1>5. PICK j \in 0..Len(pending), fails \in {0, 1} :
          /\ GoesOut(j)
          /\ errors' = errors + Broken(j) + fails
          /\ \E k \in 0..(MaxPieces(c, Len(Tried(j) \o <<m>>)) - fails) :
                Attempt(c, Tried(j) \o <<m>>,
                        (1..j) \union (IF fails = 0 THEN {Len(Tried(j) \o <<m>>)} ELSE {}), k)
          /\ pending' = LeftPending(j)
          /\ ret' = [ret EXCEPT ![m] = IF fails = 1 THEN "failed" ELSE "ok"]
    BY DEF UsSend, NextUp
<1> DEFINE ms == Tried(j) \o <<m>>
           ok == (1..j) \union (IF fails = 0 THEN {Len(ms)} ELSE {})
<1>6. PICK k \in 0..(MaxPieces(c, Len(ms)) - fails) : Attempt(c, ms, ok, k)
    BY <1>5
<1>7. k \in Nat
    OBVIOUS
<1>8. /\ status' \in [Conns -> {"disconnected", "connecting", "connected"}]
      /\ \A d \in Conns : status'[d] = "connected" <=> status[d] = "connected"
    BY <1>1, <1>2, <1>4, ScanTypes
<1>9. /\ Tried(j) \in Seq(Msgs) /\ Len(Tried(j)) = j + Broken(j) /\ Broken(j) \in {0, 1}
    BY <1>1, TriedFacts
<1>10. ms \in Seq(Msgs) /\ Len(ms) = j + Broken(j) + 1
    BY <1>9, TriedAndOwn
<1>11. ok \in SUBSET (1..Len(ms))
    BY <1>9, <1>10
<1>12. UsSent(m, c, j, fails, k)
    BY <1>3, <1>4, <1>5, <1>6, <1>8 DEF UsSent
<1> QED
    BY <1>3, <1>4, <1>7, <1>10, <1>11, <1>12

\* What mrpc_us_send does when a connection is up, for the proofs that follow.
LEMMA UsSendTypes ==
    ASSUME TypeOK, NEW m \in Msgs, NEW n \in Conns, UsSend(m, n)
    PROVE  TypeOK'
<1>1. PICK c \in Conns, j \in 0..Len(pending), fails \in {0, 1}, k \in Nat :
          /\ UsSent(m, c, j, fails, k)
          /\ (Tried(j) \o <<m>>) \in Seq(Msgs)
          /\ (1..j) \union (IF fails = 0 THEN {Len(Tried(j) \o <<m>>)} ELSE {})
                \in SUBSET (1..Len(Tried(j) \o <<m>>))
    BY UsSendFacts
<1> DEFINE ms == Tried(j) \o <<m>>
           ok == (1..j) \union (IF fails = 0 THEN {Len(ms)} ELSE {})
<1>2. ms \in Seq(Msgs) /\ ok \in SUBSET (1..Len(ms)) /\ Attempt(c, ms, ok, k)
    BY <1>1 DEF UsSent
<1>3. ConnTypes /\ BackendTypes /\ RestTypes
    BY TypeParts
<1> HIDE DEF ms, ok
<1>4. ConnTypes' /\ \A d \in Conns : Len(sent[d]) <= Len(sent'[d])
    BY <1>2, AttemptTypes
<1>5. UNCHANGED <<half, misread, back>>
    BY <1>1 DEF UsSent
<1>6. BackendTypes'
    BY <1>3, <1>4, <1>5, BackendKept
<1>7. LeftPending(j) \in Seq(Msgs) /\ Broken(j) \in {0, 1}
    BY <1>3, TriedFacts DEF RestTypes
<1>8. RestTypes'
  <2>1. /\ status' \in [Conns -> {"disconnected", "connecting", "connected"}]
        /\ cur' \in Conns
        /\ UNCHANGED <<pendCount, delivered, cut, breaks>>
        /\ pending' = LeftPending(j) /\ errors' = errors + Broken(j) + fails
      BY <1>1 DEF UsSent
  <2>2. ret' \in [Msgs -> {"none", "ok", "failed", "full"}]
      BY <1>1, <1>3 DEF UsSent, RestTypes
  <2>3. errors' \in Nat
      BY <1>3, <1>7, <2>1 DEF RestTypes
  <2> QED
      BY <1>3, <1>7, <2>1, <2>2, <2>3 DEF RestTypes
<1>9. TypeOK'
    BY <1>4, <1>6, <1>8, TypeParts, PTL
<1> QED
    BY <1>9

\* The pending messages alone are sent by a connection that comes up, and by
\* mrpc_us_send for a message that cannot be packed.
SendsPending ==
    \/ \E c \in Conns : Connected(c)
    \/ \E m \in Msgs, n \in Conns : UsSendUnpacked(m, n)

PendingWent(c, j, k) ==
    /\ PendingSent(c, j, k)
    /\ status' \in [Conns -> {"disconnected", "connecting", "connected"}]
    /\ cur' \in Conns
    /\ ret' \in [Msgs -> {"none", "ok", "failed", "full"}]
    /\ \A m \in Msgs : ret'[m] \in {"none", "ok"} => ret[m] = ret'[m]
    /\ UNCHANGED <<pendCount, half, misread, back, delivered, cut, breaks>>

LEMMA PendingFacts ==
    ASSUME TypeOK, SendsPending
    PROVE  \E c \in Conns, j \in 0..Len(pending), k \in Nat :
              /\ PendingWent(c, j, k)
              /\ Tried(j) \in Seq(Msgs)
              /\ 1..j \in SUBSET (1..Len(Tried(j)))
<1>1. RestTypes /\ pending \in Seq(Msgs)
    BY TypeParts DEF RestTypes
<1>2. ASSUME NEW j \in 0..Len(pending)
      PROVE  Tried(j) \in Seq(Msgs) /\ 1..j \in SUBSET (1..Len(Tried(j)))
  <2>1. /\ Tried(j) \in Seq(Msgs) /\ Len(Tried(j)) = j + Broken(j) /\ Broken(j) \in {0, 1}
      BY <1>1, TriedFacts
  <2> QED
      BY <2>1
<1>3. ASSUME NEW c \in Conns, Connected(c)
      PROVE  \E j \in 0..Len(pending), k \in Nat : PendingWent(c, j, k)
  <2>1. PICK j \in 0..Len(pending) :
            \E k \in 0..MaxPieces(c, Len(Tried(j))) : PendingSent(c, j, k)
      BY <1>3 DEF Connected
  <2>2. PICK k \in 0..MaxPieces(c, Len(Tried(j))) : PendingSent(c, j, k)
      BY <2>1
  <2>3. k \in Nat
      OBVIOUS
  <2>4. /\ status' = [status EXCEPT ![c] = "connected"]
        /\ UNCHANGED <<pendCount, cur, ret, half, misread, back, delivered, cut, breaks>>
      BY <1>3 DEF Connected
  <2>5. PendingWent(c, j, k)
      BY <1>1, <2>2, <2>4 DEF PendingWent, RestTypes
  <2> QED
      BY <2>3, <2>5
<1>4. ASSUME NEW m \in Msgs, NEW n \in Conns, UsSendUnpacked(m, n)
      PROVE  \E c \in Conns, j \in 0..Len(pending), k \in Nat : PendingWent(c, j, k)
  <2> DEFINE c == (cur + n) % ConnCount
             K(j) == IF Tried(j) = <<>> THEN 0 ELSE MaxPieces(c, Len(Tried(j))) - Broken(j)
  <2>1. /\ NextUp(n) /\ ret' = [ret EXCEPT ![m] = "failed"]
        /\ \E j \in 0..Len(pending) : \E k \in 0..K(j) : PendingSent(c, j, k)
        /\ UNCHANGED <<pendCount, half, misread, back, delivered, cut, breaks>>
      BY <1>4 DEF UsSendUnpacked
  <2>2. n \in Nat /\ n + 1 \in Nat /\ cur \in Conns /\ cur + n + 1 = cur + (n + 1)
      BY <1>1, UpstreamAssumption DEF RestTypes, Conns
  <2>3. c \in Conns /\ (cur + n + 1) % ConnCount \in Conns
      BY <2>2, NextConn
  <2> HIDE DEF c, K
  <2>4. PICK j \in 0..Len(pending) : \E k \in 0..K(j) : PendingSent(c, j, k)
      BY <2>1
  <2>5. PICK k \in 0..K(j) : PendingSent(c, j, k)
      BY <2>4
  <2>6. k \in Nat
      OBVIOUS
  <2>7. Scan(n) /\ cur' \in Conns
      BY <2>1, <2>3 DEF NextUp
  <2>8. status' \in [Conns -> {"disconnected", "connecting", "connected"}]
      BY <1>1, <2>2, <2>7, ScanTypes
  <2>9. /\ ret' \in [Msgs -> {"none", "ok", "failed", "full"}]
        /\ \A x \in Msgs : ret'[x] \in {"none", "ok"} => ret[x] = ret'[x]
      BY <1>1, <2>1 DEF RestTypes
  <2>10. PendingWent(c, j, k)
      BY <2>1, <2>5, <2>7, <2>8, <2>9 DEF PendingWent
  <2> QED
      BY <2>3, <2>6, <2>10
<1> QED
    BY <1>2, <1>3, <1>4 DEF SendsPending

LEMMA PendingTypes ==
    ASSUME TypeOK, SendsPending
    PROVE  TypeOK'
<1>1. PICK c \in Conns, j \in 0..Len(pending), k \in Nat :
              /\ PendingWent(c, j, k)
              /\ Tried(j) \in Seq(Msgs)
              /\ 1..j \in SUBSET (1..Len(Tried(j)))
    BY PendingFacts
<1>2. /\ Attempt(c, Tried(j), 1..j, k)
      /\ errors' = errors + Broken(j) /\ pending' = LeftPending(j)
    BY <1>1 DEF PendingWent, PendingSent
<1>3. ConnTypes /\ BackendTypes /\ RestTypes
    BY TypeParts
<1>4. ConnTypes' /\ \A d \in Conns : Len(sent[d]) <= Len(sent'[d])
    BY <1>1, <1>2, AttemptTypes
<1>5. UNCHANGED <<half, misread, back>>
    BY <1>1 DEF PendingWent
<1>6. BackendTypes'
    BY <1>3, <1>4, <1>5, BackendKept
<1>7. LeftPending(j) \in Seq(Msgs) /\ Broken(j) \in {0, 1}
    BY <1>3, TriedFacts DEF RestTypes
<1>8. RestTypes'
    BY <1>1, <1>2, <1>3, <1>7 DEF PendingWent, RestTypes
<1>9. TypeOK'
    BY <1>4, <1>6, <1>8, TypeParts, PTL
<1> QED
    BY <1>9

\* EvOut is an attempt to send nothing new.
LEMMA EvOutFacts ==
    ASSUME TypeOK, NEW c \in Conns, EvOut(c)
    PROVE  /\ <<>> \in Seq(Msgs) /\ Len(<<>>) = 0
           /\ {} \in SUBSET (1..Len(<<>>))
           /\ \E k \in Nat : Attempt(c, <<>>, {}, k)
           /\ UNCHANGED <<status, pending, pendCount, cur, ret, half, misread, back,
                          delivered, cut, errors, breaks>>
BY DEF EvOut

LEMMA EvOutTypes ==
    ASSUME TypeOK, NEW c \in Conns, EvOut(c)
    PROVE  TypeOK'
<1>1. PICK k \in Nat : Attempt(c, <<>>, {}, k)
    BY EvOutFacts
<1>2. ConnTypes /\ BackendTypes /\ RestTypes
    BY TypeParts
<1>3. <<>> \in Seq(Msgs) /\ {} \in SUBSET (1..Len(<<>>))
    BY EvOutFacts
<1>4. ConnTypes' /\ \A d \in Conns : Len(sent[d]) <= Len(sent'[d])
    BY <1>1, <1>3, AttemptTypes
<1>5. UNCHANGED <<status, pending, pendCount, cur, ret, half, misread, back,
                  delivered, cut, errors, breaks>>
    BY EvOutFacts
<1>6. BackendTypes'
    BY <1>2, <1>4, <1>5, BackendKept
<1>7. RestTypes'
    BY <1>2, <1>5 DEF RestTypes
<1> QED
    BY <1>4, <1>6, <1>7, TypeParts, PTL

\* Messages that are queued or refused.
LEMMA QueueTypes ==
    ASSUME TypeOK, NEW m \in Msgs, UsQueue(m) \/ UsReject(m)
    PROVE  TypeOK'
<1>1. ConnTypes /\ BackendTypes /\ RestTypes
    BY TypeParts
<1>2. /\ Scan(ConnCount) /\ UNCHANGED <<sent, out, wire, stash, half, misread, back>>
      /\ UNCHANGED <<cur, delivered, cut, errors, breaks>>
    BY DEF UsQueue, UsReject, svrVars
<1>3. ConnTypes' /\ BackendTypes'
    BY <1>1, <1>2 DEF ConnTypes, BackendTypes, PieceOf
<1>4. status' \in [Conns -> {"disconnected", "connecting", "connected"}]
    BY <1>1, <1>2, ScanTypes, UpstreamAssumption
<1>5. /\ pending' \in Seq(Msgs) /\ pendCount' \in 0..MaxPending
      /\ ret' \in [Msgs -> {"none", "ok", "failed", "full"}]
  <2>1. CASE UsQueue(m)
    <3>1. pending' = Append(pending, m) /\ pending \in Seq(Msgs)
        BY <1>1, <2>1 DEF UsQueue, RestTypes
    <3>2. pendCount' = pendCount + 1 /\ ~(pendCount >= MaxPending) /\ pendCount \in 0..MaxPending
        BY <1>1, <2>1 DEF UsQueue, RestTypes, Full
    <3>3. pendCount' \in 0..MaxPending
        BY <3>2, NatBounds
    <3>4. ret' \in [Msgs -> {"none", "ok", "failed", "full"}]
        BY <1>1, <2>1 DEF UsQueue, RestTypes
    <3> QED
        BY <3>1, <3>3, <3>4
  <2>2. CASE UsReject(m)
      BY <1>1, <2>2 DEF UsReject, RestTypes
  <2> QED
      BY <2>1, <2>2
<1>6. RestTypes'
    BY <1>1, <1>2, <1>4, <1>5 DEF RestTypes
<1> QED
    BY <1>3, <1>6, TypeParts, PTL

\* Events that only take away.
LEMMA LossTypes ==
    ASSUME TypeOK, NEW c \in Conns, ConnectFails(c) \/ EvIn(c) \/ Break(c)
    PROVE  TypeOK'
<1>1. ConnTypes /\ BackendTypes /\ RestTypes
    BY TypeParts
<1>2. CASE ConnectFails(c)
  <2>1. ConnTypes' /\ BackendTypes'
      BY <1>1, <1>2 DEF ConnectFails, svrVars, ConnTypes, BackendTypes, PieceOf
  <2>2. RestTypes'
      BY <1>1, <1>2 DEF ConnectFails, svrVars, RestTypes
  <2> QED
      BY <2>1, <2>2, TypeParts, PTL
<1>3. CASE EvIn(c)
  <2>1. PICK s \in back[c] : /\ back' = [back EXCEPT ![c] = @ \ {s}]
                             /\ stash' = [stash EXCEPT ![c] = @ \ {s}]
      BY <1>3 DEF EvIn, Unstashed
  <2>2. UNCHANGED <<sent, out, wire, half, misread>>
      BY <1>3 DEF EvIn
  <2>3. /\ back' \in [Conns -> SUBSET Nat] /\ \A d \in Conns : back'[d] \subseteq back[d]
        /\ stash' \in [Conns -> SUBSET Nat] /\ \A d \in Conns : stash'[d] \subseteq stash[d]
      BY <1>1, <2>1 DEF ConnTypes, BackendTypes
  <2>4. ConnTypes'
      BY <1>1, <2>2, <2>3 DEF ConnTypes, PieceOf
  <2>5. BackendTypes'
      BY <1>1, <2>2, <2>3 DEF BackendTypes
  <2>6. RestTypes'
      BY <1>1, <1>3 DEF EvIn, RestTypes
  <2> QED
      BY <2>4, <2>5, <2>6, TypeParts, PTL
<1>4. CASE Break(c)
  <2>1. /\ half' = [half EXCEPT ![c] = None] /\ misread' = [misread EXCEPT ![c] = FALSE]
        /\ back' = [back EXCEPT ![c] = {}] /\ wire' = [wire EXCEPT ![c] = <<>>]
        /\ status' = [status EXCEPT ![c] = "disconnected"]
        /\ breaks' = IF misread[c] THEN breaks ELSE breaks + 1
        /\ UNCHANGED <<sent, out, stash, pending, pendCount, cur, ret, delivered, errors>>
        /\ cut' = [cut EXCEPT ![c] = out[c] # <<>> /\ Head(out[c])[2] = 2]
      BY <1>4 DEF Break, Closed
  <2>2. /\ <<>> \in Seq(Nat \X {1, 2}) /\ <<>> \in Seq(PieceOf(c))
      OBVIOUS
  <2>3. /\ wire' \in [Conns -> Seq(Nat \X {1, 2})]
        /\ \A d \in Conns : wire'[d] \in Seq(PieceOf(d))
      BY <1>1, <2>1, <2>2 DEF ConnTypes
  <2>4. ConnTypes'
      BY <1>1, <2>1, <2>3 DEF ConnTypes, PieceOf
  <2>5. BackendTypes'
      BY <1>1, <2>1 DEF BackendTypes
  <2>6. cut' \in [Conns -> BOOLEAN]
    <3> DEFINE b == out[c] # <<>> /\ Head(out[c])[2] = 2
    <3>1. b \in BOOLEAN
        OBVIOUS
    <3> HIDE DEF b
    <3>2. cut' = [cut EXCEPT ![c] = b]
        BY <2>1 DEF b
    <3> QED
        BY <1>1, <3>1, <3>2 DEF RestTypes
  <2>7. RestTypes'
      BY <1>1, <2>1, <2>6 DEF RestTypes
  <2> QED
      BY <2>4, <2>5, <2>7, TypeParts, PTL
<1> QED
    BY <1>2, <1>3, <1>4

\* The piece that the backend reads next.
LEMMA HeadFacts ==
    ASSUME TypeOK, NEW c \in Conns, wire[c] # <<>>
    PROVE  /\ Head(wire[c]) = wire[c][1]
           /\ Head(wire[c]) = <<Head(wire[c])[1], Head(wire[c])[2]>>
           /\ Head(wire[c])[1] \in 1..Len(sent[c])
           /\ Head(wire[c])[2] \in {1, 2}
           /\ sent[c] \in Seq(Msgs)
           /\ sent[c][Head(wire[c])[1]] \in Msgs
           /\ Len(wire[c]) \in Nat \ {0}
           /\ Tail(wire[c]) \in Seq(PieceOf(c))
           /\ Tail(wire[c]) \in Seq(Nat \X {1, 2})
           /\ Len(Tail(wire[c])) = Len(wire[c]) - 1
           /\ \A i \in 1..(Len(wire[c]) - 1) : Tail(wire[c])[i] = wire[c][i + 1]
<1>1. wire[c] \in Seq(PieceOf(c)) /\ sent[c] \in Seq(Msgs)
    BY TypeParts DEF ConnTypes
<1> DEFINE w == wire[c]
           S == PieceOf(c)
<1>2. w \in Seq(S) /\ w # <<>>
    BY <1>1
<1>3. w \in Seq(Nat \X {1, 2})
    BY TypeParts DEF ConnTypes
<1> HIDE DEF w, S
<1>4. /\ Head(w) = w[1] /\ Head(w) \in S /\ Len(w) \in Nat \ {0}
      /\ Tail(w) \in Seq(S) /\ Len(Tail(w)) = Len(w) - 1
      /\ \A i \in 1..(Len(w) - 1) : Tail(w)[i] = w[i + 1]
    BY <1>2
<1>5. Tail(w) \in Seq(Nat \X {1, 2})
    BY <1>2, <1>3
<1>6. Head(w) \in (1..Len(sent[c])) \X {1, 2}
    BY <1>4 DEF S, PieceOf
<1>7. /\ Head(w) = <<Head(w)[1], Head(w)[2]>> /\ Head(w)[1] \in 1..Len(sent[c])
      /\ Head(w)[2] \in {1, 2}
    BY <1>6
<1>8. sent[c][Head(w)[1]] \in Msgs
    BY <1>1, <1>7
<1> QED
    BY <1>1, <1>4, <1>5, <1>7, <1>8 DEF w, S

\* What the backend does with a piece: it begins a message, ends one, or finds the
\* stream out of step.
Begins(c, s) ==
    /\ Head(wire[c])[2] = 1 /\ half[c] = None
    /\ half' = [half EXCEPT ![c] = s]
    /\ UNCHANGED <<misread, back, delivered>>

Ends(c, s) ==
    /\ Head(wire[c])[2] = 2 /\ half[c] = s
    /\ half' = [half EXCEPT ![c] = None]
    /\ back' = [back EXCEPT ![c] = @ \union {s}]
    /\ delivered' = [delivered EXCEPT ![sent[c][s]] = @ + 1]
    /\ UNCHANGED misread

Misreads(c, s) ==
    /\ ~(Head(wire[c])[2] = 1 /\ half[c] = None)
    /\ ~(Head(wire[c])[2] = 2 /\ half[c] = s)
    /\ misread' = [misread EXCEPT ![c] = TRUE]
    /\ UNCHANGED <<half, back, delivered>>

LEMMA BackendReadsFacts ==
    ASSUME NEW c, BackendReads(c)
    PROVE  /\ wire[c] # <<>> /\ ~misread[c]
           /\ wire' = [wire EXCEPT ![c] = Tail(@)]
           /\ UNCHANGED <<cliVars, cut, errors, breaks>>
           /\ \/ Begins(c, Head(wire[c])[1])
              \/ Ends(c, Head(wire[c])[1])
              \/ Misreads(c, Head(wire[c])[1])
BY DEF BackendReads, Begins, Ends, Misreads

LEMMA BackendReadsTypes ==
    ASSUME TypeOK, NEW c \in Conns, BackendReads(c)
    PROVE  TypeOK'
<1> DEFINE s == Head(wire[c])[1]
<1>1. ConnTypes /\ BackendTypes /\ RestTypes
    BY TypeParts
<1>2. /\ wire[c] # <<>> /\ wire' = [wire EXCEPT ![c] = Tail(@)]
      /\ UNCHANGED <<status, out, sent, stash, pending, pendCount, cur, ret, cut, errors,
                     breaks>>
    BY BackendReadsFacts DEF cliVars
<1>3. /\ s \in 1..Len(sent[c]) /\ sent[c][s] \in Msgs
      /\ Tail(wire[c]) \in Seq(PieceOf(c)) /\ Tail(wire[c]) \in Seq(Nat \X {1, 2})
    BY <1>2, HeadFacts
<1>4. /\ wire' \in [Conns -> Seq(Nat \X {1, 2})]
      /\ \A d \in Conns : wire'[d] \in Seq(PieceOf(d))
    BY <1>1, <1>2, <1>3 DEF ConnTypes
<1>5. ConnTypes'
    BY <1>1, <1>2, <1>4 DEF ConnTypes, PieceOf
<1> HIDE DEF s
<1>6. s \in Nat
    BY <1>3
<1>7. Begins(c, s) \/ Ends(c, s) \/ Misreads(c, s)
    BY BackendReadsFacts DEF s
<1>8. CASE Begins(c, s)
  <2>1. half' \in [Conns -> Nat \union {None}]
        /\ \A d \in Conns : half'[d] \in (1..Len(sent[d])) \union {None}
      BY <1>1, <1>3, <1>6, <1>8 DEF Begins, BackendTypes
  <2>2. BackendTypes'
      BY <1>1, <1>2, <1>8, <2>1 DEF Begins, BackendTypes
  <2>3. RestTypes'
      BY <1>1, <1>2, <1>8 DEF Begins, RestTypes
  <2> QED
      BY <1>5, <2>2, <2>3, TypeParts, PTL
<1>9. CASE Ends(c, s)
  <2>1. half' \in [Conns -> Nat \union {None}]
        /\ \A d \in Conns : half'[d] \in (1..Len(sent[d])) \union {None}
      BY <1>1, <1>9 DEF Ends, BackendTypes
  <2>2. back' \in [Conns -> SUBSET Nat] /\ \A d \in Conns : back'[d] \subseteq 1..Len(sent[d])
      BY <1>1, <1>3, <1>6, <1>9 DEF Ends, BackendTypes
  <2>3. BackendTypes'
      BY <1>1, <1>2, <1>9, <2>1, <2>2 DEF Ends, BackendTypes
  <2>4. delivered' \in [Msgs -> Nat]
      BY <1>1, <1>3, <1>9 DEF Ends, RestTypes
  <2>5. RestTypes'
      BY <1>1, <1>2, <2>4 DEF RestTypes
  <2> QED
      BY <1>5, <2>3, <2>5, TypeParts, PTL
<1>10. CASE Misreads(c, s)
  <2>1. BackendTypes'
      BY <1>1, <1>2, <1>10 DEF Misreads, BackendTypes
  <2>2. RestTypes'
      BY <1>1, <1>2, <1>10 DEF Misreads, RestTypes
  <2> QED
      BY <1>5, <2>1, <2>2, TypeParts, PTL
<1> QED
    BY <1>7, <1>8, <1>9, <1>10

LEMMA TypeStep == TypeOK /\ [Next]_vars => TypeOK'
<1> SUFFICES ASSUME TypeOK, [Next]_vars PROVE TypeOK'
    OBVIOUS
<1>1. ASSUME NEW m \in Msgs, NEW n \in Conns, UsSend(m, n) PROVE TypeOK'
    BY <1>1, UsSendTypes
<1>2. ASSUME NEW m \in Msgs, UsQueue(m) \/ UsReject(m) PROVE TypeOK'
    BY <1>2, QueueTypes
<1>3. ASSUME SendsPending PROVE TypeOK'
    BY <1>3, PendingTypes
<1>4. ASSUME NEW c \in Conns, EvOut(c) PROVE TypeOK'
    BY <1>4, EvOutTypes
<1>5. ASSUME NEW c \in Conns, ConnectFails(c) \/ EvIn(c) \/ Break(c) PROVE TypeOK'
    BY <1>5, LossTypes
<1>6. ASSUME NEW c \in Conns, BackendReads(c) PROVE TypeOK'
    BY <1>6, BackendReadsTypes
<1>7. CASE UNCHANGED vars
    BY <1>7 DEF TypeOK, vars, cliVars, svrVars
<1> QED
    BY <1>1, <1>2, <1>3, <1>4, <1>5, <1>6, <1>7 DEF Next, SendsPending

\* Type correctness: the sequence numbers in the output buffers, in the stashes, on
\* the wire and in responses are all numbers that mspc gave out, and the count of
\* pending messages never passes MRPC_MAX_PENDING.
THEOREM UpstreamTypeCorrect == Spec => []TypeOK
BY TypeInit, TypeStep, PTL DEF Spec

-----------------------------------------------------------------------------
(* What is left pending while a connection is up.                          *)

\* The list is empty, or one that cannot be packed is first.
Blocked(s) == s = <<>> \/ Head(s) \in Unpackable

LEMMA AllTried ==
    ASSUME TypeOK, NEW j \in 0..Len(pending), errors + Broken(j) = 0
    PROVE  /\ errors = 0 /\ Broken(j) = 0 /\ Len(Tried(j)) = j
           /\ Blocked(LeftPending(j))
<1>1. pending \in Seq(Msgs) /\ errors \in Nat
    BY TypeParts DEF RestTypes
<1>2. /\ Broken(j) \in {0, 1}
      /\ Broken(j) = 0 => j = Len(pending) \/ pending[j + 1] \in Unpackable
      /\ Len(Tried(j)) = j + Broken(j)
      /\ LeftPending(j) \in Seq(Msgs) /\ Len(LeftPending(j)) = Len(pending) - j
      /\ \A i \in 1..(Len(pending) - j) : LeftPending(j)[i] = pending[j + i]
    BY <1>1, TriedFacts
<1>3. errors = 0 /\ Broken(j) = 0 /\ Len(Tried(j)) = j
  <2>1. Broken(j) = 0 \/ Broken(j) = 1
      BY DEF Broken
  <2>2. errors \in Nat
      BY <1>1
  <2>3. errors = 0 /\ Broken(j) = 0
      BY <2>1, <2>2
  <2> QED
      BY <1>2, <2>3
<1>4. CASE j = Len(pending)
  <2>1. Len(LeftPending(j)) = 0
      BY <1>2, <1>4
  <2>2. LeftPending(j) = <<>>
      BY <1>2, <2>1
  <2> QED
      BY <1>3, <2>2 DEF Blocked
<1>5. CASE j # Len(pending) /\ pending[j + 1] \in Unpackable
  <2>1. Len(pending) \in Nat
      BY <1>1, LenType
  <2>2. 1 \in 1..(Len(pending) - j)
      BY <1>5, <2>1
  <2>3. LeftPending(j)[1] \in Unpackable
      BY <1>2, <1>5, <2>2
  <2>4. Head(LeftPending(j)) = LeftPending(j)[1]
    <3>1. Len(LeftPending(j)) >= 1
        BY <1>2, <1>5, <2>1
    <3> DEFINE q == LeftPending(j)
    <3> HIDE DEF q
    <3>2. q \in Seq(Msgs) /\ q # <<>> => Head(q) = q[1]
        OBVIOUS
    <3>3. q # <<>>
      <4>1. Len(<<>>) = 0
          OBVIOUS
      <4> QED
          BY <3>1, <4>1 DEF q
    <3> QED
        BY <1>2, <3>2, <3>3 DEF q
  <2> QED
      BY <1>3, <2>3, <2>4 DEF Blocked
<1> QED
    BY <1>2, <1>3, <1>4, <1>5

LEMMA PendingGoesOutStep == TypeOK /\ PendingGoesOut /\ [Next]_vars => PendingGoesOut'
<1> SUFFICES ASSUME TypeOK, PendingGoesOut, [Next]_vars,
                    errors' = 0, NEW d \in Conns, status'[d] = "connected"
             PROVE  Blocked(pending')
    BY DEF PendingGoesOut, Blocked
<1>1. /\ status \in [Conns -> {"disconnected", "connecting", "connected"}]
      /\ errors \in Nat /\ RestTypes
    BY TypeParts DEF RestTypes
<1>2. ASSUME NEW m \in Msgs, NEW n \in Conns, UsSend(m, n) PROVE Blocked(pending')
  <2>1. PICK c \in Conns, j \in 0..Len(pending), fails \in {0, 1}, k \in Nat :
            UsSent(m, c, j, fails, k)
      BY <1>2, UsSendFacts
  <2>2. errors' = errors + Broken(j) + fails /\ pending' = LeftPending(j)
      BY <2>1 DEF UsSent
  <2>3. (Broken(j) = 0 \/ Broken(j) = 1) /\ (fails = 0 \/ fails = 1)
      BY DEF Broken
  <2>4. errors \in Nat
      BY <1>1
  <2>5. errors + Broken(j) + fails = 0
      BY <2>2
  <2>6. errors + Broken(j) = 0
    <3>1. CASE fails = 0
      <4>1. errors + Broken(j) + 0 = 0
          BY <2>5, <3>1
      <4> QED
          BY <2>3, <2>4, <4>1
    <3>2. CASE fails = 1
      <4>1. errors + Broken(j) + 1 = 0
          BY <2>5, <3>2
      <4> QED
          BY <2>3, <2>4, <4>1
    <3> QED
        BY <2>3, <3>1, <3>2
  <2> QED
      BY <2>2, <2>6, AllTried
<1>3. ASSUME SendsPending PROVE Blocked(pending')
  <2>1. PICK c \in Conns, j \in 0..Len(pending), k \in Nat : PendingWent(c, j, k)
      BY <1>3, PendingFacts
  <2>2. errors' = errors + Broken(j) /\ pending' = LeftPending(j)
      BY <2>1 DEF PendingWent, PendingSent
  <2> QED
      BY <2>2, AllTried
<1>4. ASSUME NEW m \in Msgs, UsQueue(m) \/ UsReject(m) PROVE Blocked(pending')
  <2>1. NoneUp /\ Scan(ConnCount)
      BY <1>4 DEF UsQueue, UsReject
  <2>2. status[d] = "connected"
      BY <1>1, <2>1, ScanTypes, UpstreamAssumption
  <2> QED
      BY <2>1, <2>2 DEF NoneUp
<1>5. ASSUME NEW c \in Conns, ConnectFails(c) \/ EvOut(c) \/ EvIn(c) \/ Break(c)
             \/ BackendReads(c)
      PROVE  Blocked(pending')
  <2>1. UNCHANGED <<pending, errors>> /\ (UNCHANGED status \/ status' = [status EXCEPT ![c] = "disconnected"])
      BY <1>5 DEF ConnectFails, EvOut, EvIn, Break, Closed, BackendReads, cliVars
  <2>2. status[d] = "connected"
      BY <1>1, <2>1
  <2> QED
      BY <2>1, <2>2 DEF PendingGoesOut, Blocked
<1>6. CASE UNCHANGED vars
    BY <1>6 DEF vars, cliVars, PendingGoesOut, Blocked
<1> QED
    BY <1>2, <1>3, <1>4, <1>5, <1>6 DEF Next, SendsPending

\* As long as no call of send() fails, messages are left pending while a connection is
\* up only behind one that cannot be packed.
THEOREM PendingGoesOutAlways == Spec => []PendingGoesOut
<1>1. Init => PendingGoesOut
    BY DEF Init, PendingGoesOut
<1> QED
    BY <1>1, PendingGoesOutStep, UpstreamTypeCorrect, PTL DEF Spec

-----------------------------------------------------------------------------
(* What was accepted is not forgotten.                                     *)

Known(m) ==
    \/ InSeq(m, pending)
    \/ \E c \in Conns : \E s \in stash[c] : sent[c][s] = m
    \/ delivered[m] > 0

\* A response is only under way for a message that the backend has, so that what
\* leaves the stash is delivered.
BackDelivered == \A c \in Conns : \A s \in back[c] : delivered[sent[c][s]] > 0

KnownInv == BackDelivered /\ \A m \in Msgs : ret[m] = "ok" => Known(m)

\* What a connection was given to send, after an attempt.
LEMMA AttemptSent ==
    ASSUME TypeOK, NEW c \in Conns, NEW ms \in Seq(Msgs), NEW ok \in SUBSET (1..Len(ms)),
           NEW k \in Nat, Attempt(c, ms, ok, k)
    PROVE  /\ \A d \in Conns : \A s \in 1..Len(sent[d]) :
                 s \in 1..Len(sent'[d]) /\ sent'[d][s] = sent[d][s]
           /\ \A i \in 1..Len(ms) : /\ Len(sent[c]) + i \in 1..Len(sent'[c])
                                    /\ sent'[c][Len(sent[c]) + i] = ms[i]
           /\ \A d \in Conns : \A s \in 1..Len(sent'[d]) :
                 \/ s \in 1..Len(sent[d])
                 \/ d = c /\ \E i \in 1..Len(ms) : s = Len(sent[c]) + i
           /\ \A d \in Conns : stash[d] \subseteq stash'[d]
           /\ \A i \in ok : Len(sent[c]) + i \in stash'[c]
<1>1. /\ sent \in [Conns -> Seq(Msgs)] /\ sent[c] \in Seq(Msgs)
    BY TypeParts DEF ConnTypes
<1>2. /\ \A d \in Conns : d # c => sent'[d] = sent[d] /\ stash'[d] = stash[d]
      /\ sent'[c] = sent[c] \o ms /\ Len(sent'[c]) = Len(sent[c]) + Len(ms)
      /\ stash'[c] = stash[c] \union {Len(sent[c]) + i : i \in ok}
    BY AttemptFacts DEF Attempted
<1>3. /\ \A i \in 1..Len(sent[c]) : sent'[c][i] = sent[c][i]
      /\ \A i \in 1..Len(ms) : sent'[c][Len(sent[c]) + i] = ms[i]
  <2> DEFINE q == sent[c]
  <2>1. q \in Seq(Msgs) /\ sent'[c] = q \o ms
      BY <1>1, <1>2
  <2> HIDE DEF q
  <2>2. /\ \A i \in 1..Len(q) : (q \o ms)[i] = q[i]
        /\ \A i \in 1..Len(ms) : (q \o ms)[Len(q) + i] = ms[i]
      BY <2>1, ConcatFacts
  <2> QED
      BY <2>1, <2>2 DEF q
<1>4. Len(sent[c]) \in Nat /\ Len(ms) \in Nat
    BY <1>1, LenType
<1>5. \A s \in 1..Len(sent[c]) : s \in 1..Len(sent'[c])
    BY <1>2, <1>4
<1>6. \A i \in 1..Len(ms) : Len(sent[c]) + i \in 1..Len(sent'[c])
    BY <1>2, <1>4
<1>7. ASSUME NEW s \in 1..Len(sent'[c]), s \notin 1..Len(sent[c])
      PROVE  \E i \in 1..Len(ms) : s = Len(sent[c]) + i
  <2>1. s - Len(sent[c]) \in 1..Len(ms) /\ s = Len(sent[c]) + (s - Len(sent[c]))
      BY <1>2, <1>4, <1>7
  <2> QED
      BY <2>1
<1> QED
    BY <1>2, <1>3, <1>5, <1>6, <1>7

\* An attempt forgets no message, when those that leave the pending list are stashed.
LEMMA AttemptKnows ==
    ASSUME TypeOK, NEW c \in Conns, NEW ms \in Seq(Msgs), NEW ok \in SUBSET (1..Len(ms)),
           NEW k \in Nat, Attempt(c, ms, ok, k), UNCHANGED <<back, delivered>>,
           \A i \in 1..Len(pending) :
               InSeq(pending[i], pending') \/ \E o \in ok : ms[o] = pending[i]
    PROVE  /\ BackDelivered => BackDelivered'
           /\ \A m : Known(m) => Known(m)'
           /\ \A m : (\E o \in ok : ms[o] = m) => Known(m)'
<1>1. /\ \A d \in Conns : \A s \in 1..Len(sent[d]) :
            s \in 1..Len(sent'[d]) /\ sent'[d][s] = sent[d][s]
      /\ \A i \in 1..Len(ms) : sent'[c][Len(sent[c]) + i] = ms[i]
      /\ \A d \in Conns : stash[d] \subseteq stash'[d]
      /\ \A i \in ok : Len(sent[c]) + i \in stash'[c]
    BY AttemptSent
<1>2. \A d \in Conns : stash[d] \subseteq 1..Len(sent[d]) /\ back[d] \subseteq 1..Len(sent[d])
    BY DEF TypeOK
<1>3. ASSUME NEW m, NEW o \in ok, ms[o] = m PROVE Known(m)'
  <2>1. Len(sent[c]) + o \in stash'[c] /\ sent'[c][Len(sent[c]) + o] = m
      BY <1>1, <1>3
  <2> QED
      BY <2>1 DEF Known
<1>4. ASSUME BackDelivered PROVE BackDelivered'
  <2> SUFFICES ASSUME NEW d \in Conns, NEW s \in back[d]
               PROVE  delivered[sent'[d][s]] > 0
      BY DEF BackDelivered
  <2>1. sent'[d][s] = sent[d][s]
      BY <1>1, <1>2
  <2> QED
      BY <1>4, <2>1 DEF BackDelivered
<1>5. ASSUME NEW m, Known(m) PROVE Known(m)'
  <2>1. CASE InSeq(m, pending)
    <3>1. PICK i \in 1..Len(pending) : pending[i] = m
        BY <2>1 DEF InSeq
    <3> QED
        BY <1>3, <3>1 DEF Known
  <2>2. CASE \E d \in Conns : \E s \in stash[d] : sent[d][s] = m
    <3>1. PICK d \in Conns : \E s \in stash[d] : sent[d][s] = m
        BY <2>2
    <3>2. PICK s \in stash[d] : sent[d][s] = m
        BY <3>1
    <3>3. s \in 1..Len(sent[d]) /\ s \in stash'[d]
        BY <1>1, <1>2
    <3>4. sent'[d][s] = m
        BY <1>1, <3>2, <3>3
    <3> QED
        BY <3>3, <3>4 DEF Known
  <2>3. CASE delivered[m] > 0
      BY <2>3 DEF Known
  <2> QED
      BY <1>5, <2>1, <2>2, <2>3 DEF Known
<1> QED
    BY <1>3, <1>4, <1>5

\* The pending messages are those that were tried and those that are left.
LEMMA LeftOrTried ==
    ASSUME pending \in Seq(Msgs), NEW j \in 0..Len(pending), pending' = LeftPending(j)
    PROVE  \A i \in 1..Len(pending) : InSeq(pending[i], pending') \/ i \in 1..j
<1>1. /\ Len(pending') = Len(pending) - j
      /\ \A i \in 1..(Len(pending) - j) : pending'[i] = pending[j + i]
    BY TriedFacts
<1>2. Len(pending) \in Nat
    BY LenType
<1> SUFFICES ASSUME NEW i \in 1..Len(pending), i \notin 1..j PROVE InSeq(pending[i], pending')
    OBVIOUS
<1>3. i - j \in 1..(Len(pending) - j) /\ j + (i - j) = i
    BY <1>2
<1>4. i - j \in 1..Len(pending') /\ pending'[i - j] = pending[i]
    BY <1>1, <1>3
<1> QED
    BY <1>4 DEF InSeq

LEMMA KnownStep == TypeOK /\ KnownInv /\ [Next]_vars => KnownInv'
<1> SUFFICES ASSUME TypeOK, KnownInv, [Next]_vars PROVE KnownInv'
    OBVIOUS
<1>1. ConnTypes /\ BackendTypes /\ RestTypes /\ pending \in Seq(Msgs)
    BY TypeParts DEF RestTypes
<1>2. ASSUME NEW m \in Msgs, NEW n \in Conns, UsSend(m, n) PROVE KnownInv'
  <2>1. PICK c \in Conns, j \in 0..Len(pending), fails \in {0, 1}, k \in Nat :
          /\ UsSent(m, c, j, fails, k)
          /\ (Tried(j) \o <<m>>) \in Seq(Msgs)
          /\ Len(Tried(j) \o <<m>>) = j + Broken(j) + 1
          /\ (1..j) \union (IF fails = 0 THEN {Len(Tried(j) \o <<m>>)} ELSE {})
                \in SUBSET (1..Len(Tried(j) \o <<m>>))
      BY <1>2, UsSendFacts
  <2> DEFINE ms == Tried(j) \o <<m>>
             ok == (1..j) \union (IF fails = 0 THEN {Len(ms)} ELSE {})
  <2>2. /\ pending' = LeftPending(j) /\ UNCHANGED <<back, delivered>>
        /\ Attempt(c, ms, ok, k) /\ ms \in Seq(Msgs) /\ ok \in SUBSET (1..Len(ms))
        /\ ret' = [ret EXCEPT ![m] = IF fails = 1 THEN "failed" ELSE "ok"]
      BY <2>1 DEF UsSent
  <2>3. /\ Tried(j) \in Seq(Msgs) /\ Len(Tried(j)) = j + Broken(j) /\ Broken(j) \in {0, 1}
        /\ \A i \in 1..Len(Tried(j)) : Tried(j)[i] = pending[i]
      BY <1>1, TriedFacts
  <2>4. /\ \A i \in 1..Len(Tried(j)) : ms[i] = Tried(j)[i]
        /\ ms[Len(Tried(j)) + 1] = m /\ Len(ms) = Len(Tried(j)) + 1
      BY <2>3, TriedAndOwn
  <2>5. \A i \in 1..j : ms[i] = pending[i] /\ i \in ok
      BY <2>3, <2>4
  <2>6. \A i \in 1..Len(pending) :
            InSeq(pending[i], pending') \/ \E o \in ok : ms[o] = pending[i]
      BY <1>1, <2>2, <2>5, LeftOrTried
  <2>7. fails = 0 => \E o \in ok : ms[o] = m
      BY <2>4
  <2> HIDE DEF ms, ok
  <2>8. /\ BackDelivered => BackDelivered'
        /\ \A x : Known(x) => Known(x)'
        /\ \A x : (\E o \in ok : ms[o] = x) => Known(x)'
      BY <2>2, <2>6, AttemptKnows
  <2>9. fails = 0 => Known(m)'
      BY <2>7, <2>8
  <2>10. ASSUME NEW x \in Msgs, ret'[x] = "ok" PROVE Known(x)'
    <3>1. CASE x = m
        BY <1>1, <2>2, <2>9, <2>10, <3>1 DEF RestTypes
    <3>2. CASE x # m
        BY <1>1, <2>2, <2>8, <2>10, <3>2 DEF RestTypes, KnownInv
    <3> QED
        BY <3>1, <3>2
  <2> QED
      BY <2>8, <2>10 DEF KnownInv
<1>3. ASSUME SendsPending PROVE KnownInv'
  <2>1. PICK c \in Conns, j \in 0..Len(pending), k \in Nat :
              /\ PendingWent(c, j, k)
              /\ Tried(j) \in Seq(Msgs)
              /\ 1..j \in SUBSET (1..Len(Tried(j)))
      BY <1>3, PendingFacts
  <2>2. /\ pending' = LeftPending(j) /\ UNCHANGED <<back, delivered>>
        /\ Attempt(c, Tried(j), 1..j, k)
        /\ \A m \in Msgs : ret'[m] = "ok" => ret[m] = "ok"
      BY <2>1 DEF PendingWent, PendingSent
  <2>3. \A i \in 1..Len(Tried(j)) : Tried(j)[i] = pending[i]
      BY <1>1, TriedFacts
  <2>4. \A i \in 1..j : Tried(j)[i] = pending[i]
      BY <2>1, <2>3
  <2>5. \A i \in 1..Len(pending) :
            InSeq(pending[i], pending') \/ \E o \in 1..j : Tried(j)[o] = pending[i]
      BY <1>1, <2>2, <2>4, LeftOrTried
  <2>6. /\ BackDelivered => BackDelivered'
        /\ \A x : Known(x) => Known(x)'
      BY <2>1, <2>2, <2>5, AttemptKnows
  <2> QED
      BY <2>2, <2>6 DEF KnownInv
<1>4. ASSUME NEW c \in Conns, EvOut(c) PROVE KnownInv'
  <2>1. PICK k \in Nat : Attempt(c, <<>>, {}, k)
      BY <1>4, EvOutFacts
  <2>2. /\ <<>> \in Seq(Msgs) /\ {} \in SUBSET (1..Len(<<>>))
        /\ UNCHANGED <<pending, ret, back, delivered>>
      BY <1>4, EvOutFacts
  <2>3. \A i \in 1..Len(pending) : InSeq(pending[i], pending')
      BY <2>2 DEF InSeq
  <2>4. /\ BackDelivered => BackDelivered'
        /\ \A x : Known(x) => Known(x)'
      BY <2>1, <2>2, <2>3, AttemptKnows
  <2> QED
      BY <2>2, <2>4 DEF KnownInv
<1>5. ASSUME NEW m \in Msgs, UsQueue(m) PROVE KnownInv'
  <2>1. /\ pending' = Append(pending, m) /\ ret' = [ret EXCEPT ![m] = "ok"]
        /\ UNCHANGED <<sent, stash, back, delivered>>
      BY <1>5 DEF UsQueue, svrVars
  <2>2. /\ Len(pending') = Len(pending) + 1 /\ pending'[Len(pending) + 1] = m
        /\ \A i \in 1..Len(pending) : pending'[i] = pending[i]
        /\ Len(pending) \in Nat
      BY <1>1, <2>1
  <2>3. InSeq(m, pending') /\ \A x : InSeq(x, pending) => InSeq(x, pending')
      BY <2>2 DEF InSeq
  <2>4. Known(m)' /\ \A x : Known(x) => Known(x)'
      BY <2>1, <2>3 DEF Known
  <2>5. BackDelivered'
      BY <2>1 DEF KnownInv, BackDelivered
  <2> QED
      BY <1>1, <2>1, <2>4, <2>5 DEF KnownInv, RestTypes
<1>6. ASSUME NEW m \in Msgs, UsReject(m) PROVE KnownInv'
    BY <1>1, <1>6 DEF UsReject, svrVars, KnownInv, Known, BackDelivered, RestTypes
<1>7. ASSUME NEW c \in Conns, ConnectFails(c) PROVE KnownInv'
    BY <1>7 DEF ConnectFails, svrVars, KnownInv, Known, BackDelivered
<1>8. ASSUME NEW c \in Conns, Break(c) PROVE KnownInv'
  <2>1. /\ back' = [back EXCEPT ![c] = {}]
        /\ UNCHANGED <<sent, stash, pending, ret, delivered>>
      BY <1>8 DEF Break, Closed
  <2>2. \A d \in Conns : back'[d] \subseteq back[d]
      BY <1>1, <2>1 DEF BackendTypes
  <2> QED
      BY <2>1, <2>2 DEF KnownInv, Known, BackDelivered
<1>9. ASSUME NEW c \in Conns, EvIn(c) PROVE KnownInv'
  <2>1. PICK s \in back[c] : /\ back' = [back EXCEPT ![c] = @ \ {s}]
                             /\ stash' = [stash EXCEPT ![c] = @ \ {s}]
      BY <1>9 DEF EvIn, Unstashed
  <2>2. UNCHANGED <<sent, pending, ret, delivered>>
      BY <1>9 DEF EvIn
  <2>3. /\ \A d \in Conns : back'[d] \subseteq back[d]
        /\ \A d \in Conns : d # c => stash'[d] = stash[d]
        /\ stash'[c] = stash[c] \ {s}
      BY <1>1, <2>1 DEF ConnTypes, BackendTypes
  <2>4. delivered[sent[c][s]] > 0
      BY DEF KnownInv, BackDelivered
  <2>5. \A x : Known(x) => Known(x)'
      BY <2>2, <2>3, <2>4 DEF Known
  <2> QED
      BY <2>2, <2>3, <2>5 DEF KnownInv, BackDelivered
<1>10. ASSUME NEW c \in Conns, BackendReads(c) PROVE KnownInv'
  <2> DEFINE s == Head(wire[c])[1]
  <2>1. /\ wire[c] # <<>> /\ UNCHANGED <<sent, stash, pending, ret>>
        /\ Begins(c, s) \/ Ends(c, s) \/ Misreads(c, s)
      BY <1>10, BackendReadsFacts DEF cliVars
  <2>2. s \in 1..Len(sent[c]) /\ sent[c][s] \in Msgs
      BY <2>1, HeadFacts
  <2> HIDE DEF s
  <2>3. CASE UNCHANGED <<back, delivered>>
      BY <2>1, <2>3 DEF KnownInv, Known, BackDelivered
  <2>4. CASE Ends(c, s)
    <3>1. /\ back' = [back EXCEPT ![c] = @ \union {s}]
          /\ delivered' = [delivered EXCEPT ![sent[c][s]] = @ + 1]
        BY <2>4 DEF Ends
    <3>2. delivered \in [Msgs -> Nat]
        BY <1>1 DEF RestTypes
    <3>3. /\ \A x \in Msgs : delivered[x] > 0 => delivered'[x] > 0
          /\ delivered'[sent[c][s]] > 0
        BY <2>2, <3>1, <3>2
    <3>4. \A d \in Conns : \A t \in 1..Len(sent[d]) : sent[d][t] \in Msgs
        BY <1>1 DEF ConnTypes
    <3>5. \A d \in Conns : back[d] \subseteq 1..Len(sent[d])
        BY <1>1 DEF BackendTypes
    <3>6. /\ \A d \in Conns : d # c => back'[d] = back[d]
          /\ back'[c] = back[c] \union {s}
        BY <1>1, <3>1 DEF BackendTypes
    <3>7. BackDelivered'
        BY <2>1, <3>3, <3>4, <3>5, <3>6 DEF KnownInv, BackDelivered
    <3>8. \A x \in Msgs : Known(x) => Known(x)'
        BY <2>1, <3>3 DEF Known
    <3> QED
        BY <2>1, <3>7, <3>8 DEF KnownInv
  <2> QED
      BY <2>1, <2>3, <2>4 DEF Begins, Misreads
<1>11. CASE UNCHANGED vars
    BY <1>11 DEF vars, cliVars, svrVars, KnownInv, Known, BackDelivered
<1> QED
    BY <1>2, <1>3, <1>4, <1>5, <1>6, <1>7, <1>8, <1>9, <1>10, <1>11
       DEF Next, SendsPending

\* A message that mrpc_us_send accepted is never forgotten: it is pending, or a stash
\* holds it, or the backend has it, whatever breaks or fails.
THEOREM NotForgottenAlways == Spec => []NotForgotten
<1>1. Init => KnownInv
    BY DEF Init, KnownInv, BackDelivered
<1>2. KnownInv => NotForgotten
    BY DEF KnownInv, Known, NotForgotten
<1> QED
    BY <1>1, <1>2, KnownStep, UpstreamTypeCorrect, PTL DEF Spec

-----------------------------------------------------------------------------
(* The stream of a connection.                                             *)

\* How many pieces the backend has read or a broken socket has lost, of all that the
\* connection was given to send.
Read(c) == 2 * Len(sent[c]) - Len(out[c]) - Len(wire[c])

\* What is on the wire and in the output buffer is the rest, in order and without a gap;
\* unless the last break left the rest of a message in front, the backend is where
\* the pieces read so far put it.
WireInv(c) ==
    /\ Read(c) >= 0
    /\ \A i \in 1..Len(wire[c]) : wire[c][i] = Piece(Read(c) + i)
    /\ \A i \in 1..Len(out[c]) : out[c][i] = Piece(Read(c) + Len(wire[c]) + i)

StepInv(c) ==
    ~cut[c] => /\ ~misread[c]
               /\ half[c] = IF Read(c) % 2 = 1 THEN (Read(c) + 1) \div 2 ELSE None

StreamInv == \A c \in Conns : WireInv(c) /\ StepInv(c)

LEMMA Lengths ==
    ASSUME TypeOK, NEW c \in Conns
    PROVE  /\ sent[c] \in Seq(Msgs) /\ out[c] \in Seq(PieceOf(c)) /\ wire[c] \in Seq(PieceOf(c))
           /\ Len(sent[c]) \in Nat /\ Len(out[c]) \in Nat /\ Len(wire[c]) \in Nat
           /\ Read(c) \in Int
<1>1. sent[c] \in Seq(Msgs) /\ out[c] \in Seq(PieceOf(c)) /\ wire[c] \in Seq(PieceOf(c))
    BY TypeParts DEF ConnTypes
<1>2. Len(sent[c]) \in Nat /\ Len(out[c]) \in Nat /\ Len(wire[c]) \in Nat
    BY <1>1, LenType
<1> QED
    BY <1>1, <1>2 DEF Read

\* The pieces of an attempt are numbered on from those on the wire.
LEMMA AttemptPieces ==
    ASSUME TypeOK, NEW c \in Conns, WireInv(c), NEW ms \in Seq(Msgs)
    PROVE  \A i \in 1..(Len(out[c]) + 2 * Len(ms)) :
               AllPieces(c, ms)[i] = Piece(Read(c) + Len(wire[c]) + i)
<1> DEFINE q == out[c]
           r == Pieces(Len(sent[c]), Len(ms))
           T == PieceOf(c) \union ((1..(Len(sent[c]) + Len(ms))) \X {1, 2})
           w == Len(wire[c])
           R == Read(c)
           L == Len(sent[c])
           n == Len(ms)
<1>1. /\ L \in Nat /\ n \in Nat /\ w \in Nat /\ R \in Int /\ Len(q) \in Nat
      /\ R = 2 * L - Len(q) - w
    BY Lengths, LenType DEF Read
<1>2. /\ r \in Seq((1..(L + n)) \X {1, 2}) /\ Len(r) = 2 * n
      /\ \A i \in 1..(2 * n) : r[i] = Piece(2 * L + i)
    BY <1>1, PiecesFacts
<1>3. q \in Seq(PieceOf(c))
    BY Lengths
<1>4. /\ PieceOf(c) \subseteq T /\ (1..(L + n)) \X {1, 2} \subseteq T
    OBVIOUS
<1>5. \A i \in 1..Len(q) : q[i] = Piece(R + w + i)
    BY DEF WireInv
<1> HIDE DEF q, r, T, w, R, L, n
<1>6. q \in Seq(T)
    BY <1>3, <1>4, SeqMonotonic
<1>7. r \in Seq(T)
    BY <1>2, <1>4, SeqMonotonic
<1>8. /\ \A i \in 1..Len(q) : (q \o r)[i] = q[i]
      /\ \A i \in 1..Len(r) : (q \o r)[Len(q) + i] = r[i]
    BY <1>6, <1>7, ConcatFacts
<1> SUFFICES ASSUME NEW i \in 1..(Len(q) + 2 * n)
             PROVE  (q \o r)[i] = Piece(R + w + i)
    BY DEF q, r, w, R, n, L, AllPieces
<1>9. CASE i <= Len(q)
  <2>1. i \in 1..Len(q)
      BY <1>1, <1>9
  <2> QED
      BY <2>1, <1>5, <1>8
<1>10. CASE i > Len(q)
  <2>1. /\ i - Len(q) \in 1..(2 * n) /\ Len(q) + (i - Len(q)) = i
        /\ 2 * L + (i - Len(q)) = R + w + i
      BY <1>1, <1>10
  <2>2. (q \o r)[Len(q) + (i - Len(q))] = r[i - Len(q)]
      BY <1>2, <1>8, <2>1
  <2>3. r[i - Len(q)] = Piece(2 * L + (i - Len(q)))
      BY <1>2, <2>1
  <2> QED
      BY <2>1, <2>2, <2>3
<1>11. i <= Len(q) \/ i > Len(q)
    BY <1>1
<1> QED
    BY <1>9, <1>10, <1>11

\* An attempt moves no piece past another, and the backend reads none during it.
LEMMA AttemptWire ==
    ASSUME TypeOK, NEW c \in Conns, NEW ms \in Seq(Msgs), NEW ok \in SUBSET (1..Len(ms)),
           NEW k \in Nat, Attempt(c, ms, ok, k), \A d \in Conns : WireInv(d)
    PROVE  /\ \A d \in Conns : WireInv(d)'
           /\ \A d \in Conns : Read(d)' = Read(d)
<1> DEFINE all == AllPieces(c, ms)
           w == Len(wire[c])
           R == Read(c)
<1>0. Attempted(c, ms, ok, k)
    BY AttemptFacts
<1>1. \A d \in Conns : d # c => sent'[d] = sent[d] /\ out'[d] = out[d] /\ wire'[d] = wire[d]
    BY <1>0 DEF Attempted
<1>2. /\ Len(sent'[c]) = Len(sent[c]) + Len(ms)
      /\ Len(wire'[c]) = Len(wire[c]) + k
      /\ k <= Len(out[c]) + 2 * Len(ms)
      /\ Len(out'[c]) = Len(out[c]) + 2 * Len(ms) - k
    BY <1>0 DEF Attempted
<1>3. /\ \A i \in 1..Len(wire[c]) : wire'[c][i] = wire[c][i]
      /\ \A i \in 1..k : wire'[c][Len(wire[c]) + i] = all[i]
      /\ \A i \in 1..Len(out'[c]) : out'[c][i] = all[k + i]
  <2>1. \A i \in 1..Len(wire[c]) : wire'[c][i] = wire[c][i]
      BY <1>0 DEF Attempted
  <2>2. \A i \in 1..k : wire'[c][Len(wire[c]) + i] = all[i]
      BY <1>0 DEF Attempted
  <2>3. \A i \in 1..Len(out'[c]) : out'[c][i] = all[k + i]
      BY <1>0 DEF Attempted
  <2> QED
      BY <2>1, <2>2, <2>3
<1>4. \A i \in 1..(Len(out[c]) + 2 * Len(ms)) : all[i] = Piece(R + w + i)
    BY AttemptPieces
<1>5. /\ R >= 0 /\ \A i \in 1..w : wire[c][i] = Piece(R + i)
    BY DEF WireInv
<1> DEFINE o == Len(out[c])
           l == Len(sent[c])
           n == Len(ms)
<1>6. /\ l \in Nat /\ o \in Nat /\ w \in Nat /\ n \in Nat /\ R \in Int
      /\ R = 2 * l - o - w
    BY Lengths, LenType DEF Read
<1>7. /\ Len(sent'[c]) = l + n /\ Len(wire'[c]) = w + k /\ Len(out'[c]) = o + 2 * n - k
      /\ k <= o + 2 * n
    BY <1>2
<1>8. Read(c)' = R
  <2>1. Read(c)' = 2 * Len(sent'[c]) - Len(out'[c]) - Len(wire'[c])
      BY DEF Read
  <2> HIDE DEF l, o, w, n, R
  <2>2. Read(c)' = 2 * (l + n) - (o + 2 * n - k) - (w + k)
      BY <1>7, <2>1
  <2>3. 2 * (l + n) - (o + 2 * n - k) - (w + k) = R
      BY <1>6
  <2> QED
      BY <2>2, <2>3
<1>9. \A d \in Conns : d # c => Read(d)' = Read(d)
    BY <1>1 DEF Read
<1> HIDE DEF l, o, w, n, R, all
<1>10. /\ \A i \in 1..w : wire'[c][i] = wire[c][i]
       /\ \A i \in 1..k : wire'[c][w + i] = all[i]
    BY <1>3 DEF w
<1>11. \A i \in 1..(o + 2 * n) : all[i] = Piece(R + w + i)
    BY <1>4 DEF o, n
<1>12. ASSUME NEW i \in 1..(w + k) PROVE wire'[c][i] = Piece(R + i)
  <2>1. CASE i <= w
    <3>1. i \in 1..w
        BY <1>6, <2>1
    <3> QED
        BY <3>1, <1>5, <1>10
  <2>2. CASE i > w
    <3>1. /\ i - w \in 1..k /\ w + (i - w) = i /\ R + w + (i - w) = R + i
          /\ i - w \in 1..(o + 2 * n)
        BY <1>6, <1>7, <2>2
    <3>2. wire'[c][w + (i - w)] = all[i - w]
        BY <1>10, <3>1
    <3>3. all[i - w] = Piece(R + w + (i - w))
        BY <1>11, <3>1
    <3> QED
        BY <3>1, <3>2, <3>3
  <2>3. i <= w \/ i > w
      BY <1>6
  <2> QED
      BY <2>1, <2>2, <2>3
<1>13. ASSUME NEW i \in 1..(o + 2 * n - k) PROVE out'[c][i] = Piece(R + (w + k) + i)
  <2>1. /\ k + i \in 1..(o + 2 * n) /\ R + w + (k + i) = R + (w + k) + i
      BY <1>6
  <2>2. out'[c][i] = all[k + i]
      BY <1>3, <1>7
  <2>3. all[k + i] = Piece(R + w + (k + i))
      BY <1>11, <2>1
  <2> QED
      BY <2>1, <2>2, <2>3
<1>14. WireInv(c)'
    BY <1>5, <1>7, <1>8, <1>12, <1>13 DEF WireInv
<1>15. \A d \in Conns : d # c => WireInv(d)'
    BY <1>1, <1>9 DEF WireInv
<1> QED
    BY <1>8, <1>9, <1>14, <1>15 DEF R

\* The piece that the backend reads next follows those that it has read.
LEMMA NextPiece ==
    ASSUME TypeOK, NEW c \in Conns, WireInv(c), wire[c] # <<>>
    PROVE  /\ Head(wire[c])[1] = (Read(c) + 2) \div 2
           /\ Head(wire[c])[2] = IF (Read(c) + 1) % 2 = 1 THEN 1 ELSE 2
<1>1. Head(wire[c]) = wire[c][1] /\ Len(wire[c]) \in Nat \ {0} /\ Read(c) \in Int
    BY HeadFacts, Lengths
<1>2. wire[c][1] = Piece(Read(c) + 1)
    BY <1>1 DEF WireInv
<1>3. /\ Piece(Read(c) + 1)[1] = ((Read(c) + 1) + 1) \div 2
      /\ Piece(Read(c) + 1)[2] = IF (Read(c) + 1) % 2 = 1 THEN 1 ELSE 2
    BY DEF Piece
<1>4. (Read(c) + 1) + 1 = Read(c) + 2
    BY <1>1
<1> QED
    BY <1>1, <1>2, <1>3, <1>4

\* The backend reads one piece.
LEMMA ReadOne ==
    ASSUME TypeOK, NEW c \in Conns, \A d \in Conns : WireInv(d), BackendReads(c)
    PROVE  /\ \A d \in Conns : WireInv(d)'
           /\ Read(c)' = Read(c) + 1
           /\ \A d \in Conns : d # c => Read(d)' = Read(d)
<1> DEFINE w == Len(wire[c])
           R == Read(c)
<1>1. /\ wire[c] # <<>> /\ wire' = [wire EXCEPT ![c] = Tail(@)]
      /\ UNCHANGED <<out, sent>> /\ wire \in [Conns -> Seq(Nat \X {1, 2})]
    BY BackendReadsFacts, TypeParts DEF cliVars, ConnTypes
<1>2. /\ wire'[c] = Tail(wire[c])
      /\ \A d \in Conns : d # c => wire'[d] = wire[d]
    BY <1>1
<1>3. /\ Len(wire'[c]) = w - 1
      /\ \A i \in 1..(w - 1) : wire'[c][i] = wire[c][i + 1]
    BY <1>1, <1>2, HeadFacts
<1>4. w \in Nat /\ R \in Int /\ Len(sent[c]) \in Nat /\ Len(out[c]) \in Nat
    BY Lengths
<1>5. R = 2 * Len(sent[c]) - Len(out[c]) - w
    BY DEF Read
<1>6. Read(c)' = 2 * Len(sent[c]) - Len(out[c]) - Len(wire'[c])
    BY <1>1 DEF Read
<1>7. /\ R >= 0 /\ \A i \in 1..w : wire[c][i] = Piece(R + i)
      /\ \A i \in 1..Len(out[c]) : out[c][i] = Piece(R + w + i)
    BY DEF WireInv
<1> HIDE DEF w, R
<1>8. Read(c)' = R + 1
    BY <1>3, <1>4, <1>5, <1>6
<1>9. ASSUME NEW i \in 1..(w - 1) PROVE wire'[c][i] = Piece((R + 1) + i)
  <2>1. i + 1 \in 1..w /\ R + (i + 1) = (R + 1) + i
      BY <1>4
  <2>2. wire[c][i + 1] = Piece(R + (i + 1))
      BY <1>7, <2>1
  <2>3. wire'[c][i] = wire[c][i + 1]
      BY <1>3
  <2> QED
      BY <2>1, <2>2, <2>3
<1>10. ASSUME NEW i \in 1..Len(out[c]) PROVE out[c][i] = Piece((R + 1) + (w - 1) + i)
  <2>1. R + w + i = (R + 1) + (w - 1) + i
      BY <1>4
  <2> QED
      BY <1>7, <2>1
<1>11. R + 1 >= 0
    BY <1>4, <1>7
<1>12. WireInv(c)'
    BY <1>1, <1>3, <1>8, <1>9, <1>10, <1>11 DEF WireInv
<1>13. \A d \in Conns : d # c => Read(d)' = Read(d)
    BY <1>1, <1>2 DEF Read
<1>14. \A d \in Conns : d # c => WireInv(d)'
    BY <1>1, <1>2, <1>13 DEF WireInv
<1> QED
    BY <1>8, <1>12, <1>13, <1>14 DEF R

\* A socket that breaks loses what is on the wire, and nothing of the output buffer.
LEMMA WireLost ==
    ASSUME TypeOK, NEW c \in Conns, \A d \in Conns : WireInv(d), Break(c)
    PROVE  /\ \A d \in Conns : WireInv(d)'
           /\ \A d \in Conns : Read(d)' >= Read(d) /\ Read(d)' \in Int
           /\ \A d \in Conns : d # c => Read(d)' = Read(d)
<1> DEFINE w == Len(wire[c])
           R == Read(c)
<1>1. /\ wire' = [wire EXCEPT ![c] = <<>>] /\ UNCHANGED <<out, sent>>
      /\ wire \in [Conns -> Seq(Nat \X {1, 2})]
    BY TypeParts DEF Break, ConnTypes
<1>2. wire'[c] = <<>> /\ \A d \in Conns : d # c => wire'[d] = wire[d]
    BY <1>1
<1>3. Len(wire'[c]) = 0
    BY <1>2
<1>4. w \in Nat /\ R \in Int /\ Len(sent[c]) \in Nat /\ Len(out[c]) \in Nat
    BY Lengths
<1>5. R = 2 * Len(sent[c]) - Len(out[c]) - w
    BY DEF Read
<1>6. Read(c)' = 2 * Len(sent[c]) - Len(out[c]) - Len(wire'[c])
    BY <1>1 DEF Read
<1>7. R >= 0 /\ \A i \in 1..Len(out[c]) : out[c][i] = Piece(R + w + i)
    BY DEF WireInv
<1> HIDE DEF w, R
<1>8. Read(c)' = R + w
    BY <1>3, <1>4, <1>5, <1>6
<1>9. R + w >= R /\ R + w >= 0 /\ R + w + 0 = R + w /\ R + w \in Int
    BY <1>4, <1>7
<1>10. WireInv(c)'
  <2>1. \A i \in 1..Len(out'[c]) : out'[c][i] = Piece(Read(c)' + Len(wire'[c]) + i)
      BY <1>1, <1>3, <1>7, <1>8, <1>9
  <2>2. 1..0 = {}
      OBVIOUS
  <2>3. \A i \in 1..Len(wire'[c]) : wire'[c][i] = Piece(Read(c)' + i)
      BY <1>3, <2>2
  <2>4. Read(c)' >= 0
      BY <1>8, <1>9
  <2> QED
      BY <2>1, <2>3, <2>4 DEF WireInv
<1>11. \A d \in Conns : d # c => Read(d)' = Read(d)
    BY <1>1, <1>2 DEF Read
<1>12. \A d \in Conns : d # c => WireInv(d)'
    BY <1>1, <1>2, <1>11 DEF WireInv
<1>13. \A d \in Conns : d # c => Read(d)' >= Read(d) /\ Read(d)' \in Int
  <2>1. \A d \in Conns : Read(d) \in Int
      BY Lengths
  <2> QED
      BY <1>11, <2>1
<1> QED
    BY <1>8, <1>9, <1>10, <1>11, <1>12, <1>13 DEF R

\* The steps after which every connection's stream is where it was.
LEMMA StreamKept ==
    ASSUME StreamInv, UNCHANGED <<sent, out, wire, half, misread, cut>>
    PROVE  StreamInv' /\ \A d \in Conns : Read(d)' = Read(d)
BY DEF StreamInv, WireInv, StepInv, Read

LEMMA StepKept ==
    ASSUME StreamInv, \A d \in Conns : WireInv(d)', \A d \in Conns : Read(d)' = Read(d),
           UNCHANGED <<half, misread, cut>>
    PROVE  StreamInv'
BY DEF StreamInv, StepInv

\* After a break that leaves the output buffer at the start of a message the next socket
\* begins with one.
LEMMA BrokenStep ==
    ASSUME TypeOK, NEW c \in Conns, \A d \in Conns : WireInv(d), Break(c)
    PROVE  StepInv(c)'
<1> SUFFICES ASSUME ~cut'[c]
             PROVE  /\ ~misread'[c]
                    /\ half'[c] = IF Read(c)' % 2 = 1 THEN (Read(c)' + 1) \div 2 ELSE None
    BY DEF StepInv
<1>1. misread'[c] = FALSE /\ half'[c] = None
    BY TypeParts DEF Break, Closed, BackendTypes
<1>2. ~(out[c] # <<>> /\ Head(out[c])[2] = 2)
    BY TypeParts DEF Break, RestTypes
<1>3. WireInv(c)'
    BY WireLost
<1>4. /\ wire'[c] = <<>> /\ UNCHANGED <<out, sent>>
    BY TypeParts DEF Break, ConnTypes
<1>5. Len(wire'[c]) = 0
    BY <1>4
<1>6. Len(sent[c]) \in Nat /\ Len(out[c]) \in Nat /\ out[c] \in Seq(PieceOf(c))
    BY Lengths
<1> DEFINE R == Read(c)'
<1>7. R = 2 * Len(sent[c]) - Len(out[c])
    BY <1>4, <1>5, <1>6 DEF Read
<1> HIDE DEF R
<1>8. CASE out[c] = <<>>
  <2>1. Len(out[c]) = 0
      BY <1>8
  <2>2. R = 2 * Len(sent[c])
      BY <1>6, <1>7, <2>1
  <2>3. \A x \in Nat : (2 * x) % 2 # 1
      OBVIOUS
  <2>4. R % 2 # 1
      BY <1>6, <2>2, <2>3
  <2> QED
      BY <1>1, <2>4 DEF R
<1>9. CASE out[c] # <<>>
  <2>1. Len(out[c]) >= 1 /\ Head(out[c]) = out[c][1]
    <3> DEFINE q == out[c]
               S == PieceOf(c)
    <3> HIDE DEF q, S
    <3>1. q \in Seq(S) /\ q # <<>> => Len(q) >= 1 /\ Head(q) = q[1]
        OBVIOUS
    <3> QED
        BY <1>6, <1>9, <3>1 DEF q, S
  <2>2. R \in Int
      BY <1>6, <1>7
  <2>3. 1 \in 1..Len(out'[c])
      BY <1>4, <1>6, <2>1
  <2>4. out'[c][1] = Piece(R + Len(wire'[c]) + 1)
      BY <1>3, <2>3 DEF WireInv, R
  <2>5. R + Len(wire'[c]) + 1 = R + 1
      BY <1>5, <2>2
  <2>6. Head(out[c])[2] = IF (R + 1) % 2 = 1 THEN 1 ELSE 2
      BY <1>4, <2>1, <2>4, <2>5 DEF Piece
  <2>7. (R + 1) % 2 = 1
      BY <1>2, <1>9, <2>6
  <2>8. R % 2 # 1
      BY <2>2, <2>7
  <2> QED
      BY <1>1, <2>8 DEF R
<1> QED
    BY <1>8, <1>9

\* Each step of the program, as far as the streams go.
LEMMA StreamStep ==
    ASSUME TypeOK, StreamInv, [Next]_vars
    PROVE  /\ StreamInv'
           /\ \A d \in Conns : Read(d) \in Int /\ Read(d)' \in Int /\ Read(d)' >= Read(d)
<1>1. \A d \in Conns : WireInv(d) /\ StepInv(d)
    BY DEF StreamInv
<1>2. \A d \in Conns : Read(d) \in Int /\ Read(d) >= Read(d)
    BY Lengths
<1> DEFINE Goal == /\ StreamInv'
                   /\ \A d \in Conns : Read(d)' \in Int /\ Read(d)' >= Read(d)
<1>3. ASSUME NEW m \in Msgs, NEW n \in Conns, UsSend(m, n) PROVE Goal
  <2>1. PICK c \in Conns, j \in 0..Len(pending), fails \in {0, 1}, k \in Nat :
          /\ UsSent(m, c, j, fails, k)
          /\ (Tried(j) \o <<m>>) \in Seq(Msgs)
          /\ (1..j) \union (IF fails = 0 THEN {Len(Tried(j) \o <<m>>)} ELSE {})
                \in SUBSET (1..Len(Tried(j) \o <<m>>))
      BY <1>3, UsSendFacts
  <2> DEFINE ms == Tried(j) \o <<m>>
             ok == (1..j) \union (IF fails = 0 THEN {Len(ms)} ELSE {})
  <2>2. /\ Attempt(c, ms, ok, k) /\ ms \in Seq(Msgs) /\ ok \in SUBSET (1..Len(ms))
        /\ UNCHANGED <<half, misread, cut>>
      BY <2>1 DEF UsSent
  <2> HIDE DEF ms, ok
  <2>3. /\ \A d \in Conns : WireInv(d)'
        /\ \A d \in Conns : Read(d)' = Read(d)
      BY <1>1, <2>2, AttemptWire
  <2>4. StreamInv'
      BY <2>2, <2>3, StepKept
  <2> QED
      BY <1>2, <2>3, <2>4
<1>4. ASSUME SendsPending PROVE Goal
  <2>1. PICK c \in Conns, j \in 0..Len(pending), k \in Nat :
              /\ PendingWent(c, j, k)
              /\ Tried(j) \in Seq(Msgs)
              /\ 1..j \in SUBSET (1..Len(Tried(j)))
      BY <1>4, PendingFacts
  <2>2. Attempt(c, Tried(j), 1..j, k) /\ UNCHANGED <<half, misread, cut>>
      BY <2>1 DEF PendingWent, PendingSent
  <2>3. /\ \A d \in Conns : WireInv(d)'
        /\ \A d \in Conns : Read(d)' = Read(d)
      BY <1>1, <2>1, <2>2, AttemptWire
  <2>4. StreamInv'
      BY <2>2, <2>3, StepKept
  <2> QED
      BY <1>2, <2>3, <2>4
<1>5. ASSUME NEW c \in Conns, EvOut(c) PROVE Goal
  <2>1. PICK k \in Nat : Attempt(c, <<>>, {}, k)
      BY <1>5, EvOutFacts
  <2>2. /\ <<>> \in Seq(Msgs) /\ {} \in SUBSET (1..Len(<<>>))
        /\ UNCHANGED <<half, misread, cut>>
      BY <1>5, EvOutFacts
  <2>3. /\ \A d \in Conns : WireInv(d)'
        /\ \A d \in Conns : Read(d)' = Read(d)
      BY <1>1, <2>1, <2>2, AttemptWire
  <2>4. StreamInv'
      BY <2>2, <2>3, StepKept
  <2> QED
      BY <1>2, <2>3, <2>4
<1>6. ASSUME UNCHANGED <<sent, out, wire, half, misread, cut>> PROVE Goal
    BY <1>2, <1>6, StreamKept
<1>7. ASSUME NEW c \in Conns, Break(c) PROVE Goal
  <2>1. /\ \A d \in Conns : WireInv(d)'
        /\ \A d \in Conns : Read(d)' >= Read(d) /\ Read(d)' \in Int
      BY <1>1, <1>7, WireLost
  <2>2. \A d \in Conns : d # c => Read(d)' = Read(d)
      BY <1>1, <1>7, WireLost
  <2>3. StepInv(c)'
      BY <1>1, <1>7, BrokenStep
  <2>4. ASSUME NEW d \in Conns, d # c PROVE StepInv(d)'
    <3>1. half'[d] = half[d] /\ misread'[d] = misread[d] /\ cut'[d] = cut[d]
        BY <1>7, <2>4, TypeParts DEF Break, Closed, BackendTypes, RestTypes
    <3> QED
        BY <1>1, <2>2, <2>4, <3>1 DEF StepInv
  <2> QED
      BY <2>1, <2>3, <2>4 DEF StreamInv
<1>8. ASSUME NEW c \in Conns, BackendReads(c) PROVE Goal
  <2> DEFINE s == Head(wire[c])[1]
             R == Read(c)
  <2>1. /\ wire[c] # <<>> /\ UNCHANGED cut
        /\ Begins(c, s) \/ Ends(c, s) \/ Misreads(c, s)
      BY <1>8, BackendReadsFacts
  <2>2. /\ \A d \in Conns : WireInv(d)'
        /\ Read(c)' = R + 1
        /\ \A d \in Conns : d # c => Read(d)' = Read(d)
      BY <1>1, <1>8, ReadOne
  <2>3. /\ s = (R + 2) \div 2
        /\ Head(wire[c])[2] = IF (R + 1) % 2 = 1 THEN 1 ELSE 2
      BY <1>1, <2>1, NextPiece
  <2>4. R \in Int /\ R >= 0
      BY <1>1, Lengths DEF WireInv
  <2>5. half \in [Conns -> Nat \union {None}] /\ misread \in [Conns -> BOOLEAN]
      BY TypeParts DEF BackendTypes
  <2>6. ~cut[c] =>
          /\ ~misread[c] /\ half[c] = IF R % 2 = 1 THEN (R + 1) \div 2 ELSE None
      BY <1>1 DEF StepInv
  <2>7. \A x \in Nat : x # None
      BY UpstreamAssumption
  <2> HIDE DEF s, R
  <2>13. \A d \in Conns : d # c => half'[d] = half[d] /\ misread'[d] = misread[d]
      BY <2>1, <2>5 DEF Begins, Ends, Misreads
  <2>8. ASSUME ~cut[c]
        PROVE  /\ ~misread'[c]
               /\ half'[c] = IF (R + 1) % 2 = 1 THEN ((R + 1) + 1) \div 2 ELSE None
    <3>1. CASE R % 2 = 1
      <4>1. (R + 1) % 2 = 0 /\ (R + 2) \div 2 = (R + 1) \div 2 /\ (R + 1) \div 2 \in Nat
          BY <2>4, <3>1
      <4>2. Head(wire[c])[2] = 2 /\ half[c] = s
          BY <2>3, <2>6, <2>8, <3>1, <4>1
      <4>3. Ends(c, s)
          BY <2>1, <4>2 DEF Begins, Misreads
      <4>4. half' = [half EXCEPT ![c] = None] /\ UNCHANGED misread
          BY <4>3 DEF Ends
      <4> QED
          BY <2>5, <2>6, <2>8, <4>1, <4>4
    <3>2. CASE R % 2 # 1
      <4>1. (R + 1) % 2 = 1 /\ (R + 2) \div 2 = ((R + 1) + 1) \div 2
          BY <2>4, <3>2
      <4>2. Head(wire[c])[2] = 1 /\ half[c] = None
          BY <2>3, <2>6, <2>8, <3>2, <4>1
      <4>3. Begins(c, s)
          BY <2>1, <4>2 DEF Ends, Misreads
      <4>4. half' = [half EXCEPT ![c] = s] /\ UNCHANGED misread
          BY <4>3 DEF Begins
      <4> QED
          BY <2>3, <2>5, <2>6, <2>8, <4>1, <4>4
    <3> QED
        BY <3>1, <3>2
  <2>9. ASSUME NEW d \in Conns PROVE StepInv(d)'
    <3>1. StepInv(d)
        BY <1>1
    <3>2. CASE d = c
        BY <2>1, <2>2, <2>8, <3>2 DEF StepInv
    <3>3. CASE d # c
        BY <2>1, <2>2, <2>13, <3>1, <3>3 DEF StepInv
    <3> QED
        BY <3>2, <3>3
  <2>10. R + 1 \in Int /\ R + 1 >= R
      BY <2>4
  <2>11. StreamInv'
      BY <2>2, <2>9 DEF StreamInv
  <2>12. ASSUME NEW d \in Conns PROVE Read(d)' \in Int /\ Read(d)' >= Read(d)
    <3>1. CASE d = c
        BY <2>2, <2>10, <3>1 DEF R
    <3>2. CASE d # c
        BY <1>2, <2>2, <3>2
    <3> QED
        BY <3>1, <3>2
  <2> QED
      BY <2>11, <2>12
<1>9. ASSUME NEW m \in Msgs, UsQueue(m) \/ UsReject(m) PROVE Goal
    BY <1>6, <1>9 DEF UsQueue, UsReject, svrVars
<1>10. ASSUME NEW c \in Conns, ConnectFails(c) \/ EvIn(c) PROVE Goal
    BY <1>6, <1>10 DEF ConnectFails, EvIn, svrVars
<1>11. ASSUME UNCHANGED vars PROVE Goal
  <2>1. UNCHANGED <<sent, out, wire, half, misread, cut>>
      BY <1>11 DEF vars, cliVars, svrVars
  <2> QED
      BY <1>6, <2>1
<1> HIDE DEF Goal
<1>12. ASSUME Next PROVE Goal
  <2>1. \/ \E m \in Msgs, n \in Conns : UsSend(m, n)
        \/ SendsPending
        \/ \E m \in Msgs : UsQueue(m) \/ UsReject(m)
        \/ \E c \in Conns : \/ ConnectFails(c)
                              \/ EvOut(c) \/ EvIn(c) \/ Break(c)
                              \/ BackendReads(c)
      BY <1>12 DEF Next, SendsPending
  <2>2. CASE \E m \in Msgs, n \in Conns : UsSend(m, n)
      BY <1>3, <2>2
  <2>3. CASE \E m \in Msgs : UsQueue(m) \/ UsReject(m)
      BY <1>9, <2>3
  <2>4. ASSUME NEW c \in Conns,
               \/ ConnectFails(c)
               \/ EvOut(c) \/ EvIn(c) \/ Break(c)
               \/ BackendReads(c)
        PROVE  Goal
      BY <1>5, <1>7, <1>8, <1>10, <2>4
  <2> QED
      BY <1>4, <2>1, <2>2, <2>3, <2>4
<1>13. Goal
    BY <1>11, <1>12
<1> QED
    BY <1>2, <1>13 DEF Goal

LEMMA StreamInit == Init => StreamInv
<1> SUFFICES ASSUME Init, NEW c \in Conns PROVE WireInv(c) /\ StepInv(c)
    BY DEF StreamInv
<1>1. sent[c] = <<>> /\ out[c] = <<>> /\ wire[c] = <<>> /\ half[c] = None /\ ~misread[c]
    BY DEF Init
<1>2. Len(sent[c]) = 0 /\ Len(out[c]) = 0 /\ Len(wire[c]) = 0
    BY <1>1
<1>3. Read(c) = 0
    BY <1>2 DEF Read
<1> QED
    BY <1>1, <1>2, <1>3 DEF WireInv, StepInv

LEMMA StreamAlways == Spec => []StreamInv
<1>1. TypeOK /\ StreamInv /\ [Next]_vars => StreamInv'
    BY StreamStep
<1> QED
    BY <1>1, StreamInit, UpstreamTypeCorrect, PTL DEF Spec

\* The backend finds a stream out of step only if the connection's last socket broke
\* between the pieces of a message: what one call of send() leaves in the output buffer
\* goes out before anything else, on this socket or on the next.
THEOREM InStepAlways == Spec => []InStep
<1>1. StreamInv => InStep
    BY DEF StreamInv, StepInv, InStep
<1> QED
    BY <1>1, StreamAlways, PTL

-----------------------------------------------------------------------------
(* No message is delivered twice.                                          *)

InSent(m) == \E c \in Conns : \E s \in 1..Len(sent[c]) : sent[c][s] = m

\* Nothing was done yet with a message that mrpc_us_send was not called for.
FreshInv == \A m \in Msgs : ret[m] = "none" => ~InSeq(m, pending) /\ ~InSent(m)

\* As long as no call of send() fails, a message is in one place only, ...
SentOnce ==
    \A c, d \in Conns : \A s \in 1..Len(sent[c]) : \A t \in 1..Len(sent[d]) :
        sent[c][s] = sent[d][t] => c = d /\ s = t

PendingOnce ==
    /\ \A i, j \in 1..Len(pending) : pending[i] = pending[j] => i = j
    /\ \A i \in 1..Len(pending) : ~InSent(pending[i])

\* ... and what was delivered is behind the place that the backend has reached.
Got(m) ==
    delivered[m] > 0 =>
        \E c \in Conns : \E s \in 1..Len(sent[c]) : sent[c][s] = m /\ 2 * s <= Read(c)

GotOnce == \A m \in Msgs : delivered[m] <= 1 /\ Got(m)

OnceInv == FreshInv /\ (errors = 0 => SentOnce /\ PendingOnce /\ GotOnce)

LEMMA AttemptOnce ==
    ASSUME TypeOK, NEW c \in Conns, NEW ms \in Seq(Msgs), NEW ok \in SUBSET (1..Len(ms)),
           NEW k \in Nat, Attempt(c, ms, ok, k)
    PROVE  /\ \A x : InSent(x)' => InSent(x) \/ \E i \in 1..Len(ms) : ms[i] = x
           /\ \A x : InSent(x) => InSent(x)'
           /\ (/\ SentOnce
               /\ \A i, j \in 1..Len(ms) : ms[i] = ms[j] => i = j
               /\ \A i \in 1..Len(ms) : ~InSent(ms[i])) => SentOnce'
           /\ (/\ GotOnce /\ UNCHANGED delivered
               /\ \A d \in Conns : Read(d)' = Read(d)) => GotOnce'
<1>1. /\ \A d \in Conns : \A s \in 1..Len(sent[d]) :
                 s \in 1..Len(sent'[d]) /\ sent'[d][s] = sent[d][s]
      /\ \A i \in 1..Len(ms) : sent'[c][Len(sent[c]) + i] = ms[i]
      /\ \A d \in Conns : \A s \in 1..Len(sent'[d]) :
                 \/ s \in 1..Len(sent[d])
                 \/ d = c /\ \E i \in 1..Len(ms) : s = Len(sent[c]) + i
    BY AttemptSent
<1>2. ASSUME NEW d \in Conns, NEW s \in 1..Len(sent'[d])
      PROVE  \/ s \in 1..Len(sent[d]) /\ sent'[d][s] = sent[d][s]
             \/ d = c /\ \E i \in 1..Len(ms) : s = Len(sent[c]) + i /\ sent'[d][s] = ms[i]
    BY <1>1
<1>3. \A x : InSent(x)' => InSent(x) \/ \E i \in 1..Len(ms) : ms[i] = x
  <2> SUFFICES ASSUME NEW x, InSent(x)'
               PROVE  InSent(x) \/ \E i \in 1..Len(ms) : ms[i] = x
      OBVIOUS
  <2>0. PICK d \in Conns : \E s \in 1..Len(sent'[d]) : sent'[d][s] = x
      BY DEF InSent
  <2>1. PICK s \in 1..Len(sent'[d]) : sent'[d][s] = x
      BY <2>0
  <2>2. CASE s \in 1..Len(sent[d]) /\ sent'[d][s] = sent[d][s]
      BY <2>1, <2>2 DEF InSent
  <2>3. CASE d = c /\ \E i \in 1..Len(ms) : s = Len(sent[c]) + i /\ sent'[d][s] = ms[i]
      BY <2>1, <2>3
  <2> QED
      BY <1>2, <2>2, <2>3
<1>4. \A x : InSent(x) => InSent(x)'
    BY <1>1 DEF InSent
<1>5. ASSUME SentOnce,
             \A i, j \in 1..Len(ms) : ms[i] = ms[j] => i = j,
             \A i \in 1..Len(ms) : ~InSent(ms[i])
      PROVE  SentOnce'
  <2> SUFFICES ASSUME NEW d \in Conns, NEW e \in Conns, NEW s \in 1..Len(sent'[d]),
                      NEW t \in 1..Len(sent'[e]), sent'[d][s] = sent'[e][t]
               PROVE  d = e /\ s = t
      BY DEF SentOnce
  <2>1. \/ s \in 1..Len(sent[d]) /\ sent'[d][s] = sent[d][s]
        \/ d = c /\ \E i \in 1..Len(ms) : s = Len(sent[c]) + i /\ sent'[d][s] = ms[i]
      BY <1>2
  <2>2. \/ t \in 1..Len(sent[e]) /\ sent'[e][t] = sent[e][t]
        \/ e = c /\ \E i \in 1..Len(ms) : t = Len(sent[c]) + i /\ sent'[e][t] = ms[i]
      BY <1>2
  <2>3. CASE /\ s \in 1..Len(sent[d]) /\ sent'[d][s] = sent[d][s]
             /\ t \in 1..Len(sent[e]) /\ sent'[e][t] = sent[e][t]
    <3>1. sent[d][s] = sent[e][t]
        BY <2>3
    <3>2. \A c1, d1 \in Conns : \A s1 \in 1..Len(sent[c1]) : \A t1 \in 1..Len(sent[d1]) :
              sent[c1][s1] = sent[d1][t1] => c1 = d1 /\ s1 = t1
        BY <1>5 DEF SentOnce
    <3>3. s \in 1..Len(sent[d]) /\ t \in 1..Len(sent[e])
        BY <2>3
    <3> QED
        BY <3>1, <3>2, <3>3
  <2>4. ASSUME s \in 1..Len(sent[d]) /\ sent'[d][s] = sent[d][s],
               NEW i \in 1..Len(ms), sent'[e][t] = ms[i]
        PROVE  FALSE
    <3>1. InSent(ms[i])
        BY <2>4 DEF InSent
    <3> QED
        BY <1>5, <3>1
  <2>5. ASSUME t \in 1..Len(sent[e]) /\ sent'[e][t] = sent[e][t],
               NEW i \in 1..Len(ms), sent'[d][s] = ms[i]
        PROVE  FALSE
    <3>1. InSent(ms[i])
        BY <2>5 DEF InSent
    <3> QED
        BY <1>5, <3>1
  <2>6. ASSUME d = c, e = c,
               NEW i \in 1..Len(ms), s = Len(sent[c]) + i, sent'[d][s] = ms[i],
               NEW j \in 1..Len(ms), t = Len(sent[c]) + j, sent'[e][t] = ms[j]
        PROVE  d = e /\ s = t
    <3>1. i = j
        BY <1>5, <2>6
    <3> QED
        BY <2>6, <3>1
  <2> QED
      BY <2>1, <2>2, <2>3, <2>4, <2>5, <2>6
<1>6. ASSUME GotOnce, UNCHANGED delivered, \A d \in Conns : Read(d)' = Read(d)
      PROVE  GotOnce'
  <2>1. ASSUME NEW m \in Msgs, delivered[m] > 0
        PROVE  \E d \in Conns : \E s \in 1..Len(sent'[d]) :
                   sent'[d][s] = m /\ 2 * s <= Read(d)'
    <3>1. PICK d \in Conns : \E s \in 1..Len(sent[d]) : sent[d][s] = m /\ 2 * s <= Read(d)
        BY <1>6, <2>1 DEF GotOnce, Got
    <3>2. PICK s \in 1..Len(sent[d]) : sent[d][s] = m /\ 2 * s <= Read(d)
        BY <3>1
    <3>3. s \in 1..Len(sent'[d]) /\ sent'[d][s] = m /\ 2 * s <= Read(d)'
        BY <1>1, <1>6, <3>2
    <3> QED
        BY <3>3
  <2>2. \A m \in Msgs : delivered[m] <= 1
      BY <1>6 DEF GotOnce
  <2> QED
      BY <1>6, <2>1, <2>2 DEF GotOnce, Got
<1> QED
    BY <1>3, <1>4, <1>5, <1>6

\* What leaves the pending list was in it.
LEMMA LeftFacts ==
    ASSUME pending \in Seq(Msgs), NEW j \in 0..Len(pending), pending' = LeftPending(j)
    PROVE  \A x : InSeq(x, pending') => InSeq(x, pending)
<1>1. /\ Len(pending') = Len(pending) - j
      /\ \A i \in 1..(Len(pending) - j) : pending'[i] = pending[j + i]
    BY TriedFacts
<1>2. Len(pending) \in Nat
    BY LenType
<1> SUFFICES ASSUME NEW i \in 1..Len(pending') PROVE InSeq(pending'[i], pending)
    BY DEF InSeq
<1>3. j + i \in 1..Len(pending) /\ i \in 1..(Len(pending) - j)
    BY <1>1, <1>2
<1>4. pending'[i] = pending[j + i]
    BY <1>1, <1>3
<1> QED
    BY <1>3, <1>4 DEF InSeq

\* What is left pending is still in one place only.
LEMMA LeftOnce ==
    ASSUME pending \in Seq(Msgs), NEW j \in 0..Len(pending), pending' = LeftPending(j),
           PendingOnce,
           \A x : \A i \in 1..Len(pending) :
              x = pending[i] /\ InSent(x)' => InSent(x) \/ i \in 1..j
    PROVE  PendingOnce'
<1>1. /\ Len(pending') = Len(pending) - j
      /\ \A i \in 1..(Len(pending) - j) : pending'[i] = pending[j + i]
    BY TriedFacts
<1>2. Len(pending) \in Nat
    BY LenType
<1>3. ASSUME NEW i \in 1..Len(pending')
      PROVE  /\ j + i \in 1..Len(pending) /\ j + i \notin 1..j
             /\ pending'[i] = pending[j + i]
    BY <1>1, <1>2
<1>4. ASSUME NEW i \in 1..Len(pending'), NEW l \in 1..Len(pending'), pending'[i] = pending'[l]
      PROVE  i = l
  <2>1. \A x, y \in 1..Len(pending) : pending[x] = pending[y] => x = y
      BY DEF PendingOnce
  <2>2. pending[j + i] = pending[j + l]
      BY <1>3, <1>4
  <2>3. j + i = j + l
      BY <1>3, <2>1, <2>2
  <2> QED
      BY <1>1, <1>2, <2>3
<1>5. ASSUME NEW x, NEW i \in 1..Len(pending'), x = pending'[i], InSent(x)' PROVE FALSE
  <2>1. InSent(x)
      BY <1>3, <1>5
  <2>2. \A l \in 1..Len(pending) : ~InSent(pending[l])
      BY DEF PendingOnce
  <2>3. x = pending[j + i] /\ j + i \in 1..Len(pending)
      BY <1>3, <1>5
  <2> QED
      BY <2>1, <2>2, <2>3
<1> QED
    BY <1>4, <1>5 DEF PendingOnce, InSent

\* The messages that a call of mrpc_us_send tries, when all goes well: of the pending
\* list and its own.
LEMMA FreshFacts ==
    ASSUME TypeOK, FreshInv, NEW m \in Msgs, ret[m] = "none", NEW j \in 0..Len(pending)
    PROVE  /\ \A i \in 1..Len(Tried(j)) : InSeq(Tried(j)[i], pending)
           /\ \A i \in 1..Len(Tried(j)) : Tried(j)[i] # m
           /\ PendingOnce => \A i, l \in 1..Len(Tried(j)) : Tried(j)[i] = Tried(j)[l] => i = l
           /\ PendingOnce => \A i \in 1..Len(Tried(j)) : ~InSent(Tried(j)[i])
<1>1. /\ Len(Tried(j)) <= Len(pending) /\ Tried(j) \in Seq(Msgs)
      /\ \A i \in 1..Len(Tried(j)) : Tried(j)[i] = pending[i]
      /\ pending \in Seq(Msgs)
    BY TriedFacts, TypeParts DEF RestTypes
<1>2. Len(pending) \in Nat /\ Len(Tried(j)) \in Nat
    BY <1>1, LenType
<1>3. \A i \in 1..Len(Tried(j)) : i \in 1..Len(pending)
    BY <1>1, <1>2
<1>4. \A i \in 1..Len(Tried(j)) : InSeq(Tried(j)[i], pending)
    BY <1>1, <1>3 DEF InSeq
<1>5. \A i \in 1..Len(Tried(j)) : Tried(j)[i] # m
    BY <1>4 DEF FreshInv
<1>6. ASSUME PendingOnce
      PROVE  /\ \A i, l \in 1..Len(Tried(j)) : Tried(j)[i] = Tried(j)[l] => i = l
             /\ \A i \in 1..Len(Tried(j)) : ~InSent(Tried(j)[i])
    BY <1>1, <1>3, <1>6 DEF PendingOnce
<1> QED
    BY <1>4, <1>5, <1>6

LEMMA OnceUsSend ==
    ASSUME TypeOK, StreamInv, OnceInv, NEW m \in Msgs, NEW n \in Conns, UsSend(m, n)
    PROVE  OnceInv'
<1>1. PICK c \in Conns, j \in 0..Len(pending), fails \in {0, 1}, k \in Nat :
          /\ UsSent(m, c, j, fails, k)
          /\ (Tried(j) \o <<m>>) \in Seq(Msgs)
          /\ Len(Tried(j) \o <<m>>) = j + Broken(j) + 1
          /\ (1..j) \union (IF fails = 0 THEN {Len(Tried(j) \o <<m>>)} ELSE {})
                \in SUBSET (1..Len(Tried(j) \o <<m>>))
    BY UsSendFacts
<1> DEFINE ms == Tried(j) \o <<m>>
           ok == (1..j) \union (IF fails = 0 THEN {Len(ms)} ELSE {})
<1>2. /\ Attempt(c, ms, ok, k) /\ ms \in Seq(Msgs) /\ ok \in SUBSET (1..Len(ms))
      /\ pending' = LeftPending(j)
      /\ errors' = errors + Broken(j) + fails
      /\ ret' = [ret EXCEPT ![m] = IF fails = 1 THEN "failed" ELSE "ok"]
      /\ UNCHANGED delivered
    BY <1>1 DEF UsSent
<1>3. ret[m] = "none" /\ RestTypes /\ pending \in Seq(Msgs)
    BY UsSendFacts, TypeParts DEF RestTypes
<1>4. Tried(j) \in Seq(Msgs)
    BY <1>3, TriedFacts
<1> DEFINE t == Tried(j)
           L == Len(Tried(j))
<1>5. /\ \A i \in 1..L : t[i] # m /\ InSeq(t[i], pending)
      /\ PendingOnce => \A i, l \in 1..L : t[i] = t[l] => i = l
      /\ PendingOnce => \A i \in 1..L : ~InSent(t[i])
    BY <1>3, FreshFacts DEF OnceInv
<1>6. Len(ms) = L + 1 /\ ms[L + 1] = m /\ \A i \in 1..L : ms[i] = t[i]
    BY <1>4, TriedAndOwn
<1>7. L \in Nat
    BY <1>4, LenType
<1>14. \A i \in 1..L : t[i] = pending[i] /\ i \in 1..Len(pending)
  <2>1. L <= Len(pending) /\ \A i \in 1..L : t[i] = pending[i]
      BY <1>3, TriedFacts
  <2>2. Len(pending) \in Nat
      BY <1>3, LenType
  <2> QED
      BY <1>7, <2>1, <2>2
<1> HIDE DEF ms, ok, t, L
<1>8. \A i \in 1..Len(ms) : i \in 1..L \/ i = L + 1
    BY <1>6, <1>7
<1>9. ~InSent(m) /\ ~InSeq(m, pending)
    BY <1>3 DEF OnceInv, FreshInv
<1>10. /\ \A x : InSent(x)' => InSent(x) \/ \E i \in 1..Len(ms) : ms[i] = x
       /\ (/\ SentOnce
           /\ \A i, l \in 1..Len(ms) : ms[i] = ms[l] => i = l
           /\ \A i \in 1..Len(ms) : ~InSent(ms[i])) => SentOnce'
       /\ (/\ GotOnce /\ UNCHANGED delivered
           /\ \A d \in Conns : Read(d)' = Read(d)) => GotOnce'
    BY <1>2, AttemptOnce
<1>11. \A d \in Conns : Read(d)' = Read(d)
    BY <1>2, AttemptWire DEF StreamInv
<1>12. FreshInv'
  <2> SUFFICES ASSUME NEW x \in Msgs, ret'[x] = "none"
               PROVE  ~InSeq(x, pending') /\ ~InSent(x)'
      BY DEF FreshInv
  <2>1. x # m /\ ret[x] = "none"
      BY <1>2, <1>3 DEF RestTypes
  <2>2. ~InSeq(x, pending) /\ ~InSent(x)
      BY <2>1 DEF OnceInv, FreshInv
  <2>3. \A i \in 1..Len(ms) : ms[i] # x
      BY <1>5, <1>6, <1>8, <2>1, <2>2
  <2>4. ~InSeq(x, pending')
      BY <1>2, <1>3, <2>2, LeftFacts
  <2> QED
      BY <1>10, <2>2, <2>3, <2>4
<1>13. ASSUME errors' = 0 PROVE SentOnce' /\ PendingOnce' /\ GotOnce'
  <2>1. errors + Broken(j) = 0
    <3>1. (Broken(j) = 0 \/ Broken(j) = 1) /\ errors \in Nat
        BY <1>3 DEF Broken, RestTypes
    <3>2. CASE fails = 0
      <4>1. errors + Broken(j) + 0 = 0
          BY <1>2, <1>13, <3>2
      <4> QED
          BY <3>1, <4>1
    <3>3. CASE fails = 1
      <4>1. errors + Broken(j) + 1 = 0
          BY <1>2, <1>13, <3>3
      <4> QED
          BY <3>1, <4>1
    <3> QED
        BY <3>2, <3>3
  <2>2. errors = 0 /\ L = j
      BY <2>1, AllTried DEF L
  <2>3. SentOnce /\ PendingOnce /\ GotOnce
      BY <2>2 DEF OnceInv
  <2>4. \A i \in 1..Len(ms) : ~InSent(ms[i])
      BY <1>5, <1>6, <1>8, <1>9, <2>3
  <2>5. ASSUME NEW i \in 1..Len(ms), NEW l \in 1..Len(ms), ms[i] = ms[l] PROVE i = l
      BY <1>5, <1>6, <1>8, <2>3, <2>5
  <2>6. ASSUME NEW x, NEW i \in 1..Len(pending), x = pending[i], InSent(x)'
        PROVE  InSent(x) \/ i \in 1..j
    <3> SUFFICES ASSUME NEW l \in 1..Len(ms), ms[l] = pending[i] PROVE i \in 1..j
        BY <1>10, <2>6
    <3>1. CASE l \in 1..L
      <4>1. pending[l] = pending[i] /\ l \in 1..Len(pending)
          BY <1>14, <1>6, <3>1
      <4>2. l = i
          BY <2>3, <4>1 DEF PendingOnce
      <4> QED
          BY <2>2, <3>1, <4>2
    <3>2. CASE l = L + 1
        BY <1>6, <1>9, <3>2 DEF InSeq
    <3> QED
        BY <1>8, <3>1, <3>2
  <2>7. PendingOnce'
      BY <1>2, <1>3, <2>3, <2>6, LeftOnce
  <2> QED
      BY <1>2, <1>10, <1>11, <2>3, <2>4, <2>5, <2>7
<1> QED
    BY <1>12, <1>13 DEF OnceInv

LEMMA OncePending ==
    ASSUME TypeOK, StreamInv, OnceInv, SendsPending
    PROVE  OnceInv'
<1>1. PICK c \in Conns, j \in 0..Len(pending), k \in Nat :
              /\ PendingWent(c, j, k)
              /\ Tried(j) \in Seq(Msgs)
              /\ 1..j \in SUBSET (1..Len(Tried(j)))
    BY PendingFacts
<1> DEFINE ms == Tried(j)
           ok == 1..j
<1>2. /\ Attempt(c, ms, ok, k) /\ ms \in Seq(Msgs) /\ ok \in SUBSET (1..Len(ms))
      /\ pending' = LeftPending(j) /\ errors' = errors + Broken(j)
      /\ UNCHANGED delivered
      /\ \A m \in Msgs : ret'[m] = "none" => ret[m] = "none"
    BY <1>1 DEF PendingWent, PendingSent
<1>3. RestTypes /\ pending \in Seq(Msgs)
    BY TypeParts DEF RestTypes
<1>4. ASSUME NEW m \in Msgs, ret[m] = "none" PROVE \A i \in 1..Len(ms) : ms[i] # m
    BY <1>4, FreshFacts DEF OnceInv
<1>5. \A i \in 1..Len(ms) : ms[i] = pending[i] /\ i \in 1..Len(pending)
  <2>1. Len(Tried(j)) <= Len(pending) /\ \A i \in 1..Len(Tried(j)) : Tried(j)[i] = pending[i]
      BY <1>3, TriedFacts
  <2>2. Len(Tried(j)) \in Nat /\ Len(pending) \in Nat
      BY <1>2, <1>3, LenType
  <2> QED
      BY <2>1, <2>2
<1> HIDE DEF ms, ok
<1>6. /\ \A x : InSent(x)' => InSent(x) \/ \E i \in 1..Len(ms) : ms[i] = x
      /\ (/\ SentOnce
          /\ \A i, l \in 1..Len(ms) : ms[i] = ms[l] => i = l
          /\ \A i \in 1..Len(ms) : ~InSent(ms[i])) => SentOnce'
      /\ (/\ GotOnce /\ UNCHANGED delivered
          /\ \A d \in Conns : Read(d)' = Read(d)) => GotOnce'
    BY <1>2, AttemptOnce
<1>7. \A d \in Conns : Read(d)' = Read(d)
    BY <1>2, AttemptWire DEF StreamInv
<1>8. FreshInv'
  <2> SUFFICES ASSUME NEW x \in Msgs, ret'[x] = "none"
               PROVE  ~InSeq(x, pending') /\ ~InSent(x)'
      BY DEF FreshInv
  <2>1. ret[x] = "none" /\ ~InSeq(x, pending) /\ ~InSent(x)
      BY <1>2 DEF OnceInv, FreshInv
  <2>2. ~InSeq(x, pending')
      BY <1>2, <1>3, <2>1, LeftFacts
  <2> QED
      BY <1>4, <1>6, <2>1, <2>2
<1>9. ASSUME errors' = 0 PROVE SentOnce' /\ PendingOnce' /\ GotOnce'
  <2>1. errors = 0 /\ Len(ms) = j
      BY <1>2, <1>9, AllTried DEF ms
  <2>2. SentOnce /\ PendingOnce /\ GotOnce
      BY <2>1 DEF OnceInv
  <2>3. /\ \A i \in 1..Len(ms) : ~InSent(ms[i])
        /\ \A i, l \in 1..Len(ms) : ms[i] = ms[l] => i = l
      BY <1>5, <2>2 DEF PendingOnce
  <2>4. ASSUME NEW x, NEW i \in 1..Len(pending), x = pending[i], InSent(x)'
        PROVE  InSent(x) \/ i \in 1..j
    <3> SUFFICES ASSUME NEW l \in 1..Len(ms), ms[l] = pending[i] PROVE i \in 1..j
        BY <1>6, <2>4
    <3>1. pending[l] = pending[i] /\ l \in 1..Len(pending)
        BY <1>5
    <3>2. l = i
        BY <2>2, <3>1 DEF PendingOnce
    <3> QED
        BY <2>1, <3>2
  <2>5. PendingOnce'
      BY <1>2, <1>3, <2>2, <2>4, LeftOnce
  <2> QED
      BY <1>2, <1>6, <1>7, <2>2, <2>3, <2>5
<1> QED
    BY <1>8, <1>9 DEF OnceInv

LEMMA OnceEvOut ==
    ASSUME TypeOK, StreamInv, OnceInv, NEW c \in Conns, EvOut(c)
    PROVE  OnceInv'
<1>1. PICK k \in Nat : Attempt(c, <<>>, {}, k)
    BY EvOutFacts
<1>2. /\ <<>> \in Seq(Msgs) /\ {} \in SUBSET (1..Len(<<>>)) /\ 1..Len(<<>>) = {}
      /\ UNCHANGED <<pending, ret, delivered, errors>>
    BY EvOutFacts
<1>3. \A d \in Conns : Read(d)' = Read(d)
    BY <1>1, <1>2, AttemptWire DEF StreamInv
<1>4. /\ \A x : InSent(x)' => InSent(x) \/ \E i \in 1..Len(<<>>) : <<>>[i] = x
      /\ SentOnce => SentOnce'
      /\ GotOnce => GotOnce'
    BY <1>1, <1>2, <1>3, AttemptOnce
<1>5. \A x : InSent(x)' => InSent(x)
    BY <1>2, <1>4
<1> QED
    BY <1>2, <1>4, <1>5 DEF OnceInv, FreshInv, PendingOnce

LEMMA OnceQueue ==
    ASSUME TypeOK, OnceInv, NEW m \in Msgs, UsQueue(m)
    PROVE  OnceInv'
<1>1. /\ pending' = Append(pending, m) /\ ret' = [ret EXCEPT ![m] = "ok"] /\ ret[m] = "none"
      /\ UNCHANGED <<sent, out, wire, delivered, errors>>
    BY DEF UsQueue, svrVars
<1>2. RestTypes /\ pending \in Seq(Msgs)
    BY TypeParts DEF RestTypes
<1>3. /\ Len(pending') = Len(pending) + 1 /\ pending'[Len(pending) + 1] = m
      /\ \A i \in 1..Len(pending) : pending'[i] = pending[i]
      /\ Len(pending) \in Nat
    BY <1>1, <1>2
<1>4. \A i \in 1..Len(pending') : i \in 1..Len(pending) \/ i = Len(pending) + 1
    BY <1>3
<1>5. ~InSent(m) /\ ~InSeq(m, pending)
    BY <1>1 DEF OnceInv, FreshInv
<1>6. \A x : InSent(x)' <=> InSent(x)
    BY <1>1 DEF InSent
<1>7. FreshInv'
  <2> SUFFICES ASSUME NEW x \in Msgs, ret'[x] = "none"
               PROVE  ~InSeq(x, pending') /\ ~InSent(x)'
      BY DEF FreshInv
  <2>1. x # m /\ ret[x] = "none"
      BY <1>1, <1>2 DEF RestTypes
  <2>2. ~InSeq(x, pending) /\ ~InSent(x)
      BY <2>1 DEF OnceInv, FreshInv
  <2>3. ~InSeq(x, pending')
      BY <1>3, <1>4, <2>1, <2>2 DEF InSeq
  <2> QED
      BY <1>6, <2>2, <2>3
<1>8. ASSUME errors' = 0 PROVE SentOnce' /\ PendingOnce' /\ GotOnce'
  <2>1. SentOnce /\ PendingOnce /\ GotOnce
      BY <1>1, <1>8 DEF OnceInv
  <2>2. SentOnce' /\ GotOnce'
    <3>1. \A d \in Conns : Read(d)' = Read(d)
        BY <1>1 DEF Read
    <3>2. GotOnce'
        BY <1>1, <2>1, <3>1 DEF GotOnce, Got
    <3>3. SentOnce'
        BY <1>1, <2>1 DEF SentOnce
    <3> QED
        BY <3>2, <3>3
  <2>3. \A i \in 1..Len(pending') : ~InSent(pending'[i])
      BY <1>3, <1>4, <1>5, <2>1 DEF PendingOnce
  <2>4. \A i \in 1..Len(pending) : pending'[i] = pending[i] /\ pending[i] # m
      BY <1>3, <1>5 DEF InSeq
  <2>5. ASSUME NEW i \in 1..Len(pending'), NEW l \in 1..Len(pending'), pending'[i] = pending'[l]
        PROVE  i = l
    <3>1. CASE i \in 1..Len(pending) /\ l \in 1..Len(pending)
        BY <2>1, <2>4, <2>5, <3>1 DEF PendingOnce
    <3>2. CASE i \in 1..Len(pending) /\ l = Len(pending) + 1
        BY <1>3, <2>4, <2>5, <3>2
    <3>3. CASE i = Len(pending) + 1 /\ l \in 1..Len(pending)
        BY <1>3, <2>4, <2>5, <3>3
    <3> QED
        BY <1>4, <3>1, <3>2, <3>3
  <2>6. PendingOnce'
      BY <1>6, <2>3, <2>5 DEF PendingOnce
  <2> QED
      BY <2>2, <2>6
<1> QED
    BY <1>7, <1>8 DEF OnceInv

LEMMA OnceReads ==
    ASSUME TypeOK, StreamInv, OnceInv, NEW c \in Conns, BackendReads(c)
    PROVE  OnceInv'
<1> DEFINE s == Head(wire[c])[1]
           R == Read(c)
<1>1. /\ wire[c] # <<>> /\ UNCHANGED <<sent, pending, ret, errors>>
      /\ Begins(c, s) \/ Ends(c, s) \/ Misreads(c, s)
    BY BackendReadsFacts DEF cliVars
<1>2. \A d \in Conns : WireInv(d)
    BY DEF StreamInv
<1>3. /\ Read(c)' = R + 1
      /\ \A d \in Conns : d # c => Read(d)' = Read(d)
    BY <1>2, ReadOne
<1>4. /\ s = (R + 2) \div 2
      /\ Head(wire[c])[2] = IF (R + 1) % 2 = 1 THEN 1 ELSE 2
    BY <1>1, <1>2, NextPiece
<1>5. s \in 1..Len(sent[c]) /\ sent[c][s] \in Msgs
    BY <1>1, HeadFacts
<1>6. \A d \in Conns : Read(d) \in Int /\ Len(sent[d]) \in Nat
    BY Lengths
<1>7. FreshInv'
    BY <1>1 DEF OnceInv, FreshInv, InSent
<1>8. delivered \in [Msgs -> Nat]
    BY TypeParts DEF RestTypes
<1>9. R \in Int
    BY <1>6
<1>10. \A d \in Conns : \A x \in Int : x <= Read(d) => x <= Read(d)'
  <2>1. \A x \in Int : x <= R => x <= R + 1
      BY <1>9
  <2> HIDE DEF R
  <2>2. ASSUME NEW d \in Conns, NEW x \in Int, x <= Read(d) PROVE x <= Read(d)'
    <3>1. CASE d = c
        BY <1>3, <2>1, <2>2, <3>1 DEF R
    <3>2. CASE d # c
        BY <1>3, <2>2, <3>2
    <3> QED
        BY <3>1, <3>2
  <2> QED
      BY <2>2
<1>11. ASSUME NEW m \in Msgs, Got(m), delivered[m] > 0
       PROVE  \E d \in Conns : \E t \in 1..Len(sent[d]) : sent[d][t] = m /\ 2 * t <= Read(d)'
  <2>1. PICK d \in Conns : \E t \in 1..Len(sent[d]) : sent[d][t] = m /\ 2 * t <= Read(d)
      BY <1>11 DEF Got
  <2>2. PICK t \in 1..Len(sent[d]) : sent[d][t] = m /\ 2 * t <= Read(d)
      BY <2>1
  <2>3. 2 * t \in Int
      BY <1>6
  <2> QED
      BY <1>10, <2>2, <2>3
<1> HIDE DEF s, R
<1>12. ASSUME errors' = 0 PROVE SentOnce' /\ PendingOnce' /\ GotOnce'
  <2>1. SentOnce /\ PendingOnce /\ GotOnce
      BY <1>1, <1>12 DEF OnceInv
  <2>2. SentOnce' /\ PendingOnce'
      BY <1>1, <2>1 DEF SentOnce, PendingOnce, InSent
  <2>3. CASE UNCHANGED delivered
      BY <1>1, <1>11, <2>1, <2>2, <2>3 DEF GotOnce, Got
  <2>4. CASE Ends(c, s)
    <3>1. /\ Head(wire[c])[2] = 2 /\ delivered' = [delivered EXCEPT ![sent[c][s]] = @ + 1]
        BY <2>4 DEF Ends
    <3>2. 2 * s = R + 1
      <4>1. (R + 1) % 2 # 1
          BY <1>4, <3>1
      <4> QED
          BY <1>4, <1>9, <4>1
    <3>3. delivered[sent[c][s]] = 0
      <4>1. SUFFICES ASSUME delivered[sent[c][s]] > 0 PROVE FALSE
          BY <1>5, <1>8
      <4>2. PICK d \in Conns :
                \E t \in 1..Len(sent[d]) : sent[d][t] = sent[c][s] /\ 2 * t <= Read(d)
          BY <1>5, <2>1, <4>1 DEF GotOnce, Got
      <4>3. PICK t \in 1..Len(sent[d]) : sent[d][t] = sent[c][s] /\ 2 * t <= Read(d)
          BY <4>2
      <4>4. d = c /\ t = s
          BY <1>5, <2>1, <4>3 DEF SentOnce
      <4>5. 2 * s <= R
          BY <4>3, <4>4 DEF R
      <4> QED
          BY <1>9, <3>2, <4>5
    <3>4. /\ \A m \in Msgs : m # sent[c][s] => delivered'[m] = delivered[m]
          /\ delivered'[sent[c][s]] = 1
        BY <1>5, <1>8, <3>1, <3>3
    <3>5. \A m \in Msgs : delivered'[m] <= 1
        BY <2>1, <3>4 DEF GotOnce
    <3>6. ASSUME NEW m \in Msgs PROVE Got(m)'
      <4>1. CASE m = sent[c][s]
        <5>1. 2 * s <= Read(c)'
            BY <1>3, <1>9, <3>2
        <5> QED
            BY <1>1, <1>5, <4>1, <5>1 DEF Got
      <4>2. CASE m # sent[c][s]
        <5>1. Got(m)
            BY <2>1 DEF GotOnce
        <5>2. delivered'[m] > 0 =>
                \E d \in Conns : \E t \in 1..Len(sent[d]) : sent[d][t] = m /\ 2 * t <= Read(d)'
            BY <1>11, <3>4, <4>2, <5>1
        <5> QED
            BY <1>1, <5>2 DEF Got
      <4> QED
          BY <4>1, <4>2
    <3> QED
        BY <2>2, <3>5, <3>6 DEF GotOnce
  <2> QED
      BY <1>1, <2>3, <2>4 DEF Begins, Misreads
<1> QED
    BY <1>7, <1>12 DEF OnceInv

\* The steps that give a connection nothing to send and deliver nothing.
LEMMA OnceKept ==
    ASSUME TypeOK, StreamInv, StreamInv', OnceInv, UNCHANGED <<sent, pending, delivered, errors>>,
           \A m \in Msgs : ret'[m] = "none" => ret[m] = "none",
           \A d \in Conns : Read(d) \in Int /\ Read(d)' \in Int /\ Read(d)' >= Read(d)
    PROVE  OnceInv'
<1>1. FreshInv'
    BY DEF OnceInv, FreshInv, InSent
<1>2. SentOnce => SentOnce'
    BY DEF SentOnce
<1>3. PendingOnce => PendingOnce'
    BY DEF PendingOnce, InSent
<1>4. ASSUME NEW m \in Msgs, Got(m) PROVE Got(m)'
  <2> SUFFICES ASSUME delivered[m] > 0
               PROVE  \E d \in Conns : \E t \in 1..Len(sent[d]) :
                          sent[d][t] = m /\ 2 * t <= Read(d)'
      BY DEF Got
  <2>1. PICK d \in Conns : \E t \in 1..Len(sent[d]) : sent[d][t] = m /\ 2 * t <= Read(d)
      BY <1>4 DEF Got
  <2>2. PICK t \in 1..Len(sent[d]) : sent[d][t] = m /\ 2 * t <= Read(d)
      BY <2>1
  <2>3. Len(sent[d]) \in Nat
      BY Lengths
  <2>4. 2 * t <= Read(d)'
      BY <2>2, <2>3
  <2> QED
      BY <2>2, <2>4
<1>5. GotOnce => GotOnce'
    BY <1>4 DEF GotOnce
<1> QED
    BY <1>1, <1>2, <1>3, <1>5 DEF OnceInv

LEMMA OnceStep == TypeOK /\ StreamInv /\ OnceInv /\ [Next]_vars => OnceInv'
<1> SUFFICES ASSUME TypeOK, StreamInv, OnceInv, [Next]_vars PROVE OnceInv'
    OBVIOUS
<1>1. /\ StreamInv'
      /\ \A d \in Conns : Read(d) \in Int /\ Read(d)' \in Int /\ Read(d)' >= Read(d)
    BY StreamStep
<1>2. ASSUME UNCHANGED <<sent, pending, delivered, errors>>,
             \A m \in Msgs : ret'[m] = "none" => ret[m] = "none"
      PROVE  OnceInv'
    BY <1>1, <1>2, OnceKept
<1>3. ASSUME NEW m \in Msgs, NEW n \in Conns, UsSend(m, n) PROVE OnceInv'
    BY <1>3, OnceUsSend
<1>4. ASSUME NEW m \in Msgs, UsQueue(m) PROVE OnceInv'
    BY <1>4, OnceQueue
<1>5. ASSUME NEW m \in Msgs, UsReject(m) PROVE OnceInv'
  <2>1. ret' = [ret EXCEPT ![m] = "full"] /\ UNCHANGED <<sent, pending, delivered, errors>>
      BY <1>5 DEF UsReject, svrVars
  <2>2. ret \in [Msgs -> {"none", "ok", "failed", "full"}]
      BY TypeParts DEF RestTypes
  <2>3. \A x \in Msgs : ret'[x] = "none" => ret[x] = "none"
      BY <2>1, <2>2
  <2> QED
      BY <1>2, <2>1, <2>3
<1>6. ASSUME SendsPending PROVE OnceInv'
    BY <1>6, OncePending
<1>7. ASSUME NEW c \in Conns, EvOut(c) PROVE OnceInv'
    BY <1>7, OnceEvOut
<1>8. ASSUME NEW c \in Conns, BackendReads(c) PROVE OnceInv'
    BY <1>8, OnceReads
<1>9. ASSUME NEW c \in Conns, ConnectFails(c) \/ EvIn(c) \/ Break(c) PROVE OnceInv'
  <2>1. UNCHANGED <<sent, pending, delivered, errors, ret>>
      BY <1>9 DEF ConnectFails, EvIn, Break, svrVars
  <2> QED
      BY <1>2, <2>1
<1>10. CASE UNCHANGED vars
  <2>1. UNCHANGED <<sent, pending, delivered, errors, ret>>
      BY <1>10 DEF vars, cliVars, svrVars
  <2> QED
      BY <1>2, <2>1
<1> QED
    BY <1>3, <1>4, <1>5, <1>6, <1>7, <1>8, <1>9, <1>10 DEF Next, SendsPending

LEMMA OnceInit == Init => OnceInv
<1> SUFFICES ASSUME Init PROVE OnceInv
    OBVIOUS
<1>1. /\ Len(pending) = 0 /\ \A c \in Conns : Len(sent[c]) = 0
      /\ delivered = [m \in Msgs |-> 0]
    BY DEF Init
<1>2. 1..Len(pending) = {} /\ \A c \in Conns : 1..Len(sent[c]) = {}
    BY <1>1
<1>3. FreshInv
    BY <1>2 DEF FreshInv, InSeq, InSent
<1>4. SentOnce /\ PendingOnce
    BY <1>2 DEF SentOnce, PendingOnce
<1>5. GotOnce
    BY <1>1 DEF GotOnce, Got
<1> QED
    BY <1>3, <1>4, <1>5 DEF OnceInv

\* As long as no call of send() fails, no message reaches the backend twice: it is sent
\* once, under one sequence number, on one connection.
THEOREM NoDuplicatesAlways == Spec => []NoDuplicates
<1>1. OnceInv => NoDuplicates
    BY DEF OnceInv, GotOnce, NoDuplicates
<1> QED
    BY <1>1, OnceInit, OnceStep, StreamAlways, UpstreamTypeCorrect, PTL DEF Spec
=============================================================================
