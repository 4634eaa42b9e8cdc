---------------------------- MODULE StreamProofs ----------------------------
(***************************************************************************)
(* Proofs about Stream, for any messages of any lengths, any sizes of the  *)
(* buffers and any number of sockets that end.                             *)
(***************************************************************************)
EXTENDS Stream, SequenceTheorems, NaturalsInduction, WellFoundedInduction, TLAPS

-----------------------------------------------------------------------------
(* Sequences.                                                              *)

LEMMA LenType ==
    ASSUME NEW S, NEW q \in Seq(S)
    PROVE  Len(q) \in Nat
OBVIOUS

LEMMA FromFacts ==
    ASSUME NEW S, NEW q \in Seq(S), NEW k \in 0..Len(q)
    PROVE  /\ From(q, k) \in Seq(S)
           /\ Len(From(q, k)) = Len(q) - k
           /\ \A i \in 1..(Len(q) - k) : From(q, k)[i] = q[k + i]
<1>1. From(q, k) \in Seq(S)
    BY DEF From
<1>2. Len(From(q, k)) = Len(q) - k
    BY DEF From
<1>3. ASSUME NEW i \in 1..(Len(q) - k) PROVE From(q, k)[i] = q[k + i]
    BY DEF From
<1> QED
    BY <1>1, <1>2, <1>3

LEMMA UpToFacts ==
    ASSUME NEW S, NEW q \in Seq(S), NEW k \in 0..Len(q)
    PROVE  /\ SubSeq(q, 1, k) \in Seq(S)
           /\ Len(SubSeq(q, 1, k)) = k
           /\ \A i \in 1..k : SubSeq(q, 1, k)[i] = q[i]
OBVIOUS

LEMMA PartFacts ==
    ASSUME NEW S, NEW q \in Seq(S), NEW k \in Nat, NEW l \in Nat, k + l <= Len(q)
    PROVE  /\ SubSeq(q, k + 1, k + l) \in Seq(S)
           /\ Len(SubSeq(q, k + 1, k + l)) = l
           /\ \A i \in 1..l : SubSeq(q, k + 1, k + l)[i] = q[k + i]
OBVIOUS

LEMMA ConcatFacts ==
    ASSUME NEW S, NEW q \in Seq(S), NEW r \in Seq(S)
    PROVE  /\ q \o r \in Seq(S)
           /\ Len(q \o r) = Len(q) + Len(r)
           /\ \A i \in 1..Len(q) : (q \o r)[i] = q[i]
           /\ \A i \in 1..Len(r) : (q \o r)[Len(q) + i] = r[i]
<1> DEFINE a == q \o r
<1>1. /\ a \in Seq(S) /\ Len(a) = Len(q) + Len(r)
      /\ \A i \in 1..(Len(q) + Len(r)) : a[i] = IF i <= Len(q) THEN q[i] ELSE r[i - Len(q)]
    BY ConcatProperties
<1>2. Len(q) \in Nat /\ Len(r) \in Nat
    BY LenType
<1> HIDE DEF a
<1>3. ASSUME NEW i \in 1..Len(q) PROVE a[i] = q[i]
    BY <1>1, <1>2
<1>4. ASSUME NEW i \in 1..Len(r) PROVE a[Len(q) + i] = r[i]
  <2>1. /\ Len(q) + i \in 1..(Len(q) + Len(r)) /\ ~(Len(q) + i <= Len(q))
        /\ (Len(q) + i) - Len(q) = i
      BY <1>2
  <2> QED
      BY <1>1, <2>1
<1> QED
    BY <1>1, <1>3, <1>4 DEF a

\* A sequence is what it is up to some place and from there on.
LEMMA UpToAndFrom ==
    ASSUME NEW S, NEW q \in Seq(S), NEW k \in 0..Len(q)
    PROVE  SubSeq(q, 1, k) \o From(q, k) = q
<1>1. /\ Len(q) \in Nat /\ 1 \in 1..(Len(q) + 1) /\ k \in (1 - 1)..Len(q)
      /\ Len(q) \in k..Len(q)
    BY LenType
<1>2. SubSeq(q, 1, k) \o SubSeq(q, k + 1, Len(q)) = SubSeq(q, 1, Len(q))
    BY <1>1, ConcatAdjacentSubSeq
<1>3. SubSeq(q, 1, Len(q)) = q
    BY SubSeqFull
<1> QED
    BY <1>2, <1>3, Zenon DEF From

LEMMA FromNone ==
    ASSUME NEW S, NEW q \in Seq(S)
    PROVE  From(q, 0) = q /\ From(q, Len(q)) = <<>>
<1>1. From(q, 0) = q
    BY SubSeqFull DEF From
<1>2. Len(q) \in Nat
    BY LenType
<1>3. From(q, Len(q)) = <<>>
    BY <1>2, SubSeqEmpty DEF From
<1> QED
    BY <1>1, <1>3

\* What is appended comes after what is left.
LEMMA FromConcat ==
    ASSUME NEW S, NEW q \in Seq(S), NEW r \in Seq(S), NEW k \in 0..Len(q)
    PROVE  /\ k \in 0..Len(q \o r)
           /\ From(q \o r, k) = From(q, k) \o r
<1>1. (q \o r) \in Seq(S) /\ Len(q \o r) = Len(q) + Len(r)
    BY ConcatFacts
<1>2. Len(q) \in Nat /\ Len(r) \in Nat
    BY LenType
<1>3. k \in 0..Len(q \o r)
    BY <1>1, <1>2
<1>4. /\ From(q, k) \in Seq(S) /\ Len(From(q, k)) = Len(q) - k
      /\ \A i \in 1..(Len(q) - k) : From(q, k)[i] = q[k + i]
    BY FromFacts
<1> DEFINE a == q \o r
           f == From(q, k)
           g == From(a, k)
           h == f \o r
<1>5. a \in Seq(S) /\ f \in Seq(S)
    BY <1>1, <1>4
<1> HIDE DEF a, f
<1>6. /\ g \in Seq(S) /\ Len(g) = Len(a) - k
      /\ \A i \in 1..(Len(a) - k) : g[i] = a[k + i]
    BY <1>3, <1>5, FromFacts DEF a
<1>7. /\ h \in Seq(S) /\ Len(h) = Len(f) + Len(r)
      /\ \A i \in 1..(Len(f) + Len(r)) : h[i] = IF i <= Len(f) THEN f[i] ELSE r[i - Len(f)]
    BY <1>5, ConcatProperties
<1>8. /\ Len(a) = Len(q) + Len(r)
      /\ \A i \in 1..(Len(q) + Len(r)) : a[i] = IF i <= Len(q) THEN q[i] ELSE r[i - Len(q)]
    BY ConcatProperties DEF a
<1>9. Len(f) = Len(q) - k /\ \A i \in 1..(Len(q) - k) : f[i] = q[k + i]
    BY <1>4 DEF f
<1> HIDE DEF g, h
<1>10. Len(g) = Len(h) /\ Len(g) = Len(q) + Len(r) - k
    BY <1>2, <1>6, <1>7, <1>8, <1>9
<1>11. ASSUME NEW i \in 1..Len(g) PROVE g[i] = h[i]
  <2>1. i \in 1..(Len(q) + Len(r) - k) /\ i \in Nat
      BY <1>2, <1>10
  <2>2. /\ k + i \in 1..(Len(q) + Len(r)) /\ i \in 1..(Len(a) - k)
        /\ i \in 1..(Len(f) + Len(r))
      BY <1>2, <1>8, <1>9, <2>1
  <2>3. g[i] = IF k + i <= Len(q) THEN q[k + i] ELSE r[(k + i) - Len(q)]
      BY <1>6, <1>8, <2>2
  <2>4. h[i] = IF i <= Len(f) THEN f[i] ELSE r[i - Len(f)]
      BY <1>7, <2>2
  <2>5. CASE k + i <= Len(q)
    <3>1. i <= Len(f) /\ i \in 1..(Len(q) - k)
        BY <1>2, <1>9, <2>1, <2>5
    <3> QED
        BY <1>9, <2>3, <2>4, <2>5, <3>1
  <2>6. CASE ~(k + i <= Len(q))
    <3>1. ~(i <= Len(f)) /\ (k + i) - Len(q) = i - Len(f)
        BY <1>2, <1>9, <2>1, <2>6
    <3> QED
        BY <2>3, <2>4, <2>6, <3>1
  <2> QED
      BY <2>5, <2>6
<1>12. g = h
    BY <1>6, <1>7, <1>10, <1>11, SeqEqual
<1> QED
    BY <1>3, <1>12 DEF a, f, g, h

LEMMA FromFrom ==
    ASSUME NEW S, NEW q \in Seq(S), NEW k \in 0..Len(q), NEW l \in 0..(Len(q) - k)
    PROVE  /\ k + l \in 0..Len(q)
           /\ From(From(q, k), l) = From(q, k + l)
<1>1. Len(q) \in Nat
    BY LenType
<1>2. k + l \in 0..Len(q)
    BY <1>1
<1> DEFINE f == From(q, k)
           g == From(f, l)
           h == From(q, k + l)
<1>3. /\ f \in Seq(S) /\ Len(f) = Len(q) - k
      /\ \A i \in 1..(Len(q) - k) : f[i] = q[k + i]
    BY FromFacts
<1> HIDE DEF f
<1>4. l \in 0..Len(f)
    BY <1>3
<1>5. /\ g \in Seq(S) /\ Len(g) = Len(f) - l
      /\ \A i \in 1..(Len(f) - l) : g[i] = f[l + i]
    BY <1>3, <1>4, FromFacts, ZenonT(60)
<1>6. /\ h \in Seq(S) /\ Len(h) = Len(q) - (k + l)
      /\ \A i \in 1..(Len(q) - (k + l)) : h[i] = q[(k + l) + i]
    BY <1>2, FromFacts
<1> HIDE DEF g, h
<1>7. Len(g) = Len(h)
    BY <1>1, <1>3, <1>5, <1>6
<1>8. ASSUME NEW i \in 1..Len(g) PROVE g[i] = h[i]
  <2>1. /\ i \in 1..(Len(f) - l) /\ l + i \in 1..(Len(q) - k)
        /\ i \in 1..(Len(q) - (k + l)) /\ k + (l + i) = (k + l) + i
      BY <1>1, <1>3, <1>5
  <2>2. g[i] = f[l + i] /\ f[l + i] = q[k + (l + i)] /\ h[i] = q[(k + l) + i]
      BY <1>3, <1>5, <1>6, <2>1
  <2> QED
      BY <2>1, <2>2
<1>9. g = h
    BY <1>5, <1>6, <1>7, <1>8, SeqEqual
<1> QED
    BY <1>2, <1>9 DEF f, g, h

\* Concatenation as an operator of its own: whatever only needs what the two lemmas
\* say of it is proved without the definition of \o.
Behind(q, y) == q \o y

LEMMA BehindType ==
    ASSUME NEW S
    PROVE  \A q, y \in Seq(S) : Behind(q, y) \in Seq(S)
BY ConcatFacts DEF Behind

LEMMA BehindAssociative ==
    ASSUME NEW S
    PROVE  \A a, b, c \in Seq(S) : Behind(Behind(a, b), c) = Behind(a, Behind(b, c))
<1> TAKE a, b, c \in Seq(S)
<1>1. (a \o b) \o c = a \o (b \o c)
    BY ConcatAssociative
<1> QED
    BY <1>1 DEF Behind

\* Four sequences one behind the other.
Four(a, k, f, s) == a \o (k \o (f \o s))

LEMMA FourIsBehind ==
    \A a, k, f, s : Four(a, k, f, s) = Behind(a, Behind(k, Behind(f, s)))
BY DEF Four, Behind

LEMMA FourType ==
    ASSUME NEW S
    PROVE  \A a, k, f, s \in Seq(S) : Four(a, k, f, s) \in Seq(S)
<1> TAKE a, k, f, s \in Seq(S)
<1>1. Behind(f, s) \in Seq(S)
    BY BehindType
<1>2. Behind(k, Behind(f, s)) \in Seq(S)
    BY <1>1, BehindType
<1> QED
    BY <1>2, BehindType, FourIsBehind

\* What is put behind the last of them is behind all of them.
LEMMA FourBehind ==
    ASSUME NEW S
    PROVE  \A a, k, f, s, y \in Seq(S) : Four(a, k, f, Behind(s, y)) = Behind(Four(a, k, f, s), y)
<1> TAKE a, k, f, s, y \in Seq(S)
<1>1. /\ Behind(f, s) \in Seq(S)
      /\ Behind(Behind(f, s), y) = Behind(f, Behind(s, y))
    BY BehindType, BehindAssociative
<1> DEFINE g == Behind(f, s)
<1>2. g \in Seq(S)
    BY <1>1
<1> HIDE DEF g
<1>3. /\ Behind(k, g) \in Seq(S)
      /\ Behind(Behind(k, g), y) = Behind(k, Behind(g, y))
    BY <1>2, BehindType, BehindAssociative
<1> DEFINE h == Behind(k, g)
<1>4. h \in Seq(S)
    BY <1>3
<1> HIDE DEF h
<1>5. Behind(Behind(a, h), y) = Behind(a, Behind(h, y))
    BY <1>4, BehindAssociative
<1>6. /\ Four(a, k, f, Behind(s, y)) = Behind(a, Behind(k, Behind(g, y)))
      /\ Four(a, k, f, s) = Behind(a, h)
    BY <1>1, FourIsBehind DEF g, h
<1> QED
    BY <1>3, <1>5, <1>6 DEF h

\* What moves from the third of them to the second stays where it is; so does what
\* moves from the second to the first.
LEMMA FourArrive ==
    ASSUME NEW S
    PROVE  \A a, k, u, f, s \in Seq(S) : Four(a, k \o u, f, s) = Four(a, k, u \o f, s)
<1> TAKE a, k, u, f, s \in Seq(S)
<1>1. /\ Behind(f, s) \in Seq(S)
      /\ Behind(Behind(u, f), s) = Behind(u, Behind(f, s))
    BY BehindType, BehindAssociative
<1>2. Behind(Behind(k, u), Behind(f, s)) = Behind(k, Behind(u, Behind(f, s)))
    BY <1>1, BehindAssociative
<1>3. Four(a, Behind(k, u), f, s) = Four(a, k, Behind(u, f), s)
    BY <1>1, <1>2, FourIsBehind
<1> QED
    BY <1>3 DEF Behind

LEMMA FourFront ==
    ASSUME NEW S
    PROVE  \A a, k, f, s \in Seq(S) : Four(a, k, f, s) = Behind(a \o k, f \o s)
<1> TAKE a, k, f, s \in Seq(S)
<1>1. Behind(f, s) \in Seq(S)
    BY BehindType
<1>2. Behind(Behind(a, k), Behind(f, s)) = Behind(a, Behind(k, Behind(f, s)))
    BY <1>1, BehindAssociative
<1>3. Four(a, k, f, s) = Behind(Behind(a, k), Behind(f, s))
    BY <1>2, FourIsBehind
<1> QED
    BY <1>3 DEF Behind

LEMMA FourNoSender ==
    ASSUME NEW S
    PROVE  \A a, k \in Seq(S) : Four(a, k, <<>>, <<>>) = a \o k
<1> TAKE a, k \in Seq(S)
<1>1. <<>> \o <<>> = <<>> /\ k \o <<>> = k
    BY ConcatEmptySeq
<1> QED
    BY <1>1 DEF Four

LEMMA FourRead ==
    ASSUME NEW S
    PROVE  \A a, k, f, s \in Seq(S) : Four(a \o k, <<>>, f, s) = Four(a, k, f, s)
<1> TAKE a, k, f, s \in Seq(S)
<1>1. Behind(f, s) \in Seq(S)
    BY BehindType
<1>2. Behind(<<>>, Behind(f, s)) = Behind(f, s)
    BY <1>1, ConcatEmptySeq DEF Behind
<1>3. Behind(Behind(a, k), Behind(f, s)) = Behind(a, Behind(k, Behind(f, s)))
    BY <1>1, BehindAssociative
<1>4. Four(Behind(a, k), <<>>, f, s) = Four(a, k, f, s)
    BY <1>2, <1>3, FourIsBehind
<1> QED
    BY <1>4 DEF Behind

\* What is taken from the first of them is taken from all of them.
LEMMA FourFrom ==
    ASSUME NEW S, NEW a \in Seq(S), NEW k \in Seq(S), NEW f \in Seq(S), NEW s \in Seq(S),
           NEW l \in 0..Len(a)
    PROVE  /\ l \in 0..Len(Four(a, k, f, s))
           /\ From(Four(a, k, f, s), l) = Four(From(a, l), k, f, s)
<1> DEFINE g == f \o s
<1>1. g \in Seq(S)
    BY ConcatFacts
<1> HIDE DEF g
<1> DEFINE h == k \o g
<1>2. h \in Seq(S)
    BY <1>1, ConcatFacts
<1> HIDE DEF h
<1>3. l \in 0..Len(a \o h) /\ From(a \o h, l) = From(a, l) \o h
    BY <1>2, FromConcat
<1> QED
    BY <1>3 DEF Four, g, h

\* All of them begin with the first of them.
LEMMA FourFirst ==
    ASSUME NEW S
    PROVE  \A a, k, f, s \in Seq(S) :
               /\ Len(a) <= Len(Four(a, k, f, s))
               /\ \A i \in 1..Len(a) : Four(a, k, f, s)[i] = a[i]
<1> TAKE a, k, f, s \in Seq(S)
<1> DEFINE g == f \o s
<1>1. g \in Seq(S)
    BY ConcatFacts
<1> HIDE DEF g
<1> DEFINE h == k \o g
<1>2. h \in Seq(S)
    BY <1>1, ConcatFacts
<1> HIDE DEF h
<1>3. Len(a \o h) = Len(a) + Len(h) /\ \A i \in 1..Len(a) : (a \o h)[i] = a[i]
    BY <1>2, ConcatFacts
<1>4. Len(a) \in Nat /\ Len(h) \in Nat
    BY <1>2, LenType
<1>5. Len(a) <= Len(a \o h)
    BY <1>3, <1>4
<1> QED
    BY <1>3, <1>5 DEF Four, g, h

-----------------------------------------------------------------------------
(* Types.                                                                  *)

Byte == UNION {{<<m, i>> : i \in 1..Length[m]} : m \in 1..N}

\* TypeOK but for the sizes of the buffers.  A stream that has ended has no sender
\* any more.
SeqTypes ==
    /\ sBuf \in Seq(Byte) /\ flight \in Seq(Byte) /\ kern \in Seq(Byte) /\ rBuf \in Seq(Byte)
    /\ sOff \in 0..Len(sBuf)
    /\ rOff \in 0..Len(rBuf)
    /\ Space \in Nat

RestTypes ==
    /\ queued \in 0..N
    /\ parsed \in Seq(1..N)
    /\ pc \in {"wait", "parse"}
    /\ breaks \in Nat

EndInv == ended => sBuf = <<>> /\ flight = <<>> /\ breaks > 0

FlagTypes ==
    /\ blocked \in BOOLEAN /\ wEdge \in BOOLEAN /\ rEdge \in BOOLEAN
    /\ keeps \in BOOLEAN /\ ended \in BOOLEAN /\ cut \in BOOLEAN

StreamTypes == SeqTypes /\ RestTypes /\ EndInv /\ FlagTypes

LEMMA Bounds ==
    /\ N \in Nat /\ Capacity \in Nat \ {0} /\ BufSize \in Nat \ {0}
    /\ \A m \in 1..N : Length[m] \in Nat \ {0}
BY StreamAssumption

LEMMA ByteFacts ==
    ASSUME NEW b \in Byte
    PROVE  /\ b[1] \in 1..N /\ b[2] \in 1..Length[b[1]] /\ b = <<b[1], b[2]>>
           /\ Length[b[1]] \in Nat \ {0} /\ b[1] \in Nat /\ b[2] \in Nat \ {0}
<1>1. PICK m \in 1..N : b \in {<<m, i>> : i \in 1..Length[m]}
    BY DEF Byte
<1>2. PICK i \in 1..Length[m] : b = <<m, i>>
    BY <1>1
<1>3. Length[m] \in Nat \ {0} /\ m \in Nat
    BY Bounds
<1> QED
    BY <1>2, <1>3

LEMMA BytesFacts ==
    ASSUME NEW m \in 1..N
    PROVE  /\ Bytes(m) \in Seq(Byte)
           /\ Len(Bytes(m)) = Length[m]
           /\ \A i \in 1..Length[m] : Bytes(m)[i] = <<m, i>>
<1>1. Length[m] \in Nat
    BY Bounds
<1>2. \A i \in 1..Length[m] : <<m, i>> \in Byte
    BY DEF Byte
<1>3. Bytes(m) \in [1..Length[m] -> Byte]
    BY <1>2 DEF Bytes
<1>4. Bytes(m) \in Seq(Byte) /\ Len(Bytes(m)) = Length[m]
    BY <1>1, <1>3
<1>5. \A i \in 1..Length[m] : Bytes(m)[i] = <<m, i>>
    BY DEF Bytes
<1> QED
    BY <1>4, <1>5

LEMMA MinPair ==
    ASSUME NEW a \in Nat, NEW b \in Nat
    PROVE  /\ Min({a, b}) \in Nat /\ Min({a, b}) <= a /\ Min({a, b}) <= b
           /\ Min({a, b}) = a \/ Min({a, b}) = b
<1>1. \E x \in {a, b} : \A y \in {a, b} : x <= y
  <2>1. CASE a <= b
      BY <2>1
  <2>2. CASE ~(a <= b)
      BY <2>2
  <2> QED
      BY <2>1, <2>2
<1>2. Min({a, b}) \in {a, b} /\ \A y \in {a, b} : Min({a, b}) <= y
    BY <1>1 DEF Min
<1> QED
    BY <1>2

\* What mrpc_send2 moves keeps its place: what is in flight and what is left in the
\* buffer are, one behind the other, what they were.
LEMMA FlushFacts ==
    ASSUME SeqTypes, NEW b \in Seq(Byte), NEW off \in 0..Len(b), NEW len,
           Flush(b, off, len), UNCHANGED kern
    PROVE  /\ sBuf' \in Seq(Byte) /\ sOff' \in 0..Len(sBuf')
           /\ flight' \in Seq(Byte) /\ Space' \in Nat /\ blocked' \in BOOLEAN
           /\ flight' \o From(sBuf', sOff') = flight \o From(b, off)
<1> DEFINE rest == From(b, off)
           k == Min({Len(rest), Space})
<1>1. rest \in Seq(Byte) /\ Len(rest) = Len(b) - off
    BY FromFacts
<1>2. /\ flight \in Seq(Byte) /\ kern \in Seq(Byte) /\ Space \in Nat
      /\ Space = Capacity - Len(flight) - Len(kern)
    BY DEF SeqTypes, Space
<1>3. Space' = Capacity - Len(flight') - Len(kern)
    BY DEF Space
<1>4. /\ flight' = flight \o SubSeq(rest, 1, k)
      /\ blocked' = (k < Len(rest))
      /\ IF k = Len(rest)
         THEN sBuf' = <<>> /\ sOff' = 0
         ELSE sBuf' = b /\ sOff' = off + k
    BY DEF Flush, Offset
<1>5. Len(b) \in Nat /\ Len(flight) \in Nat /\ Len(kern) \in Nat /\ Capacity \in Nat
    BY <1>2, LenType, Bounds
<1> HIDE DEF rest
<1>6. Len(rest) \in Nat
    BY <1>1, LenType
<1>7. k \in Nat /\ k <= Len(rest) /\ k <= Space
    BY <1>2, <1>6, MinPair
<1> HIDE DEF k
<1>8. k \in 0..Len(rest)
    BY <1>6, <1>7
<1>9. SubSeq(rest, 1, k) \in Seq(Byte) /\ Len(SubSeq(rest, 1, k)) = k
    BY <1>1, <1>8, UpToFacts
<1>10. flight' \in Seq(Byte) /\ Len(flight') = Len(flight) + k
    BY <1>2, <1>4, <1>9, ConcatFacts
<1>11. Space' \in Nat
    BY <1>2, <1>3, <1>5, <1>7, <1>10
<1>12. From(rest, k) \in Seq(Byte) /\ SubSeq(rest, 1, k) \o From(rest, k) = rest
    BY <1>1, <1>8, FromFacts, UpToAndFrom
<1>13. /\ sBuf' \in Seq(Byte) /\ sOff' \in 0..Len(sBuf') /\ From(sBuf', sOff') = From(rest, k)
  <2>1. CASE k = Len(rest)
    <3>1. sBuf' = <<>> /\ sOff' = 0
        BY <1>4, <2>1
    <3>2. <<>> \in Seq(Byte) /\ Len(<<>>) = 0
        OBVIOUS
    <3>3. From(<<>>, 0) = <<>>
        BY <3>2, FromNone
    <3>4. From(rest, k) = <<>>
        BY <1>1, <2>1, FromNone
    <3> QED
        BY <3>1, <3>2, <3>3, <3>4
  <2>2. CASE k # Len(rest)
    <3>1. sBuf' = b /\ sOff' = off + k
        BY <1>4, <2>2
    <3>2. k \in 0..(Len(b) - off)
        BY <1>1, <1>8
    <3>3. off + k \in 0..Len(b) /\ From(From(b, off), k) = From(b, off + k)
        BY <3>2, FromFrom
    <3> QED
        BY <3>1, <3>3 DEF rest
  <2> QED
      BY <2>1, <2>2
<1>14. flight' \o From(sBuf', sOff') = flight \o rest
  <2> DEFINE up == SubSeq(rest, 1, k)
             fr == From(rest, k)
  <2>1. up \in Seq(Byte) /\ fr \in Seq(Byte) /\ up \o fr = rest
      BY <1>9, <1>12
  <2>2. flight' = flight \o up /\ From(sBuf', sOff') = fr
      BY <1>4, <1>13
  <2> HIDE DEF up, fr
  <2>3. (flight \o up) \o fr = flight \o (up \o fr)
    <3>1. flight \in Seq(Byte) /\ up \in Seq(Byte) /\ fr \in Seq(Byte)
        BY <1>2, <2>1
    <3>2. Behind(Behind(flight, up), fr) = Behind(flight, Behind(up, fr))
        BY <3>1, BehindAssociative
    <3> QED
        BY <3>2 DEF Behind
  <2> QED
      BY <2>1, <2>2, <2>3
<1>15. blocked' \in BOOLEAN
    BY <1>4
<1> QED
    BY <1>10, <1>11, <1>13, <1>14, <1>15 DEF rest

-----------------------------------------------------------------------------
(* The line of bytes from the receiver back to the sender.                 *)

Line == Four(From(rBuf, rOff), kern, flight, From(sBuf, sOff))

LEMMA LineParts ==
    ASSUME SeqTypes
    PROVE  /\ From(rBuf, rOff) \in Seq(Byte) /\ Len(From(rBuf, rOff)) = Len(rBuf) - rOff
           /\ \A i \in 1..(Len(rBuf) - rOff) : From(rBuf, rOff)[i] = rBuf[rOff + i]
           /\ From(sBuf, sOff) \in Seq(Byte)
           /\ flight \in Seq(Byte) /\ kern \in Seq(Byte) /\ Line \in Seq(Byte)
<1>1. /\ From(rBuf, rOff) \in Seq(Byte) /\ Len(From(rBuf, rOff)) = Len(rBuf) - rOff
      /\ \A i \in 1..(Len(rBuf) - rOff) : From(rBuf, rOff)[i] = rBuf[rOff + i]
    BY FromFacts DEF SeqTypes
<1>2. From(sBuf, sOff) \in Seq(Byte)
    BY FromFacts DEF SeqTypes
<1>3. flight \in Seq(Byte) /\ kern \in Seq(Byte)
    BY DEF SeqTypes
<1>4. Line \in Seq(Byte)
    BY <1>1, <1>2, <1>3, FourType DEF Line
<1> QED
    BY <1>1, <1>2, <1>3, <1>4

LEMMA LineBehind ==
    ASSUME SeqTypes, NEW y \in Seq(Byte)
    PROVE  Four(From(rBuf, rOff), kern, flight, From(sBuf, sOff) \o y) = Line \o y
<1>1. /\ From(rBuf, rOff) \in Seq(Byte) /\ From(sBuf, sOff) \in Seq(Byte)
      /\ flight \in Seq(Byte) /\ kern \in Seq(Byte)
    BY LineParts
<1>2. Four(From(rBuf, rOff), kern, flight, Behind(From(sBuf, sOff), y))
      = Behind(Four(From(rBuf, rOff), kern, flight, From(sBuf, sOff)), y)
    BY <1>1, FourBehind
<1> QED
    BY <1>2 DEF Line, Behind

\* What each step does to the types and to the line.
LEMMA QueueLine ==
    ASSUME StreamTypes, Queue
    PROVE  StreamTypes' /\ queued + 1 \in 1..N /\ Line' = Line \o Bytes(queued + 1)
<1> DEFINE n == queued + 1
           b == sBuf \o Bytes(n)
           a == From(rBuf, rOff)
           s == From(sBuf, sOff)
           y == Bytes(n)
<1>1. SeqTypes /\ RestTypes /\ FlagTypes /\ ~ended
    BY DEF StreamTypes, Queue
<1>2. n \in 1..N /\ queued < N
    BY <1>1, Bounds DEF RestTypes, Queue
<1>3. y \in Seq(Byte)
    BY <1>2, BytesFacts
<1>4. /\ Flush(b, sOff, Enlarged(sLen, Len(b))) /\ queued' = n
      /\ UNCHANGED <<pc, rBuf, rOff, rLen, parsed, keeps, ended, breaks, cut, wEdge, kern, rEdge>>
    BY DEF Queue, rVars, endVars
<1>5. sBuf \in Seq(Byte) /\ sOff \in 0..Len(sBuf) /\ kern \in Seq(Byte) /\ flight \in Seq(Byte)
    BY <1>1 DEF SeqTypes
<1>6. a \in Seq(Byte) /\ s \in Seq(Byte)
    BY <1>1, LineParts
<1> HIDE DEF y, n
<1>7. b \in Seq(Byte) /\ sOff \in 0..Len(b) /\ From(b, sOff) = s \o y
  <2>1. (sBuf \o y) \in Seq(Byte)
      BY <1>3, <1>5, ConcatFacts
  <2>2. sOff \in 0..Len(sBuf \o y) /\ From(sBuf \o y, sOff) = From(sBuf, sOff) \o y
      BY <1>3, <1>5, FromConcat
  <2> QED
      BY <2>1, <2>2 DEF y
<1> HIDE DEF a, b, s
<1>8. /\ sBuf' \in Seq(Byte) /\ sOff' \in 0..Len(sBuf')
      /\ flight' \in Seq(Byte) /\ Space' \in Nat /\ blocked' \in BOOLEAN
      /\ flight' \o From(sBuf', sOff') = flight \o From(b, sOff)
    BY <1>1, <1>4, <1>7, FlushFacts
<1>9. SeqTypes'
    BY <1>1, <1>4, <1>8 DEF SeqTypes
<1>10. RestTypes' /\ EndInv' /\ FlagTypes'
    BY <1>1, <1>2, <1>4, <1>8, Bounds DEF RestTypes, EndInv, FlagTypes
<1>11. Line' = Four(a, kern, flight, s \o y)
    BY <1>4, <1>7, <1>8 DEF Line, a, Four
<1>12. Four(a, kern, flight, s \o y) = Line \o y
    BY <1>1, <1>3, LineBehind DEF a, s
<1>13. Line' = Line \o y
    BY <1>11, <1>12
<1> QED
    BY <1>2, <1>9, <1>10, <1>13 DEF StreamTypes, n, y

LEMMA WritableLine ==
    ASSUME StreamTypes, Writable
    PROVE  StreamTypes' /\ Line' = Line
<1>1. SeqTypes /\ RestTypes /\ FlagTypes /\ EndInv
    BY DEF StreamTypes
<1>2. /\ Flush(sBuf, sOff, sLen) /\ wEdge' = FALSE
      /\ UNCHANGED <<queued, pc, rBuf, rOff, rLen, parsed, keeps, ended, breaks, cut, kern, rEdge>>
    BY DEF Writable, rVars, endVars
<1>3. sBuf \in Seq(Byte) /\ sOff \in 0..Len(sBuf)
    BY <1>1 DEF SeqTypes
<1>4. /\ sBuf' \in Seq(Byte) /\ sOff' \in 0..Len(sBuf')
      /\ flight' \in Seq(Byte) /\ Space' \in Nat /\ blocked' \in BOOLEAN
      /\ flight' \o From(sBuf', sOff') = flight \o From(sBuf, sOff)
    BY <1>1, <1>2, <1>3, FlushFacts
<1>5. SeqTypes'
    BY <1>1, <1>2, <1>4 DEF SeqTypes
<1>6. RestTypes' /\ FlagTypes'
    BY <1>1, <1>2, <1>4 DEF RestTypes, FlagTypes
<1>7. EndInv'
  <2> SUFFICES ASSUME ended PROVE sBuf' = <<>> /\ flight' = <<>> /\ breaks' > 0
      BY <1>2 DEF EndInv
  <2>1. sBuf = <<>> /\ flight = <<>> /\ breaks > 0
      BY <1>1 DEF EndInv
  <2>2. sOff = 0
      BY <1>3, <2>1
  <2>3. From(sBuf, sOff) = <<>>
      BY <1>3, <2>1, <2>2, FromNone
  <2>4. <<>> \o SubSeq(<<>>, 1, Min({Len(<<>>), Space})) = <<>> /\ Min({Len(<<>>), Space}) = Len(<<>>)
    <3>1. Len(<<>>) = 0 /\ Space \in Nat
        BY <1>1 DEF SeqTypes
    <3>2. Min({0, Space}) = 0
        BY <3>1, MinPair
    <3> QED
        BY <3>1, <3>2
  <2> QED
      BY <1>2, <2>1, <2>3, <2>4 DEF Flush
<1>8. Line' = Line
    BY <1>2, <1>4 DEF Line, Four
<1> QED
    BY <1>5, <1>6, <1>7, <1>8 DEF StreamTypes

LEMMA ArriveLine ==
    ASSUME StreamTypes, NEW k \in 1..Len(flight), Arrive(k)
    PROVE  StreamTypes' /\ Line' = Line
<1> DEFINE up == SubSeq(flight, 1, k)
           fr == From(flight, k)
           a == From(rBuf, rOff)
           s == From(sBuf, sOff)
<1>1. SeqTypes /\ RestTypes /\ FlagTypes /\ EndInv
    BY DEF StreamTypes
<1>2. /\ flight' = fr /\ kern' = kern \o up /\ rEdge' = TRUE
      /\ UNCHANGED <<queued, sBuf, sOff, sLen, pc, rBuf, rOff, rLen, parsed, keeps, ended,
                     breaks, cut, blocked, wEdge>>
    BY DEF Arrive, sVars, rVars, endVars
<1>3. flight \in Seq(Byte) /\ kern \in Seq(Byte) /\ Space \in Nat
    BY <1>1 DEF SeqTypes
<1>4. Len(flight) \in Nat /\ Len(kern) \in Nat /\ Capacity \in Nat
    BY <1>3, LenType, Bounds
<1>5. k \in 0..Len(flight)
    BY <1>4
<1>6. /\ up \in Seq(Byte) /\ Len(up) = k /\ fr \in Seq(Byte) /\ Len(fr) = Len(flight) - k
      /\ up \o fr = flight
    BY <1>3, <1>5, UpToFacts, FromFacts, UpToAndFrom
<1>7. a \in Seq(Byte) /\ s \in Seq(Byte)
    BY <1>1, LineParts
<1> HIDE DEF up, fr, a, s
<1>8. (kern \o up) \in Seq(Byte) /\ Len(kern \o up) = Len(kern) + k
    BY <1>3, <1>6, ConcatFacts
<1>9. Space' \in Nat
  <2>1. Space' = Capacity - Len(flight') - Len(kern') /\ Space = Capacity - Len(flight) - Len(kern)
      BY DEF Space
  <2>2. Len(flight') = Len(flight) - k /\ Len(kern') = Len(kern) + k
      BY <1>2, <1>6, <1>8
  <2>3. (Capacity - (Len(flight) - k)) - (Len(kern) + k) = (Capacity - Len(flight)) - Len(kern)
      BY <1>4
  <2>4. Space' = Space
      BY <2>1, <2>2, <2>3
  <2> QED
      BY <1>3, <2>4
<1>10. SeqTypes'
    BY <1>1, <1>2, <1>6, <1>8, <1>9 DEF SeqTypes
<1>11. EndInv'
  <2> SUFFICES ASSUME ended PROVE FALSE
      BY <1>2 DEF EndInv
  <2>1. Len(flight) = 0
      BY <1>1 DEF EndInv
  <2> QED
      BY <2>1
<1>12. RestTypes' /\ FlagTypes'
    BY <1>1, <1>2 DEF RestTypes, FlagTypes
<1>13. Line' = Four(a, kern \o up, fr, s) /\ Line = Four(a, kern, flight, s)
    BY <1>2 DEF Line, a, s
<1>14. Four(a, kern \o up, fr, s) = Four(a, kern, up \o fr, s)
  <2>1. /\ a \in Seq(Byte) /\ kern \in Seq(Byte) /\ up \in Seq(Byte) /\ fr \in Seq(Byte)
        /\ s \in Seq(Byte)
      BY <1>3, <1>6, <1>7
  <2> QED
      BY <2>1, FourArrive
<1>15. Line' = Line
    BY <1>6, <1>13, <1>14
<1> QED
    BY <1>10, <1>11, <1>12, <1>15 DEF StreamTypes
\* NoSender leaves an empty send buffer and nothing in flight.
LEMMA NoSenderFacts ==
    ASSUME NoSender
    PROVE  /\ sBuf' = <<>> /\ sOff' = 0 /\ flight' = <<>> /\ queued' = queued
           /\ blocked' = FALSE /\ wEdge' = FALSE
           /\ sBuf' \in Seq(Byte) /\ flight' \in Seq(Byte) /\ sOff' \in 0..Len(sBuf')
           /\ From(sBuf', sOff') = <<>> /\ Len(flight') = 0
<1>1. sBuf' = <<>> /\ sOff' = 0 /\ flight' = <<>> /\ queued' = queued /\ blocked' = FALSE /\ wEdge' = FALSE
    BY DEF NoSender
<1>2. <<>> \in Seq(Byte) /\ Len(<<>>) = 0
    OBVIOUS
<1>3. From(<<>>, 0) = <<>>
    BY <1>2, FromNone
<1>4. 0 \in 0..Len(<<>>)
    BY <1>2
<1> QED
    BY <1>1, <1>2, <1>3, <1>4

\* A break drops bytes at the sender's end of the line only.
LEMMA BreakLine ==
    ASSUME StreamTypes, Break
    PROVE  /\ StreamTypes' /\ ended' /\ breaks' = breaks + 1
           /\ UNCHANGED <<queued, parsed, cut>>
           /\ \E rest \in Seq(Byte) : Line = Line' \o rest
<1> DEFINE a == From(rBuf, rOff)
           s == From(sBuf, sOff)
<1>1. SeqTypes /\ RestTypes /\ FlagTypes
    BY DEF StreamTypes
<1>2. /\ breaks' = breaks + 1 /\ ended' = TRUE /\ NoSender /\ rEdge' = TRUE
      /\ kern' \in {<<>>} \union {kern \o SubSeq(flight, 1, k) : k \in 0..Len(flight)}
      /\ UNCHANGED <<pc, rBuf, rOff, rLen, parsed, keeps, cut>>
    BY DEF Break, rVars
<1>3. /\ sBuf' = <<>> /\ sOff' = 0 /\ flight' = <<>> /\ queued' = queued
      /\ blocked' = FALSE /\ wEdge' = FALSE
      /\ sBuf' \in Seq(Byte) /\ flight' \in Seq(Byte) /\ sOff' \in 0..Len(sBuf')
      /\ From(sBuf', sOff') = <<>> /\ Len(flight') = 0
    BY <1>2, NoSenderFacts
<1>4. /\ a \in Seq(Byte) /\ s \in Seq(Byte)
      /\ flight \in Seq(Byte) /\ kern \in Seq(Byte)
    BY <1>1, LineParts
<1>5. /\ Len(flight) \in Nat /\ Len(kern) \in Nat /\ Capacity \in Nat
      /\ Space = Capacity - Len(flight) - Len(kern) /\ Space \in Nat
    BY <1>1, <1>4, LenType, Bounds DEF SeqTypes, Space
<1>6. Space' = Capacity - Len(flight') - Len(kern')
    BY DEF Space
<1>7. Line' = Four(a, kern', <<>>, <<>>)
    BY <1>2, <1>3 DEF Line, a
<1>8. Line = Four(a, kern, flight, s)
    BY DEF Line, a, s
<1> HIDE DEF a, s
<1>9. ASSUME kern' = <<>>
      PROVE  /\ kern' \in Seq(Byte) /\ Space' \in Nat
             /\ \E rest \in Seq(Byte) : Line = Line' \o rest
  <2>1. kern' \in Seq(Byte) /\ Len(kern') = 0
      BY <1>9
  <2>2. Space' \in Nat
      BY <1>3, <1>5, <1>6, <2>1
  <2>3. Line' = a \o <<>>
    <3>1. Four(a, <<>>, <<>>, <<>>) = a \o <<>>
        BY <1>4, <2>1, <1>9, FourNoSender
    <3> QED
        BY <1>7, <1>9, <3>1
  <2>4. a \o <<>> = a
      BY <1>4, ConcatEmptySeq
  <2> DEFINE t == flight \o s
  <2>5. t \in Seq(Byte)
      BY <1>4, ConcatFacts
  <2> HIDE DEF t
  <2>6. (kern \o t) \in Seq(Byte)
      BY <1>4, <2>5, ConcatFacts
  <2>7. Line = a \o (kern \o t)
      BY <1>8 DEF Four, t
  <2>8. Line = Line' \o (kern \o t)
      BY <2>3, <2>4, <2>7
  <2> QED
      BY <2>1, <2>2, <2>6, <2>8
<1>10. ASSUME NEW k \in 0..Len(flight), kern' = kern \o SubSeq(flight, 1, k)
       PROVE  /\ kern' \in Seq(Byte) /\ Space' \in Nat
              /\ \E rest \in Seq(Byte) : Line = Line' \o rest
  <2> DEFINE u  == SubSeq(flight, 1, k)
             fr == From(flight, k)
  <2>1. u \in Seq(Byte) /\ Len(u) = k /\ fr \in Seq(Byte) /\ u \o fr = flight
      BY <1>4, UpToFacts, FromFacts, UpToAndFrom
  <2>2. kern' = kern \o u
      BY <1>10
  <2> HIDE DEF u, fr
  <2>3. (kern \o u) \in Seq(Byte) /\ Len(kern \o u) = Len(kern) + k
      BY <1>4, <2>1, ConcatFacts
  <2>4. Space' \in Nat
      BY <1>3, <1>5, <1>6, <2>2, <2>3
  <2> DEFINE v == kern \o u
  <2>5. v \in Seq(Byte) /\ kern' = v
      BY <2>2, <2>3
  <2>6. Four(a, v, fr, s) = Four(a, kern, u \o fr, s)
    <3>1. /\ a \in Seq(Byte) /\ kern \in Seq(Byte) /\ u \in Seq(Byte) /\ fr \in Seq(Byte)
          /\ s \in Seq(Byte)
        BY <1>4, <2>1
    <3>2. Four(a, kern \o u, fr, s) = Four(a, kern, u \o fr, s)
        BY <3>1, FourArrive
    <3> QED
        BY <3>2
  <2> HIDE DEF v
  <2>7. Four(a, v, fr, s) = (a \o v) \o (fr \o s)
    <3>1. a \in Seq(Byte) /\ v \in Seq(Byte) /\ fr \in Seq(Byte) /\ s \in Seq(Byte)
        BY <1>4, <2>1, <2>5
    <3>2. Four(a, v, fr, s) = Behind(a \o v, fr \o s)
        BY <3>1, FourFront
    <3> QED
        BY <3>2 DEF Behind
  <2>8. Four(a, v, <<>>, <<>>) = a \o v
      BY <1>4, <2>5, FourNoSender
  <2>9. (fr \o s) \in Seq(Byte)
      BY <1>4, <2>1, ConcatFacts
  <2>10. Line = (a \o v) \o (fr \o s)
      BY <1>8, <2>1, <2>6, <2>7
  <2>11. Line' = a \o v
      BY <1>7, <2>5, <2>8
  <2>12. Line = Line' \o (fr \o s)
      BY <2>10, <2>11
  <2> QED
      BY <2>3, <2>4, <2>5, <2>9, <2>12
<1>11. /\ kern' \in Seq(Byte) /\ Space' \in Nat
       /\ \E rest \in Seq(Byte) : Line = Line' \o rest
    BY <1>2, <1>9, <1>10
<1>12. SeqTypes'
    BY <1>1, <1>2, <1>3, <1>11 DEF SeqTypes
<1>13. RestTypes' /\ EndInv'
    BY <1>1, <1>2, <1>3 DEF RestTypes, EndInv
<1>14. FlagTypes'
    BY <1>1, <1>2, <1>3 DEF FlagTypes
<1> QED
    BY <1>14, <1>2, <1>3, <1>11, <1>12, <1>13 DEF StreamTypes

LEMMA ReadableLine ==
    ASSUME StreamTypes, Readable
    PROVE  StreamTypes' /\ Line' = Line
<1> DEFINE a == From(rBuf, rOff)
           s == From(sBuf, sOff)
<1>1. SeqTypes /\ RestTypes /\ FlagTypes /\ EndInv
    BY DEF StreamTypes
<1>2. /\ rBuf' = rBuf \o SubSeq(kern, 1, Len(kern)) /\ kern' = From(kern, Len(kern))
      /\ pc' = "parse" /\ rEdge' = FALSE
      /\ wEdge' = (wEdge \/ (blocked /\ Len(kern) > 0))
      /\ blocked' = (blocked /\ Len(kern) = 0)
      /\ UNCHANGED <<queued, sBuf, sOff, sLen, keeps, ended, breaks, cut, flight, rOff, parsed>>
    BY DEF Readable, Taken, sVars, endVars
<1>3. /\ a \in Seq(Byte) /\ s \in Seq(Byte)
      /\ flight \in Seq(Byte) /\ kern \in Seq(Byte)
    BY <1>1, LineParts
<1>4. rBuf \in Seq(Byte) /\ rOff \in 0..Len(rBuf)
    BY <1>1 DEF SeqTypes
<1>5. SubSeq(kern, 1, Len(kern)) = kern /\ From(kern, Len(kern)) = <<>>
    BY <1>3, SubSeqFull, FromNone
<1>6. rBuf' = rBuf \o kern /\ kern' = <<>>
    BY <1>2, <1>5
<1>7. (rBuf \o kern) \in Seq(Byte)
    BY <1>3, <1>4, ConcatFacts
<1>8. rOff \in 0..Len(rBuf \o kern) /\ From(rBuf \o kern, rOff) = From(rBuf, rOff) \o kern
    BY <1>3, <1>4, FromConcat
<1>9. Space' \in Nat
  <2>1. Space' = Capacity - Len(flight') - Len(kern') /\ Space = Capacity - Len(flight) - Len(kern)
      BY DEF Space
  <2>2. Len(flight) \in Nat /\ Len(kern) \in Nat /\ Capacity \in Nat /\ Len(<<>>) = 0
      BY <1>3, LenType, Bounds
  <2>3. Space \in Nat
      BY <1>1 DEF SeqTypes
  <2> QED
      BY <1>2, <1>6, <2>1, <2>2, <2>3
<1>10. SeqTypes'
  <2>1. kern' \in Seq(Byte) /\ rBuf' \in Seq(Byte) /\ rOff' \in 0..Len(rBuf')
      BY <1>2, <1>6, <1>7, <1>8
  <2> QED
      BY <1>1, <1>2, <1>9, <2>1 DEF SeqTypes
<1>11. EndInv'
    BY <1>1, <1>2 DEF EndInv
<1>12. RestTypes'
    BY <1>1, <1>2 DEF RestTypes
<1>13. blocked' \in BOOLEAN /\ wEdge' \in BOOLEAN /\ rEdge' \in BOOLEAN
    BY <1>2
<1>14. FlagTypes'
    BY <1>1, <1>2, <1>13 DEF FlagTypes
<1>15. Line' = Four(From(rBuf \o kern, rOff), <<>>, flight, s)
    BY <1>2, <1>6 DEF Line, s
<1>16. Line' = Four(a \o kern, <<>>, flight, s)
    BY <1>8, <1>15
<1>17. Line = Four(a, kern, flight, s)
    BY DEF Line
<1> HIDE DEF a, s
<1>18. Four(a \o kern, <<>>, flight, s) = Four(a, kern, flight, s)
    BY <1>3, FourRead
<1>19. Line' = Line
    BY <1>16, <1>17, <1>18
<1> QED
    BY <1>10, <1>11, <1>12, <1>14, <1>19 DEF StreamTypes
\* A new socket leaves of the line what the receive buffer keeps.
LEMMA ReopenLine ==
    ASSUME StreamTypes, NEW b \in Seq(Byte), NEW off \in 0..Len(b), NEW len, Reopen(b, off, len)
    PROVE  /\ StreamTypes' /\ ~ended'
           /\ UNCHANGED <<queued, parsed, breaks>>
           /\ cut' = (cut \/ (keeps /\ Broken(b, off)))
           /\ IF keeps THEN Line' = From(b, off) ELSE Line' = <<>>
<1>1. SeqTypes /\ RestTypes /\ FlagTypes
    BY DEF StreamTypes
<1>2. /\ NoSender /\ kern' = <<>> /\ rEdge' = FALSE /\ ended' = FALSE /\ pc' = "wait"
      /\ IF keeps THEN rBuf' = b /\ rOff' = off ELSE rBuf' = <<>> /\ rOff' = 0
      /\ cut' = (cut \/ (keeps /\ Broken(b, off)))
      /\ UNCHANGED <<parsed, keeps, breaks>>
    BY DEF Reopen, Keeps
<1>3. /\ sBuf' = <<>> /\ sOff' = 0 /\ flight' = <<>> /\ queued' = queued
      /\ blocked' = FALSE /\ wEdge' = FALSE
      /\ sBuf' \in Seq(Byte) /\ flight' \in Seq(Byte) /\ sOff' \in 0..Len(sBuf')
      /\ From(sBuf', sOff') = <<>> /\ Len(flight') = 0
    BY <1>2, NoSenderFacts
<1>4. <<>> \in Seq(Byte) /\ Len(<<>>) = 0 /\ 0 \in 0..Len(<<>>)
    OBVIOUS
<1>5. From(<<>>, 0) = <<>>
    BY <1>4, FromNone
<1>6. From(b, off) \in Seq(Byte)
    BY FromFacts
<1>7. /\ rBuf' \in Seq(Byte) /\ rOff' \in 0..Len(rBuf')
      /\ From(rBuf', rOff') = IF keeps THEN From(b, off) ELSE <<>>
  <2>1. CASE keeps
      BY <1>2, <2>1
  <2>2. CASE ~keeps
      BY <1>2, <1>4, <1>5, <2>2
  <2> QED
      BY <2>1, <2>2
<1>8. Space' \in Nat
  <2>1. Space' = Capacity - Len(flight') - Len(kern')
      BY DEF Space
  <2>2. Len(kern') = 0 /\ Capacity \in Nat
      BY <1>2, <1>4, Bounds
  <2> QED
      BY <1>3, <2>1, <2>2
<1>9. SeqTypes'
    BY <1>2, <1>3, <1>4, <1>7, <1>8 DEF SeqTypes
<1>10. RestTypes' /\ EndInv'
    BY <1>1, <1>2, <1>3 DEF RestTypes, EndInv
<1>11. cut' \in BOOLEAN
    BY <1>2
<1>12. FlagTypes'
    BY <1>1, <1>2, <1>3, <1>11 DEF FlagTypes
<1>13. Line' = From(rBuf', rOff')
  <2>1. Line' = Four(From(rBuf', rOff'), <<>>, <<>>, <<>>)
      BY <1>2, <1>3 DEF Line
  <2>2. From(rBuf', rOff') \in Seq(Byte)
      BY <1>4, <1>6, <1>7
  <2>3. Four(From(rBuf', rOff'), <<>>, <<>>, <<>>) = From(rBuf', rOff') \o <<>>
      BY <1>4, <2>2, FourNoSender
  <2>4. From(rBuf', rOff') \o <<>> = From(rBuf', rOff')
      BY <2>2, ConcatEmptySeq
  <2> QED
      BY <2>1, <2>3, <2>4
<1>14. IF keeps THEN Line' = From(b, off) ELSE Line' = <<>>
    BY <1>7, <1>13
<1> QED
    BY <1>2, <1>3, <1>9, <1>10, <1>12, <1>14 DEF StreamTypes

\* Once a stream has ended, the line is what the receiver has of it.
LEMMA EndedLine ==
    ASSUME StreamTypes, ended
    PROVE  Line = From(rBuf, rOff) \o kern
<1>1. SeqTypes /\ EndInv
    BY DEF StreamTypes
<1>2. sBuf = <<>> /\ flight = <<>> /\ sOff = 0
  <2>1. sBuf = <<>> /\ flight = <<>>
      BY <1>1 DEF EndInv
  <2>2. sOff \in 0..Len(<<>>) /\ Len(<<>>) = 0
      BY <1>1, <2>1 DEF SeqTypes
  <2> QED
      BY <2>1, <2>2
<1>3. From(<<>>, 0) = <<>>
  <2>1. <<>> \in Seq(Byte)
      OBVIOUS
  <2> QED
      BY <2>1, FromNone
<1>4. Line = Four(From(rBuf, rOff), kern, <<>>, <<>>)
    BY <1>2, <1>3 DEF Line
<1>5. From(rBuf, rOff) \in Seq(Byte) /\ kern \in Seq(Byte)
    BY <1>1, LineParts
<1> QED
    BY <1>4, <1>5, FourNoSender

LEMMA ReadEndLine ==
    ASSUME StreamTypes, ReadEnd
    PROVE  /\ StreamTypes' /\ ended /\ ~ended'
           /\ UNCHANGED <<queued, parsed, breaks>>
           /\ cut' = (cut \/ (keeps /\ Broken(rBuf \o kern, rOff)))
           /\ rOff \in 0..Len(rBuf \o kern)
           /\ Line = From(rBuf \o kern, rOff)
           /\ IF keeps THEN Line' = Line ELSE Line' = <<>>
<1>1. SeqTypes
    BY DEF StreamTypes
<1>2. ended /\ Reopen(rBuf \o kern, rOff, Enlarged(rLen, Len(rBuf \o kern) + 1))
    BY DEF ReadEnd, EndSeen
<1>3. rBuf \in Seq(Byte) /\ kern \in Seq(Byte) /\ rOff \in 0..Len(rBuf)
    BY <1>1 DEF SeqTypes
<1>4. (rBuf \o kern) \in Seq(Byte)
    BY <1>3, ConcatFacts
<1>5. rOff \in 0..Len(rBuf \o kern) /\ From(rBuf \o kern, rOff) = From(rBuf, rOff) \o kern
    BY <1>3, FromConcat
<1>6. Line = From(rBuf \o kern, rOff)
    BY <1>2, <1>5, EndedLine
<1>7. /\ StreamTypes' /\ ~ended'
      /\ UNCHANGED <<queued, parsed, breaks>>
      /\ cut' = (cut \/ (keeps /\ Broken(rBuf \o kern, rOff)))
      /\ IF keeps THEN Line' = From(rBuf \o kern, rOff) ELSE Line' = <<>>
    BY <1>2, <1>4, <1>5, ReopenLine
<1> QED
    BY <1>2, <1>5, <1>6, <1>7

LEMMA NoticeEndLine ==
    ASSUME StreamTypes, NoticeEnd
    PROVE  /\ StreamTypes' /\ ended /\ ~ended'
           /\ UNCHANGED <<queued, parsed, breaks>>
           /\ cut' = (cut \/ (keeps /\ Broken(rBuf, rOff)))
           /\ kern \in Seq(Byte)
           /\ Line = From(rBuf, rOff) \o kern
           /\ IF keeps THEN Line' = From(rBuf, rOff) ELSE Line' = <<>>
<1>1. SeqTypes
    BY DEF StreamTypes
<1>2. ended /\ Reopen(rBuf, rOff, rLen)
    BY DEF NoticeEnd
<1>3. rBuf \in Seq(Byte) /\ kern \in Seq(Byte) /\ rOff \in 0..Len(rBuf)
    BY <1>1 DEF SeqTypes
<1>4. Line = From(rBuf, rOff) \o kern
    BY <1>2, EndedLine
<1>5. /\ StreamTypes' /\ ~ended'
      /\ UNCHANGED <<queued, parsed, breaks>>
      /\ cut' = (cut \/ (keeps /\ Broken(rBuf, rOff)))
      /\ IF keeps THEN Line' = From(rBuf, rOff) ELSE Line' = <<>>
    BY <1>2, <1>3, ReopenLine
<1> QED
    BY <1>2, <1>3, <1>4, <1>5

\* What the receiver looks at is the first byte of the line.
LEMMA FrontIsFirst ==
    ASSUME StreamTypes, Unread > 0
    PROVE  /\ Front \in Byte /\ Unread \in Nat /\ Line \in Seq(Byte)
           /\ Unread <= Len(Line) /\ Front = Line[1]
           /\ \A i \in 1..Unread : Line[i] = rBuf[rOff + i]
           /\ rOff + Unread = Len(rBuf) /\ rOff \in Nat
<1> DEFINE a == From(rBuf, rOff)
           s == From(sBuf, sOff)
<1>1. SeqTypes
    BY DEF StreamTypes
<1>2. /\ a \in Seq(Byte) /\ Len(a) = Len(rBuf) - rOff
      /\ \A i \in 1..(Len(rBuf) - rOff) : a[i] = rBuf[rOff + i]
      /\ s \in Seq(Byte) /\ flight \in Seq(Byte) /\ kern \in Seq(Byte) /\ Line \in Seq(Byte)
    BY <1>1, LineParts
<1>3. rBuf \in Seq(Byte) /\ rOff \in 0..Len(rBuf) /\ Unread = Len(rBuf) - rOff
    BY <1>1 DEF SeqTypes, Unread
<1>4. Len(rBuf) \in Nat /\ rOff \in Nat /\ Unread \in Nat
    BY <1>3, LenType
<1>5. Line = Four(a, kern, flight, s)
    BY DEF Line
<1> HIDE DEF a, s
<1>7. Len(a) <= Len(Line) /\ \A i \in 1..Len(a) : Line[i] = a[i]
  <2>1. a \in Seq(Byte) /\ kern \in Seq(Byte) /\ flight \in Seq(Byte) /\ s \in Seq(Byte)
      BY <1>2
  <2>2. /\ Len(a) <= Len(Four(a, kern, flight, s))
        /\ \A i \in 1..Len(a) : Four(a, kern, flight, s)[i] = a[i]
      BY <2>1, FourFirst, SMTT(60)
  <2> QED
      BY <1>5, <2>2
<1>8. \A i \in 1..Unread : Line[i] = rBuf[rOff + i]
    BY <1>2, <1>3, <1>7
<1>9. Front = Line[1]
    BY <1>4, <1>8 DEF Front
<1>10. rOff + 1 \in 1..Len(rBuf)
    BY <1>3, <1>4
<1>11. Front \in Byte
    BY <1>3, <1>10 DEF Front
<1> QED
    BY <1>2, <1>3, <1>4, <1>7, <1>8, <1>9, <1>11

LEMMA ParseFailsLine ==
    ASSUME StreamTypes, ParseFails
    PROVE  /\ StreamTypes' /\ (cut => cut')
           /\ pc = "parse" /\ (~Aligned \/ (Whole /\ ~Intact))
<1>1. pc = "parse" /\ (~Aligned \/ (Whole /\ ~Intact)) /\ Reopen(rBuf, rOff + 1, rLen)
    BY DEF ParseFails
<1>2. Unread > 0
    BY <1>1 DEF Aligned, Whole
<1>3. /\ Unread \in Nat /\ rOff + Unread = Len(rBuf) /\ rOff \in Nat
    BY <1>2, FrontIsFirst
<1>4. rBuf \in Seq(Byte) /\ rOff + 1 \in 0..Len(rBuf)
    BY <1>2, <1>3 DEF StreamTypes, SeqTypes
<1>5. StreamTypes' /\ cut' = (cut \/ (keeps /\ Broken(rBuf, rOff + 1)))
    BY <1>1, <1>4, ReopenLine
<1> QED
    BY <1>1, <1>5

LEMMA ParseOneLine ==
    ASSUME StreamTypes, ParseOne
    PROVE  /\ StreamTypes' /\ pc = "parse"
           /\ UNCHANGED <<queued, breaks, cut, ended>>
           /\ Line \in Seq(Byte) /\ Len(Line) > 0
           /\ Length[Line[1][1]] \in 0..Len(Line)
           /\ Line' = From(Line, Length[Line[1][1]])
           /\ parsed' = Append(parsed, Line[1][1])
<1> DEFINE a == From(rBuf, rOff)
           s == From(sBuf, sOff)
           l == Length[Front[1]]
<1>1. SeqTypes /\ RestTypes /\ FlagTypes /\ EndInv
    BY DEF StreamTypes
<1>2. /\ pc = "parse" /\ Unread > 0 /\ Unread >= l
      /\ parsed' = Append(parsed, Front[1]) /\ rOff' = rOff + l
      /\ UNCHANGED <<queued, sBuf, sOff, sLen, keeps, ended, breaks, cut, pc, rBuf, rLen,
                     blocked, wEdge, flight, kern, rEdge>>
    BY DEF ParseOne, Whole, sVars, endVars
<1>3. /\ Front \in Byte /\ Unread \in Nat /\ Line \in Seq(Byte)
      /\ Unread <= Len(Line) /\ Front = Line[1]
      /\ rOff + Unread = Len(rBuf) /\ rOff \in Nat
    BY <1>2, FrontIsFirst
<1>4. Front[1] \in 1..N /\ l \in Nat \ {0}
    BY <1>3, ByteFacts
<1>5. Len(rBuf) \in Nat /\ Len(Line) \in Nat
    BY <1>1, <1>3, LenType DEF SeqTypes
<1>6. rOff + l \in 0..Len(rBuf) /\ l \in 0..(Len(rBuf) - rOff) /\ l \in 0..Len(Line)
    BY <1>2, <1>3, <1>4, <1>5, SMTT(60)
<1>7. /\ a \in Seq(Byte) /\ Len(a) = Len(rBuf) - rOff
      /\ s \in Seq(Byte) /\ flight \in Seq(Byte) /\ kern \in Seq(Byte)
    BY <1>1, LineParts
<1>8. From(rBuf, rOff + l) = From(a, l)
    BY <1>1, <1>6, FromFrom DEF SeqTypes
<1>9. Line' = Four(From(a, l), kern, flight, s)
  <2>1. Line' = Four(From(rBuf, rOff + l), kern, flight, s)
      BY <1>2 DEF Line
  <2> QED
      BY <1>8, <2>1
<1>10. Line = Four(a, kern, flight, s)
    BY DEF Line
<1> HIDE DEF a, s, l
<1>11. l \in 0..Len(a)
    BY <1>6, <1>7
<1>12. From(Four(a, kern, flight, s), l) = Four(From(a, l), kern, flight, s)
    BY <1>7, <1>11, FourFrom
<1>13. Line' = From(Line, l)
    BY <1>9, <1>10, <1>12
<1>14. SeqTypes'
  <2>1. Space' = Space
      BY <1>2 DEF Space
  <2> QED
      BY <1>1, <1>2, <1>6, <2>1 DEF SeqTypes
<1>15. parsed' \in Seq(1..N)
    BY <1>1, <1>2, <1>4 DEF RestTypes
<1>16. RestTypes' /\ EndInv'
    BY <1>1, <1>2, <1>15 DEF RestTypes, EndInv
<1>17. FlagTypes'
    BY <1>1, <1>2 DEF FlagTypes
<1>18. Len(Line) > 0
    BY <1>2, <1>3, <1>5
<1> QED
    BY <1>2, <1>3, <1>6, <1>13, <1>14, <1>16, <1>17, <1>18 DEF StreamTypes, l

LEMMA ParseEndLine ==
    ASSUME StreamTypes, ParseEnd
    PROVE  StreamTypes' /\ Line' = Line /\ UNCHANGED <<queued, parsed, breaks, cut, ended>>
<1>1. SeqTypes /\ RestTypes /\ FlagTypes /\ EndInv
    BY DEF StreamTypes
<1>2. /\ pc' = "wait"
      /\ IF rOff = Len(rBuf) THEN rBuf' = <<>> /\ rOff' = 0 ELSE rBuf' = rBuf /\ rOff' = rOff
      /\ UNCHANGED <<queued, sBuf, sOff, sLen, keeps, ended, breaks, cut, parsed,
                     blocked, wEdge, flight, kern, rEdge>>
    BY DEF ParseEnd, MayReset, sVars, endVars
<1>3. rBuf \in Seq(Byte) /\ rOff \in 0..Len(rBuf)
    BY <1>1 DEF SeqTypes
<1>4. <<>> \in Seq(Byte) /\ Len(<<>>) = 0 /\ 0 \in 0..Len(<<>>)
    OBVIOUS
<1>5. From(<<>>, 0) = <<>> /\ From(rBuf, Len(rBuf)) = <<>>
    BY <1>3, <1>4, FromNone
<1>6. rBuf' \in Seq(Byte) /\ rOff' \in 0..Len(rBuf') /\ From(rBuf', rOff') = From(rBuf, rOff)
  <2>1. CASE rOff = Len(rBuf)
      BY <1>2, <1>4, <1>5, <2>1
  <2>2. CASE rOff # Len(rBuf)
      BY <1>2, <1>3, <2>2
  <2> QED
      BY <2>1, <2>2
<1>7. Line' = Line
    BY <1>2, <1>6 DEF Line
<1>8. Space' = Space
    BY <1>2 DEF Space
<1>9. SeqTypes'
    BY <1>1, <1>2, <1>6, <1>8 DEF SeqTypes
<1>10. RestTypes' /\ EndInv'
    BY <1>1, <1>2 DEF RestTypes, EndInv
<1>11. FlagTypes'
    BY <1>1, <1>2 DEF FlagTypes
<1> QED
    BY <1>2, <1>7, <1>9, <1>10, <1>11 DEF StreamTypes
-----------------------------------------------------------------------------
(* The order of the bytes.                                                 *)

\* Message n comes next after m: the very next one, as long as no socket has ended.
Above(m, n, br) == IF br = 0 THEN n = m + 1 ELSE n > m

\* Byte y comes next after x.
Follows(x, y, br) ==
    IF x[2] < Length[x[1]] THEN y = <<x[1], x[2] + 1>>
                           ELSE y[2] = 1 /\ Above(x[1], y[1], br)

\* The bytes of q are whole messages one after the other, but for the end of the
\* last one.
Framed(q, br, qd) ==
    /\ q # <<>> => q[1][2] = 1
    /\ \A i \in 1..Len(q) : q[i][1] <= qd
    /\ \A i \in 1..Len(q) : i < Len(q) => Follows(q[i], q[i + 1], br)

\* The last one is whole, and if no socket has ended it is the last one of all.
LastWhole(q, br, qd) ==
    q # <<>> => /\ q[Len(q)][2] = Length[q[Len(q)][1]]
                /\ br = 0 => q[Len(q)][1] = qd

\* What is on the line comes after what has been parsed.
Comes(q, br, p, qd) ==
    /\ q # <<>> /\ p # <<>> => q[1][1] > p[Len(p)]
    /\ br = 0 => IF q = <<>> THEN qd = Len(p) ELSE q[1][1] = Len(p) + 1

InTurn(p, br, qd) ==
    \A i \in 1..Len(p) : /\ p[i] <= qd
                         /\ IF br = 0 THEN p[i] = i ELSE i > 1 => p[i - 1] < p[i]

InLine(q, br, p, qd) == Framed(q, br, qd) /\ Comes(q, br, p, qd) /\ InTurn(p, br, qd)

OrderInv ==
    ~cut => /\ InLine(Line, breaks, parsed, queued)
            /\ ~ended => LastWhole(Line, breaks, queued)

LEMMA MinNat ==
    ASSUME NEW T \in SUBSET Nat, T # {}
    PROVE  \E x \in T : \A y \in T : x <= y
<1> DEFINE R == OpToRel(<, Nat)
<1>1. IsWellFoundedOn(R, Nat)
    BY NatLessThanWellFounded
<1>2. \A x, y \in Nat : x < y => <<x, y>> \in R
    BY DEF OpToRel
<1> HIDE DEF R
<1>3. PICK x \in T : \A y \in T : ~ (<<y, x>> \in R)
    BY <1>1, WFMin
<1>4. ASSUME NEW y \in T PROVE x <= y
    <2>1. x \in Nat /\ y \in Nat
        OBVIOUS
    <2>2. ~(y < x)
        BY <1>2, <1>3, <2>1
    <2> QED
        BY <2>1, <2>2
<1> QED
    BY <1>4

LEMMA EmptyOrNot ==
    ASSUME NEW S, NEW q \in Seq(S)
    PROVE  /\ Len(q) \in Nat
           /\ q = <<>> => Len(q) = 0
           /\ q # <<>> => Len(q) > 0
BY EmptySeq

\* The line begins with the bytes of its first message.
LEMMA FirstMessage ==
    ASSUME NEW q \in Seq(Byte), NEW br, NEW qd, Framed(q, br, qd), Len(q) > 0,
           NEW n \in 1..Len(q), n <= Length[q[1][1]]
    PROVE  q[n] = <<q[1][1], n>>
<1> DEFINE m == q[1][1]
           T == {e \in Nat \ {0} : e <= Length[m] /\ e <= Len(q) /\ q[e] # <<m, e>>}
<1>1. Len(q) \in Nat /\ n \in Nat \ {0}
    BY LenType
<1>2. 1 \in 1..Len(q) /\ q[1] \in Byte
    BY <1>1
<1>3. m \in 1..N /\ Length[m] \in Nat \ {0} /\ q[1] = <<m, q[1][2]>>
    BY <1>2, ByteFacts
<1>4. q[1] = <<m, 1>>
  <2>1. q # <<>>
      BY EmptyOrNot
  <2> QED
      BY <1>3, <2>1 DEF Framed
<1> HIDE DEF m
<1>5. SUFFICES ASSUME T # {} PROVE FALSE
    BY <1>1 DEF m
<1>6. T \in SUBSET Nat
    OBVIOUS
<1>7. PICK e \in T : \A f \in T : e <= f
    BY <1>5, <1>6, MinNat
<1>8. e \in Nat \ {0} /\ e <= Length[m] /\ e <= Len(q) /\ q[e] # <<m, e>>
    BY <1>7
<1>9. e # 1
    BY <1>4, <1>8
<1> DEFINE g == e - 1
<1>10. g \in Nat \ {0} /\ g < e /\ g < Length[m] /\ g < Len(q) /\ g + 1 = e /\ g \in 1..Len(q)
    BY <1>1, <1>3, <1>8, <1>9
<1>11. q[g] = <<m, g>>
  <2> HIDE DEF g
  <2>1. g \notin T
    <3>1. g \in T => e <= g
        BY <1>7
    <3> QED
        BY <1>8, <1>10, <3>1
  <2>2. g <= Length[m] /\ g <= Len(q)
      BY <1>1, <1>3, <1>10
  <2> QED
      BY <1>10, <2>1, <2>2
<1> HIDE DEF g, T
<1>12. Follows(q[g], q[g + 1], br)
    BY <1>10 DEF Framed
<1>13. q[g + 1] = <<m, g + 1>>
    BY <1>10, <1>11, <1>12 DEF Follows
<1> QED
    BY <1>8, <1>10, <1>13

\* What is left of the line when bytes are lost at its end, and sockets have ended.
LEMMA FramedBefore ==
    ASSUME NEW q \in Seq(Byte), NEW r \in Seq(Byte), NEW br \in Nat, NEW br2 \in Nat, NEW qd,
           br2 > 0, Framed(q \o r, br, qd)
    PROVE  Framed(q, br2, qd)
<1> DEFINE a == q \o r
<1>1. /\ a \in Seq(Byte) /\ Len(a) = Len(q) + Len(r)
      /\ \A i \in 1..Len(q) : a[i] = q[i]
    BY ConcatFacts
<1>2. Len(q) \in Nat /\ Len(r) \in Nat
    BY LenType
<1>3. Framed(a, br, qd)
    OBVIOUS
<1> HIDE DEF a
<1>4. ASSUME q # <<>> PROVE q[1][2] = 1
  <2>1. Len(q) > 0
      BY <1>4, EmptyOrNot
  <2>2. 1 \in 1..Len(q) /\ Len(a) > 0
      BY <1>1, <1>2, <2>1
  <2>3. a # <<>>
      BY <2>2
  <2> QED
      BY <1>1, <1>3, <2>2, <2>3 DEF Framed
<1>5. ASSUME NEW i \in 1..Len(q) PROVE q[i][1] <= qd
  <2>1. i \in 1..Len(a) /\ a[i] = q[i]
      BY <1>1, <1>2
  <2> QED
      BY <1>3, <2>1 DEF Framed
<1>6. ASSUME NEW i \in 1..Len(q), i < Len(q) PROVE Follows(q[i], q[i + 1], br2)
  <2>1. i \in 1..Len(a) /\ i < Len(a) /\ i + 1 \in 1..Len(q)
      BY <1>1, <1>2, <1>6
  <2>2. Follows(a[i], a[i + 1], br)
      BY <1>3, <2>1 DEF Framed
  <2>3. Follows(q[i], q[i + 1], br)
      BY <1>1, <2>1, <2>2
  <2>4. q[i] \in Byte
      OBVIOUS
  <2>5. q[i][1] \in Nat
      BY <2>4, ByteFacts
  <2>6. ASSUME Above(q[i][1], q[i + 1][1], br) PROVE Above(q[i][1], q[i + 1][1], br2)
      BY <2>5, <2>6 DEF Above
  <2> QED
      BY <2>3, <2>6 DEF Follows
<1> QED
    BY <1>4, <1>5, <1>6 DEF Framed

LEMMA InLineBefore ==
    ASSUME NEW q \in Seq(Byte), NEW r \in Seq(Byte), NEW br \in Nat, NEW br2 \in Nat,
           NEW qd, NEW p \in Seq(1..N), br2 > 0, InLine(q \o r, br, p, qd)
    PROVE  InLine(q, br2, p, qd)
<1> DEFINE a == q \o r
<1>1. /\ a \in Seq(Byte) /\ Len(a) = Len(q) + Len(r)
      /\ \A i \in 1..Len(q) : a[i] = q[i]
    BY ConcatFacts
<1>2. Len(q) \in Nat /\ Len(r) \in Nat
    BY LenType
<1>3. Framed(a, br, qd) /\ Comes(a, br, p, qd) /\ InTurn(p, br, qd)
    BY DEF InLine
<1>4. Framed(q, br2, qd)
    BY <1>3, FramedBefore
<1> HIDE DEF a
<1>5. ASSUME q # <<>>, p # <<>> PROVE q[1][1] > p[Len(p)]
  <2>1. Len(q) > 0
      BY <1>5, EmptyOrNot
  <2>2. 1 \in 1..Len(q) /\ Len(a) > 0
      BY <1>1, <1>2, <2>1
  <2>3. a # <<>>
      BY <2>2
  <2> QED
      BY <1>1, <1>3, <1>5, <2>2, <2>3 DEF Comes
<1>6. Comes(q, br2, p, qd)
    BY <1>5 DEF Comes
<1>7. ASSUME NEW i \in 1..Len(p)
      PROVE  p[i] <= qd /\ (i > 1 => p[i - 1] < p[i])
  <2>1. p[i] <= qd /\ IF br = 0 THEN p[i] = i ELSE i > 1 => p[i - 1] < p[i]
      BY <1>3 DEF InTurn
  <2>2. ASSUME br = 0, i > 1 PROVE p[i - 1] < p[i]
    <3>1. Len(p) \in Nat
        BY LenType
    <3>2. i - 1 \in 1..Len(p) /\ i \in Nat
        BY <2>2, <3>1
    <3>3. p[i - 1] = i - 1 /\ p[i] = i
        BY <1>3, <2>2, <3>2 DEF InTurn
    <3> QED
        BY <3>2, <3>3
  <2> QED
      BY <2>1, <2>2
<1>8. InTurn(p, br2, qd)
    BY <1>7 DEF InTurn
<1> QED
    BY <1>4, <1>6, <1>8 DEF InLine
LEMMA ElementType ==
    ASSUME NEW S, NEW q \in Seq(S), NEW i \in 1..Len(q)
    PROVE  q[i] \in S
OBVIOUS

\* Places in what is left of n things behind the first l.
LEMMA PlacesBehind ==
    ASSUME NEW n \in Nat, NEW l \in Nat, NEW k \in Nat, k = n - l
    PROVE  k > 0 => k \in 1..(n - l) /\ l + k = n
OBVIOUS

LEMMA NextPlaceBehind ==
    ASSUME NEW n \in Nat, NEW l \in Nat, NEW i \in Nat, i < n - l
    PROVE  i + 1 \in 1..(n - l) /\ l + i < n /\ l + (i + 1) = (l + i) + 1
OBVIOUS

\* A message put behind the line is in its place.
LEMMA InLineQueue ==
    ASSUME NEW q \in Seq(Byte), NEW br \in Nat, NEW p \in Seq(1..N), NEW qd \in Nat,
           qd + 1 \in 1..N, InLine(q, br, p, qd), LastWhole(q, br, qd)
    PROVE  /\ InLine(q \o Bytes(qd + 1), br, p, qd + 1)
           /\ LastWhole(q \o Bytes(qd + 1), br, qd + 1)
<1> DEFINE n == qd + 1
           y == Bytes(n)
           a == q \o y
<1>1. n \in 1..N /\ n = qd + 1 /\ n \in Nat /\ qd < n /\ Length[n] \in Nat \ {0}
    BY Bounds
<1> HIDE DEF n
<1>2. /\ y \in Seq(Byte) /\ Len(y) = Length[n]
      /\ \A i \in 1..Length[n] : y[i] = <<n, i>>
    BY <1>1, BytesFacts
<1> HIDE DEF y
<1>3. /\ a \in Seq(Byte) /\ Len(a) = Len(q) + Len(y)
      /\ \A i \in 1..Len(q) : a[i] = q[i]
      /\ \A i \in 1..Len(y) : a[Len(q) + i] = y[i]
  <2>1. y \in Seq(Byte)
      BY <1>2
  <2> QED
      BY <2>1, ConcatFacts
<1>4. Len(q) \in Nat
    BY LenType
<1> HIDE DEF a
<1>5. \A i \in 1..Length[n] : a[Len(q) + i] = <<n, i>>
    BY <1>2, <1>3
<1>6. Len(a) = Len(q) + Length[n] /\ Len(a) \in Nat /\ Len(a) > 0
    BY <1>1, <1>2, <1>3, <1>4
<1>7. Framed(q, br, qd) /\ Comes(q, br, p, qd) /\ InTurn(p, br, qd)
    BY DEF InLine
<1>8. a # <<>>
  <2>1. Len(<<>>) = 0
      OBVIOUS
  <2> QED
      BY <1>6, <2>1
<1>9. CASE q = <<>>
  <2>1. Len(q) = 0
      BY <1>9
  <2>2. Len(a) = Length[n] /\ \A i \in 1..Length[n] : a[i] = <<n, i>>
    <3>1. \A i \in 1..Length[n] : Len(q) + i = i
        BY <2>1
    <3> QED
        BY <1>1, <1>5, <1>6, <2>1, <3>1
  <2>3. 1 \in 1..Length[n] /\ Length[n] \in 1..Length[n]
      BY <1>1
  <2>4. a[1][2] = 1 /\ a[1][1] = n
      BY <2>2, <2>3
  <2>5. ASSUME NEW i \in 1..Len(a)
        PROVE  a[i][1] <= n /\ (i < Len(a) => Follows(a[i], a[i + 1], br))
    <3>1. i \in 1..Length[n] /\ a[i] = <<n, i>>
        BY <2>2
    <3>2. ASSUME i < Len(a) PROVE Follows(a[i], a[i + 1], br)
      <4>1. i + 1 \in 1..Length[n] /\ i < Length[n]
          BY <1>1, <2>2, <3>1, <3>2
      <4>2. a[i + 1] = <<n, i + 1>>
          BY <2>2, <4>1
      <4> QED
          BY <3>1, <4>1, <4>2 DEF Follows
    <3> QED
        BY <1>1, <3>1, <3>2
  <2>6. Framed(a, br, n)
      BY <2>4, <2>5 DEF Framed
  <2>7. LastWhole(a, br, n)
    <3>1. a[Len(a)] = <<n, Length[n]>>
        BY <2>2, <2>3
    <3> QED
        BY <3>1 DEF LastWhole
  <2>8. ASSUME p # <<>> PROVE n > p[Len(p)]
    <3>1. Len(p) \in 1..Len(p)
        BY <2>8, EmptyOrNot
    <3>2. p[Len(p)] <= qd
        BY <1>7, <3>1 DEF InTurn
    <3>3. p[Len(p)] \in 1..N
        BY <3>1, ElementType
    <3> QED
        BY <1>1, <3>2, <3>3, Bounds
  <2>9. br = 0 => n = Len(p) + 1
      BY <1>1, <1>7, <1>9 DEF Comes
  <2>10. Comes(a, br, p, n)
      BY <1>8, <2>4, <2>8, <2>9 DEF Comes
  <2>11. InTurn(p, br, n)
    <3>1. ASSUME NEW i \in 1..Len(p) PROVE p[i] <= n
      <4>1. p[i] <= qd
          BY <1>7 DEF InTurn
      <4>2. p[i] \in 1..N
          BY ElementType
      <4> QED
          BY <1>1, <4>1, <4>2, Bounds
    <3> QED
        BY <1>7, <3>1 DEF InTurn
  <2> QED
      BY <2>6, <2>7, <2>10, <2>11 DEF InLine, n, y, a
<1>10. CASE q # <<>>
  <2>1. Len(q) > 0
      BY <1>10, EmptyOrNot
  <2>2. 1 \in 1..Len(q) /\ Len(q) \in 1..Len(q)
      BY <1>4, <2>1
  <2>3. a[1] = q[1] /\ a[Len(q)] = q[Len(q)]
      BY <1>3, <2>2
  <2>4. q[1][2] = 1
      BY <1>7, <1>10 DEF Framed
  <2>5. q[Len(q)][2] = Length[q[Len(q)][1]] /\ (br = 0 => q[Len(q)][1] = qd)
      BY <1>10 DEF LastWhole
  <2>6. \A i \in 1..Len(q) : q[i][1] \in Nat /\ q[i][1] <= qd
    <3>1. ASSUME NEW i \in 1..Len(q) PROVE q[i][1] \in Nat
      <4>1. q[i] \in Byte
          OBVIOUS
      <4> QED
          BY <4>1, ByteFacts
    <3> QED
        BY <1>7, <3>1 DEF Framed
  <2>7. a[Len(q) + 1] = <<n, 1>>
      BY <1>1, <1>5
  <2>8. ASSUME NEW i \in 1..Len(a)
        PROVE  a[i][1] <= n /\ (i < Len(a) => Follows(a[i], a[i + 1], br))
    <3>1. CASE i < Len(q)
      <4>1. i \in 1..Len(q) /\ i + 1 \in 1..Len(q)
          BY <1>4, <3>1
      <4>2. a[i] = q[i] /\ a[i + 1] = q[i + 1]
          BY <1>3, <4>1
      <4>3. Follows(q[i], q[i + 1], br)
          BY <1>7, <3>1, <4>1 DEF Framed
      <4>4. a[i][1] <= n
          BY <1>1, <2>6, <4>1, <4>2
      <4> QED
          BY <4>2, <4>3, <4>4
    <3>2. CASE i = Len(q)
      <4>1. Above(q[Len(q)][1], n, br)
          BY <1>1, <2>2, <2>5, <2>6 DEF Above
      <4>2. ~(q[Len(q)][2] < Length[q[Len(q)][1]])
        <5>1. q[Len(q)] \in Byte
            BY <2>2
        <5>2. Length[q[Len(q)][1]] \in Nat
            BY <5>1, ByteFacts
        <5> QED
            BY <2>5, <5>2
      <4>3. Follows(q[Len(q)], <<n, 1>>, br)
          BY <4>1, <4>2 DEF Follows
      <4>4. a[i][1] <= n
          BY <1>1, <2>2, <2>3, <2>6, <3>2
      <4> QED
          BY <2>3, <2>7, <3>2, <4>3, <4>4
    <3>3. CASE i > Len(q)
      <4> DEFINE j == i - Len(q)
      <4>1. j \in 1..Length[n] /\ i = Len(q) + j /\ j \in Nat
          BY <1>1, <1>4, <1>6, <3>3
      <4> HIDE DEF j
      <4>2. a[i] = <<n, j>>
          BY <1>5, <4>1
      <4>3. ASSUME i < Len(a) PROVE Follows(a[i], a[i + 1], br)
        <5>1. j + 1 \in 1..Length[n] /\ j < Length[n] /\ i + 1 = Len(q) + (j + 1)
            BY <1>1, <1>4, <1>6, <4>1, <4>3
        <5>2. a[i + 1] = <<n, j + 1>>
            BY <1>5, <5>1
        <5> QED
            BY <4>2, <5>1, <5>2 DEF Follows
      <4>4. a[i][1] <= n
          BY <1>1, <4>2
      <4> QED
          BY <4>3, <4>4
    <3>4. i \in Nat
        BY <1>6
    <3> QED
        BY <1>4, <3>1, <3>2, <3>3, <3>4
  <2>9. Framed(a, br, n)
      BY <2>3, <2>4, <2>8 DEF Framed
  <2>10. LastWhole(a, br, n)
    <3>1. a[Len(a)] = <<n, Length[n]>>
      <4>1. Length[n] \in 1..Length[n] /\ Len(a) = Len(q) + Length[n]
          BY <1>1, <1>5, <1>6
      <4> QED
          BY <1>5, <4>1
    <3> QED
        BY <3>1 DEF LastWhole
  <2>11. Comes(a, br, p, n)
      BY <1>7, <1>8, <1>10, <2>3 DEF Comes
  <2>12. InTurn(p, br, n)
    <3>1. ASSUME NEW i \in 1..Len(p) PROVE p[i] <= n
      <4>1. p[i] <= qd
          BY <1>7 DEF InTurn
      <4>2. p[i] \in 1..N
          BY ElementType
      <4> QED
          BY <1>1, <4>1, <4>2, Bounds
    <3> QED
        BY <1>7, <3>1 DEF InTurn
  <2> QED
      BY <2>9, <2>10, <2>11, <2>12 DEF InLine, n, y, a
<1> QED
    BY <1>9, <1>10

\* The first message taken from the line is the next one; the rest stays in its place.
LEMMA InLineParse ==
    ASSUME NEW q \in Seq(Byte), NEW br \in Nat, NEW p \in Seq(1..N), NEW qd \in Nat,
           Len(q) > 0, InLine(q, br, p, qd), br = 0 => LastWhole(q, br, qd),
           NEW l \in 0..Len(q), l = Length[q[1][1]]
    PROVE  /\ InLine(From(q, l), br, Append(p, q[1][1]), qd)
           /\ LastWhole(q, br, qd) => LastWhole(From(q, l), br, qd)
<1> DEFINE m == q[1][1]
           r == From(q, l)
           o == Append(p, m)
<1>1. Framed(q, br, qd) /\ Comes(q, br, p, qd) /\ InTurn(p, br, qd)
    BY DEF InLine
<1>2. Len(q) \in Nat /\ Len(p) \in Nat /\ q # <<>>
  <2>1. Len(<<>>) = 0
      OBVIOUS
  <2> QED
      BY <2>1, LenType
<1>3. q[1] \in Byte
    BY <1>2
<1>4. m \in 1..N /\ m \in Nat /\ l \in Nat \ {0} /\ l \in 1..Len(q)
    BY <1>2, <1>3, ByteFacts
<1>5. q[l] = <<m, l>>
    BY <1>1, <1>4, FirstMessage
<1>6. /\ r \in Seq(Byte) /\ Len(r) = Len(q) - l
      /\ \A i \in 1..(Len(q) - l) : r[i] = q[l + i]
  <2>1. l \in 0..Len(q)
      OBVIOUS
  <2> QED
      BY <2>1, FromFacts, ZenonT(60)
<1>7. m <= qd
    BY <1>1, <1>2 DEF Framed
<1>8. /\ p # <<>> => m > p[Len(p)]
      /\ br = 0 => m = Len(p) + 1
    BY <1>1, <1>2 DEF Comes
<1>9. l = Length[m]
    OBVIOUS
<1> HIDE DEF r, m
<1>10. o \in Seq(1..N) /\ Len(o) = Len(p) + 1 /\ o[Len(p) + 1] = m /\ \A i \in 1..Len(p) : o[i] = p[i]
    BY <1>4
<1> HIDE DEF o
<1>11. o # <<>>
  <2>1. Len(<<>>) = 0
      OBVIOUS
  <2> QED
      BY <1>2, <1>10, <2>1
\* What follows the message, if anything does.
<1>12. ASSUME r # <<>>
       PROVE  r[1][2] = 1 /\ Above(m, r[1][1], br) /\ r[1][1] \in Nat
  <2>1. Len(r) > 0
      BY <1>6, <1>12, EmptyOrNot
  <2>2. 1 \in 1..(Len(q) - l) /\ l < Len(q)
      BY <1>2, <1>4, <1>6, <2>1
  <2>3. r[1] = q[l + 1]
      BY <1>6, <2>2
  <2>4. Follows(q[l], q[l + 1], br)
      BY <1>1, <1>4, <2>2 DEF Framed
  <2>5. r[1][2] = 1 /\ Above(m, r[1][1], br)
      BY <1>4, <1>5, <1>9, <2>3, <2>4 DEF Follows
  <2>6. r[1] \in Byte
      BY <1>6, <2>1
  <2>7. r[1][1] \in Nat
      BY <2>6, ByteFacts
  <2> QED
      BY <2>5, <2>7
<1>13. ASSUME NEW i \in 1..Len(r)
       PROVE  r[i][1] <= qd /\ (i < Len(r) => Follows(r[i], r[i + 1], br))
  <2>1. i \in 1..(Len(q) - l) /\ l + i \in 1..Len(q) /\ i \in Nat
    <3>1. l \in Nat /\ Len(q) \in Nat /\ i \in 1..(Len(q) - l)
        BY <1>2, <1>4, <1>6
    <3> QED
        BY <3>1, SMTT(60)
  <2>2. r[i] = q[l + i]
      BY <1>6, <2>1
  <2>3. r[i][1] <= qd
      BY <1>1, <2>1, <2>2 DEF Framed
  <2>4. ASSUME i < Len(r) PROVE Follows(r[i], r[i + 1], br)
    <3>1. i + 1 \in 1..(Len(q) - l) /\ l + i < Len(q) /\ l + (i + 1) = (l + i) + 1
      <4>1. i < Len(q) - l
          BY <1>6, <2>4
      <4>2. i \in Nat /\ l \in Nat /\ Len(q) \in Nat
          BY <1>2, <1>4, <2>1
      <4> QED
          BY <4>1, <4>2, NextPlaceBehind, ZenonT(60)
    <3>2. r[i + 1] = q[(l + i) + 1]
        BY <1>6, <3>1
    <3>3. Follows(q[l + i], q[(l + i) + 1], br)
        BY <1>1, <2>1, <3>1 DEF Framed
    <3> QED
        BY <2>2, <3>2, <3>3
  <2> QED
      BY <2>3, <2>4
<1>14. Framed(r, br, qd)
    BY <1>12, <1>13 DEF Framed
<1>15. ASSUME r # <<>> PROVE r[1][1] > o[Len(o)]
    BY <1>4, <1>10, <1>12, <1>15 DEF Above
<1>16. ASSUME br = 0
       PROVE  IF r = <<>> THEN qd = Len(o) ELSE r[1][1] = Len(o) + 1
  <2>1. m = Len(o)
      BY <1>8, <1>10, <1>16
  <2>2. CASE r = <<>>
    <3>1. Len(r) = 0
        BY <2>2
    <3>2. Len(q) = l
        BY <1>2, <1>4, <1>6, <3>1, SMTT(60)
    <3>3. q[Len(q)][1] = qd
        BY <1>2, <1>16 DEF LastWhole
    <3>4. q[l][1] = m
        BY <1>5
    <3> QED
        BY <2>1, <2>2, <3>2, <3>3, <3>4
  <2>3. CASE r # <<>>
      BY <1>12, <1>16, <2>1, <2>3 DEF Above
  <2> QED
      BY <2>2, <2>3
<1>17. Comes(r, br, o, qd)
    BY <1>15, <1>16 DEF Comes
<1>18. ASSUME NEW i \in 1..Len(o)
       PROVE  /\ o[i] <= qd
              /\ IF br = 0 THEN o[i] = i ELSE i > 1 => o[i - 1] < o[i]
  <2>1. CASE i \in 1..Len(p)
    <3>1. o[i] = p[i] /\ (i > 1 => o[i - 1] = p[i - 1])
      <4>1. i > 1 => i - 1 \in 1..Len(p)
          BY <1>2, <2>1
      <4> QED
          BY <1>10, <2>1, <4>1
    <3> QED
        BY <1>1, <2>1, <3>1 DEF InTurn
  <2>2. CASE i = Len(p) + 1
    <3>1. o[i] = m
        BY <1>10, <2>2
    <3>2. ASSUME i > 1 PROVE o[i - 1] < o[i]
      <4>1. Len(p) \in 1..Len(p) /\ i - 1 = Len(p) /\ p # <<>>
        <5>1. Len(<<>>) = 0
            OBVIOUS
        <5> QED
            BY <1>2, <2>2, <3>2, <5>1
      <4>2. o[i - 1] = p[Len(p)]
          BY <1>10, <4>1
      <4>3. p[Len(p)] \in 1..N /\ m > p[Len(p)]
          BY <1>8, <4>1, ElementType
      <4> QED
          BY <1>4, <3>1, <4>2, <4>3, Bounds
    <3> QED
        BY <1>7, <1>8, <2>2, <3>1, <3>2
  <2>3. i \in 1..Len(p) \/ i = Len(p) + 1
      BY <1>2, <1>10
  <2> QED
      BY <2>1, <2>2, <2>3
<1>19. InTurn(o, br, qd)
    BY <1>18 DEF InTurn
<1>20. ASSUME LastWhole(q, br, qd) PROVE LastWhole(r, br, qd)
  <2> SUFFICES ASSUME r # <<>>
               PROVE  r[Len(r)] = q[Len(q)]
      BY <1>2, <1>20 DEF LastWhole
  <2>1. Len(r) > 0
      BY <1>6, EmptyOrNot
  <2>2. Len(r) \in 1..(Len(q) - l) /\ l + Len(r) = Len(q)
    <3>1. Len(r) \in Nat /\ Len(r) = Len(q) - l
        BY <1>6, LenType
    <3>2. l \in Nat /\ Len(q) \in Nat
        BY <1>2, <1>4
    <3> QED
        BY <2>1, <3>1, <3>2, PlacesBehind, ZenonT(60)
  <2> QED
      BY <1>6, <2>2
<1> QED
    BY <1>14, <1>17, <1>19, <1>20 DEF InLine, r, m, o
\* A buffer that is kept and not cut ends with a whole message.
LEMMA NotBroken ==
    ASSUME NEW b \in Seq(Byte), NEW off \in 0..Len(b), ~Broken(b, off), NEW br \in Nat, br > 0,
           NEW qd
    PROVE  LastWhole(From(b, off), br, qd)
<1> DEFINE f == From(b, off)
<1>1. /\ f \in Seq(Byte) /\ Len(f) = Len(b) - off
      /\ \A i \in 1..(Len(b) - off) : f[i] = b[off + i]
    BY FromFacts
<1>2. Len(b) \in Nat /\ off \in Nat
    BY LenType
<1> HIDE DEF f
<1>3. ASSUME f # <<>> PROVE f[Len(f)][2] = Length[f[Len(f)][1]]
  <2>1. Len(f) > 0
      BY <1>1, <1>3, EmptyOrNot
  <2>2. off < Len(b) /\ Len(f) \in 1..(Len(b) - off) /\ off + Len(f) = Len(b)
      BY <1>1, <1>2, <2>1
  <2>3. f[Len(f)] = b[Len(b)] /\ Len(b) \in 1..Len(b)
      BY <1>1, <1>2, <2>2
  <2>4. b[Len(b)] \in Byte
      BY <2>3, ElementType
  <2>5. /\ b[Len(b)][2] \in 1..Length[b[Len(b)][1]]
        /\ Length[b[Len(b)][1]] \in Nat \ {0}
      BY <2>4, ByteFacts
  <2>6. ~(b[Len(b)][2] < Length[b[Len(b)][1]])
      BY <2>2 DEF Broken
  <2> QED
      BY <2>3, <2>5, <2>6
<1> QED
    BY <1>3 DEF LastWhole, f

\* What mrpc_parse looks at is a message, and all of it if it is whole.
LEMMA NoParseFails ==
    ASSUME StreamTypes, ~cut, OrderInv
    PROVE  Aligned /\ (Whole => Intact)
<1> SUFFICES ASSUME Unread > 0 PROVE Front[2] = 1 /\ (Unread >= Length[Front[1]] => Intact)
    BY DEF Aligned, Whole
<1>1. /\ Front \in Byte /\ Unread \in Nat /\ Line \in Seq(Byte)
      /\ Unread <= Len(Line) /\ Front = Line[1]
      /\ \A i \in 1..Unread : Line[i] = rBuf[rOff + i]
      /\ rOff + Unread = Len(rBuf) /\ rOff \in Nat
    BY FrontIsFirst
<1>2. Framed(Line, breaks, queued)
    BY DEF OrderInv, InLine
<1> DEFINE m == Front[1]
           l == Length[m]
<1>3. m \in 1..N /\ l \in Nat \ {0}
    BY <1>1, ByteFacts
<1>4. Len(Line) \in Nat /\ Len(Line) > 0
    BY <1>1, LenType
<1>5. Line # <<>>
  <2>1. Len(<<>>) = 0
      OBVIOUS
  <2> QED
      BY <1>4, <2>1
<1>6. Front[2] = 1
    BY <1>1, <1>2, <1>5 DEF Framed
<1>7. ASSUME Unread >= l PROVE Intact
  <2> DEFINE g == SubSeq(rBuf, rOff + 1, rOff + l)
             h == Bytes(m)
  <2>1. h \in Seq(Byte) /\ Len(h) = l /\ \A i \in 1..l : h[i] = <<m, i>>
      BY <1>3, BytesFacts
  <2>2. rBuf \in Seq(Byte) /\ Len(rBuf) \in Nat
      BY LenType DEF StreamTypes, SeqTypes
  <2> HIDE DEF l
  <2>3. rOff + l <= Len(rBuf)
      BY <1>1, <1>3, <1>7, <2>2
  <2>4. /\ g \in Seq(Byte) /\ Len(g) = l
        /\ \A i \in 1..l : g[i] = rBuf[rOff + i]
    <3>1. rBuf \in Seq(Byte) /\ rOff \in Nat /\ l \in Nat
        BY <1>1, <1>3, <2>2
    <3> QED
        BY <2>3, <3>1, PartFacts, ZenonT(60)
  <2>5. ASSUME NEW i \in 1..l PROVE g[i] = h[i]
    <3>1. i \in 1..Unread /\ i \in 1..Len(Line) /\ i <= l
        BY <1>1, <1>3, <1>4, <1>7
    <3>2. Line[i] = <<Line[1][1], i>>
        BY <1>1, <1>2, <1>4, <3>1, FirstMessage DEF l
    <3>3. Line[i] = rBuf[rOff + i]
        BY <1>1, <3>1
    <3> QED
        BY <1>1, <2>1, <2>4, <3>2, <3>3
  <2> HIDE DEF g, h
  <2>6. g = h
      BY <2>1, <2>4, <2>5, SeqEqual
  <2> QED
      BY <2>6 DEF Intact, g, h, l
<1> QED
    BY <1>6, <1>7

\* The first state.
LEMMA OrderInit ==
    ASSUME Init
    PROVE  StreamTypes /\ OrderInv
<1>1. /\ queued = 0 /\ sBuf = <<>> /\ sOff = 0 /\ flight = <<>> /\ kern = <<>> /\ rBuf = <<>>
      /\ rOff = 0 /\ parsed = <<>> /\ breaks = 0
    BY DEF Init
<1>2. <<>> \in Seq(Byte) /\ Len(<<>>) = 0 /\ 0 \in 0..Len(<<>>)
    OBVIOUS
<1>3. From(<<>>, 0) = <<>>
    BY <1>2, FromNone
<1>4. Space \in Nat
  <2>1. Space = Capacity - Len(flight) - Len(kern)
      BY DEF Space
  <2> QED
      BY <1>1, <1>2, <2>1, Bounds
<1>5. SeqTypes
    BY <1>1, <1>2, <1>4 DEF SeqTypes
<1>6. 0 \in 0..N /\ <<>> \in Seq(1..N)
    BY Bounds
<1>7. RestTypes
    BY <1>1, <1>6 DEF Init, RestTypes
<1>8. EndInv
    BY DEF Init, EndInv
<1>9. FlagTypes
    BY DEF Init, FlagTypes
<1>10. Line = <<>>
  <2>1. Line = Four(<<>>, <<>>, <<>>, <<>>)
      BY <1>1, <1>3 DEF Line
  <2>2. Four(<<>>, <<>>, <<>>, <<>>) = <<>> \o <<>>
      BY <1>2, FourNoSender
  <2>3. <<>> \o <<>> = <<>>
      BY <1>2, ConcatEmptySeq
  <2> QED
      BY <2>1, <2>2, <2>3
<1>11. InLine(<<>>, 0, <<>>, 0) /\ LastWhole(<<>>, 0, 0)
    BY <1>2 DEF InLine, Framed, Comes, InTurn, LastWhole
<1>12. OrderInv
    BY <1>1, <1>10, <1>11 DEF OrderInv
<1> QED
    BY <1>5, <1>7, <1>8, <1>9, <1>12 DEF StreamTypes
LineTyped == Line \in Seq(Byte)

LEMMA LineType == SeqTypes => LineTyped
BY LineParts DEF LineTyped

LEMMA OrderStep ==
    ASSUME StreamTypes, OrderInv, [Next]_vars
    PROVE  StreamTypes' /\ OrderInv'
<1>1. SeqTypes /\ RestTypes /\ FlagTypes /\ EndInv
    BY DEF StreamTypes
<1>2. /\ Line \in Seq(Byte) /\ From(rBuf, rOff) \in Seq(Byte)
      /\ rBuf \in Seq(Byte) /\ kern \in Seq(Byte) /\ rOff \in 0..Len(rBuf)
    BY <1>1, LineParts DEF SeqTypes
<1>3. breaks \in Nat /\ parsed \in Seq(1..N) /\ queued \in Nat /\ queued \in 0..N
    BY <1>1, Bounds DEF RestTypes
<1>4. ended => breaks > 0
    BY <1>1 DEF EndInv
\* Sockets have ended: any beginning of the line is in order.
<1>5. ASSUME NEW q \in Seq(Byte), NEW r \in Seq(Byte), Line = q \o r, ~cut,
             NEW br \in Nat, br > 0
      PROVE  InLine(q, br, parsed, queued)
  <2>1. InLine(q \o r, breaks, parsed, queued)
      BY <1>5 DEF OrderInv
  <2> QED
      BY <1>3, <1>5, <2>1, InLineBefore
<1>6. /\ \A q \in Seq(Byte) : q \o <<>> = q /\ <<>> \o q = q
      /\ <<>> \in Seq(Byte)
    BY ConcatEmptySeq
<1>7. /\ \A br, qd : LastWhole(<<>>, br, qd)
      /\ ~cut /\ breaks > 0 => InLine(<<>>, breaks, parsed, queued)
  <2>1. \A br, qd : LastWhole(<<>>, br, qd)
      BY DEF LastWhole
  <2>2. Line = <<>> \o Line
      BY <1>2, <1>6
  <2> QED
      BY <1>2, <1>3, <1>5, <1>6, <2>1, <2>2
\* Nothing that the order is about changes.
<1>8. ASSUME StreamTypes', Line' = Line, UNCHANGED <<queued, parsed, breaks, cut, ended>>
      PROVE  StreamTypes' /\ OrderInv'
    BY <1>8 DEF OrderInv
<1>9. CASE Queue
  <2>1. StreamTypes' /\ queued + 1 \in 1..N /\ Line' = Line \o Bytes(queued + 1)
      BY <1>9, QueueLine
  <2>2. ~ended /\ queued' = queued + 1 /\ UNCHANGED <<parsed, breaks, cut, ended>>
      BY <1>9 DEF Queue, rVars, endVars
  <2>3. ASSUME ~cut
        PROVE  /\ InLine(Line \o Bytes(queued + 1), breaks, parsed, queued + 1)
               /\ LastWhole(Line \o Bytes(queued + 1), breaks, queued + 1)
    <3>1. InLine(Line, breaks, parsed, queued) /\ LastWhole(Line, breaks, queued)
        BY <2>2, <2>3 DEF OrderInv
    <3> QED
        BY <1>2, <1>3, <2>1, <3>1, InLineQueue
  <2> QED
      BY <2>1, <2>2, <2>3 DEF OrderInv
<1>10. CASE Writable
  <2>1. StreamTypes' /\ Line' = Line
      BY <1>10, WritableLine
  <2> QED
      BY <1>8, <1>10, <2>1 DEF Writable, rVars, endVars
<1>11. CASE \E k \in 1..Len(flight) : Arrive(k)
  <2>1. PICK k \in 1..Len(flight) : Arrive(k)
      BY <1>11
  <2>2. StreamTypes' /\ Line' = Line
      BY <2>1, ArriveLine
  <2> QED
      BY <1>8, <2>1, <2>2 DEF Arrive, sVars, rVars, endVars
<1>12. CASE Readable
  <2>1. StreamTypes' /\ Line' = Line
      BY <1>12, ReadableLine
  <2> QED
      BY <1>8, <1>12, <2>1 DEF Readable, sVars, endVars
<1>13. CASE ParseOne
  <2>1. /\ StreamTypes' /\ pc = "parse"
        /\ UNCHANGED <<queued, breaks, cut, ended>>
        /\ Line \in Seq(Byte) /\ Len(Line) > 0
        /\ Length[Line[1][1]] \in 0..Len(Line)
        /\ Line' = From(Line, Length[Line[1][1]])
        /\ parsed' = Append(parsed, Line[1][1])
      BY <1>13, ParseOneLine
  <2>2. ASSUME ~cut
        PROVE  /\ InLine(From(Line, Length[Line[1][1]]), breaks, Append(parsed, Line[1][1]), queued)
               /\ ~ended => LastWhole(From(Line, Length[Line[1][1]]), breaks, queued)
    <3>1. InLine(Line, breaks, parsed, queued) /\ (~ended => LastWhole(Line, breaks, queued))
        BY <2>2 DEF OrderInv
    <3>2. breaks = 0 => LastWhole(Line, breaks, queued)
        BY <1>3, <1>4, <3>1
    <3>3. /\ InLine(From(Line, Length[Line[1][1]]), breaks, Append(parsed, Line[1][1]), queued)
          /\ LastWhole(Line, breaks, queued)
             => LastWhole(From(Line, Length[Line[1][1]]), breaks, queued)
        BY <1>3, <2>1, <3>1, <3>2, InLineParse
    <3> QED
        BY <3>1, <3>3
  <2> QED
      BY <2>1, <2>2 DEF OrderInv
<1>14. CASE ParseFails
  <2>1. StreamTypes' /\ (cut => cut') /\ (~Aligned \/ (Whole /\ ~Intact))
      BY <1>14, ParseFailsLine
  <2>2. cut
      BY <2>1, NoParseFails
  <2> QED
      BY <2>1, <2>2 DEF OrderInv
<1>15. CASE ParseEnd
  <2>1. StreamTypes' /\ Line' = Line /\ UNCHANGED <<queued, parsed, breaks, cut, ended>>
      BY <1>15, ParseEndLine
  <2> QED
      BY <1>8, <2>1
<1>16. CASE Break
  <2>1. /\ StreamTypes' /\ ended' /\ breaks' = breaks + 1
        /\ UNCHANGED <<queued, parsed, cut>>
      BY <1>16, BreakLine
  <2>2. PICK rest \in Seq(Byte) : Line = Line' \o rest
      BY <1>16, BreakLine
  <2>3. Line' \in Seq(Byte)
    <3>1. SeqTypes' => LineTyped'
        BY LineType, PTL
    <3> QED
        BY <2>1, <3>1 DEF StreamTypes, LineTyped
  <2>4. breaks' \in Nat /\ breaks' > 0
      BY <1>3, <2>1
  <2>5. ASSUME ~cut PROVE InLine(Line', breaks', parsed, queued)
      BY <1>5, <2>2, <2>3, <2>4, <2>5
  <2> QED
      BY <2>1, <2>5 DEF OrderInv
<1>17. CASE ReadEnd
  <2>1. /\ StreamTypes' /\ ended /\ ~ended'
        /\ UNCHANGED <<queued, parsed, breaks>>
        /\ cut' = (cut \/ (keeps /\ Broken(rBuf \o kern, rOff)))
        /\ rOff \in 0..Len(rBuf \o kern)
        /\ Line = From(rBuf \o kern, rOff)
        /\ IF keeps THEN Line' = Line ELSE Line' = <<>>
      BY <1>17, ReadEndLine
  <2>2. breaks > 0
      BY <1>4, <2>1
  <2>3. CASE keeps
    <3>1. ASSUME ~cut' PROVE LastWhole(Line, breaks, queued)
      <4>1. ~Broken(rBuf \o kern, rOff)
          BY <2>1, <2>3, <3>1
      <4>2. (rBuf \o kern) \in Seq(Byte)
          BY <1>2, ConcatFacts
      <4>3. LastWhole(From(rBuf \o kern, rOff), breaks, queued)
          BY <1>3, <2>1, <2>2, <4>1, <4>2, NotBroken
      <4> QED
          BY <2>1, <4>3
    <3>2. ASSUME ~cut' PROVE InLine(Line, breaks, parsed, queued)
        BY <2>1, <3>2 DEF OrderInv
    <3> QED
        BY <2>1, <2>3, <3>1, <3>2 DEF OrderInv
  <2>4. CASE ~keeps
      BY <1>7, <2>1, <2>2, <2>4 DEF OrderInv
  <2> QED
      BY <2>3, <2>4
<1>18. CASE NoticeEnd
  <2>1. /\ StreamTypes' /\ ended /\ ~ended'
        /\ UNCHANGED <<queued, parsed, breaks>>
        /\ cut' = (cut \/ (keeps /\ Broken(rBuf, rOff)))
        /\ kern \in Seq(Byte)
        /\ Line = From(rBuf, rOff) \o kern
        /\ IF keeps THEN Line' = From(rBuf, rOff) ELSE Line' = <<>>
      BY <1>18, NoticeEndLine
  <2>2. breaks > 0
      BY <1>4, <2>1
  <2>3. CASE keeps
    <3>1. ASSUME ~cut' PROVE LastWhole(From(rBuf, rOff), breaks, queued)
      <4>1. ~Broken(rBuf, rOff)
          BY <2>1, <2>3, <3>1
      <4> QED
          BY <1>2, <1>3, <2>2, <4>1, NotBroken
    <3>2. ASSUME ~cut' PROVE InLine(From(rBuf, rOff), breaks, parsed, queued)
      <4>1. ~cut
          BY <2>1, <3>2
      <4> QED
          BY <1>2, <1>3, <1>5, <2>1, <2>2, <4>1
    <3> QED
        BY <2>1, <2>3, <3>1, <3>2 DEF OrderInv
  <2>4. CASE ~keeps
      BY <1>7, <2>1, <2>2, <2>4 DEF OrderInv
  <2> QED
      BY <2>3, <2>4
<1>19. CASE UNCHANGED vars
  <2>1. UNCHANGED <<queued, sBuf, sOff, sLen, pc, rBuf, rOff, rLen, parsed, keeps, ended, breaks, cut,
                    blocked, wEdge, flight, kern, rEdge>>
      BY <1>19 DEF vars, sVars, rVars, endVars
  <2>2. Line' = Line /\ Space' = Space
      BY <2>1 DEF Line, Space
  <2>3. SeqTypes' /\ RestTypes'
      BY <1>1, <2>1, <2>2 DEF SeqTypes, RestTypes
  <2>4. EndInv' /\ FlagTypes'
      BY <1>1, <2>1 DEF EndInv, FlagTypes
  <2> QED
      BY <1>8, <2>1, <2>2, <2>3, <2>4 DEF StreamTypes
<1> QED
    BY <1>9, <1>10, <1>11, <1>12, <1>13, <1>14, <1>15, <1>16, <1>17, <1>18, <1>19 DEF Next, Parse

\* InOrder, about mrpc_recv2, mrpc_parse and mrpc_send2 together: the messages come out
\* as they went in, each once and in order, whatever the pieces in which the socket
\* takes and gives them; only a message that is cut by the end of a socket, with its
\* beginning kept in a buffer of the RPC client, spoils it.
THEOREM InOrderAlways == Spec => []InOrder
<1>1. Init => StreamTypes /\ OrderInv
    BY OrderInit
<1>2. StreamTypes /\ OrderInv /\ [Next]_vars => StreamTypes' /\ OrderInv'
    BY OrderStep
<1>3. StreamTypes /\ OrderInv => InOrder
  <2> SUFFICES ASSUME StreamTypes, OrderInv, ~cut
               PROVE  /\ pc = "parse" => Aligned /\ (Whole => Intact)
                      /\ \A i \in 1..Len(parsed) : IF breaks = 0 THEN parsed[i] = i
                                                   ELSE i > 1 => parsed[i - 1] < parsed[i]
                      /\ \A i \in 1..Len(parsed) : parsed[i] <= queued
      BY DEF InOrder
  <2>1. Aligned /\ (Whole => Intact)
      BY NoParseFails
  <2>2. InTurn(parsed, breaks, queued)
      BY DEF OrderInv, InLine
  <2> QED
      BY <2>1, <2>2 DEF InTurn
<1> QED
    BY <1>1, <1>2, <1>3, PTL DEF Spec
-----------------------------------------------------------------------------
(* The sizes of the buffers.                                               *)

\* What Integers defines of the powers of two; the provers know nothing of them.
PowersOfTwo == 2^0 = 1 /\ \A j \in Nat : 2^j \in Nat /\ 2^(j + 1) = 2 * 2^j

LEMMA PowerExceeds ==
    ASSUME PowersOfTwo
    PROVE  \A n \in Nat : 2^n > n
<1> DEFINE T == {e \in Nat : ~(2^e > e)}
<1> SUFFICES ASSUME T # {} PROVE FALSE
    OBVIOUS
<1>1. T \in SUBSET Nat
    OBVIOUS
<1>2. PICK e \in T : \A f \in T : e <= f
    BY <1>1, MinNat
<1>3. e \in Nat /\ ~(2^e > e)
    BY <1>2
<1>4. e # 0
  <2> SUFFICES ASSUME e = 0 PROVE FALSE
      OBVIOUS
  <2>1. 2^0 = 1
      BY DEF PowersOfTwo
  <2>2. 2^e = 1
      BY <2>1, Zenon
  <2> QED
      BY <1>3, <2>2
<1> DEFINE g == e - 1
<1>5. g \in Nat /\ g < e /\ e = g + 1
    BY <1>3, <1>4
<1> HIDE DEF g
<1>6. 2^g > g
  <2>1. g \in T => e <= g
      BY <1>2
  <2> QED
      BY <1>3, <1>5, <2>1
<1>7. 2^g \in Nat /\ 2^(g + 1) = 2 * 2^g
    BY <1>5 DEF PowersOfTwo
<1>8. 2^e = 2 * 2^g
    BY <1>5, <1>7
<1> QED
    BY <1>3, <1>5, <1>6, <1>7, <1>8

LEMMA Product ==
    ASSUME NEW a \in Nat \ {0}, NEW b \in Nat
    PROVE  a * b \in Nat /\ a * b >= b
OBVIOUS

\* mrpc_buf_enlarge makes enough room.
LEMMA EnlargedFits ==
    ASSUME PowersOfTwo, NEW len \in Nat \ {0}, NEW need \in Nat \ {0}
    PROVE  Enlarged(len, need) \in Nat \ {0} /\ Enlarged(len, need) >= need
<1> DEFINE S == {x \in {len * 2^j : j \in 0..need} : x >= need}
<1>1. ASSUME NEW j \in 0..need PROVE 2^j \in Nat /\ len * 2^j \in Nat
  <2>1. 2^j \in Nat
      BY DEF PowersOfTwo
  <2> QED
      BY <2>1, Product
<1>2. S \in SUBSET Nat
    BY <1>1
<1>3. need \in 0..need
    OBVIOUS
<1>4. 2^need \in Nat /\ 2^need > need
    BY PowerExceeds DEF PowersOfTwo
<1>5. len * 2^need \in Nat /\ len * 2^need >= 2^need
    BY <1>4, Product
<1>6. len * 2^need >= need
    BY <1>4, <1>5
<1>7. S # {}
    BY <1>3, <1>6
<1>8. Enlarged(len, need) = Min(S)
    BY DEF Enlarged
<1>9. \A x \in S : x >= need
    OBVIOUS
<1> HIDE DEF S
<1>10. \E x \in S : \A y \in S : x <= y
    BY <1>2, <1>7, MinNat
<1>11. Min(S) \in S
    BY <1>10 DEF Min
<1>12. Min(S) \in Nat /\ Min(S) >= need
    BY <1>2, <1>9, <1>11
<1> QED
    BY <1>8, <1>12

LEMMA ShrunkFits ==
    ASSUME NEW len \in Nat \ {0}
    PROVE  Shrunk(len) \in Nat \ {0}
BY Bounds DEF Shrunk

\* No buffer holds more than there is room for.
SizeInv ==
    /\ sLen \in Nat \ {0} /\ Len(sBuf) <= sLen
    /\ rLen \in Nat \ {0} /\ Len(rBuf) <= rLen

LEMMA FlushFits ==
    ASSUME NEW b, NEW off, NEW len \in Nat \ {0}, Len(b) <= len, Flush(b, off, len)
    PROVE  sLen' \in Nat \ {0} /\ Len(sBuf') <= sLen'
<1>1. \/ sBuf' = <<>> /\ sLen' = Shrunk(len)
      \/ sBuf' = b /\ sLen' = len
    BY DEF Flush
<1>2. Len(<<>>) = 0
    OBVIOUS
<1> QED
    BY <1>1, <1>2, ShrunkFits

LEMMA ReopenFits ==
    ASSUME NEW b, NEW off, NEW len \in Nat \ {0}, Len(b) <= len, Reopen(b, off, len)
    PROVE  SizeInv'
<1>1. /\ sBuf' = <<>> /\ sLen' = BufSize
      /\ \/ rBuf' = b /\ rLen' = len
         \/ rBuf' = <<>> /\ rLen' = BufSize
    BY DEF Reopen, NoSender
<1>2. Len(<<>>) = 0
    OBVIOUS
<1> QED
    BY <1>1, <1>2, Bounds DEF SizeInv

LEMMA SizeStep ==
    ASSUME PowersOfTwo, StreamTypes, SizeInv, [Next]_vars
    PROVE  SizeInv'
<1>1. /\ sLen \in Nat \ {0} /\ Len(sBuf) <= sLen
      /\ rLen \in Nat \ {0} /\ Len(rBuf) <= rLen
    BY DEF SizeInv
<1>2. sBuf \in Seq(Byte) /\ rBuf \in Seq(Byte) /\ kern \in Seq(Byte) /\ queued \in 0..N
    BY DEF StreamTypes, SeqTypes, RestTypes
<1>3. Len(<<>>) = 0
    OBVIOUS
<1>4. ASSUME NEW b \in Seq(Byte) PROVE Len(b) \in Nat /\ Len(b) + 1 \in Nat \ {0}
    BY LenType
<1>5. CASE Queue
  <2>1. queued + 1 \in 1..N
      BY <1>2, <1>5, Bounds DEF Queue
  <2> DEFINE y == Bytes(queued + 1)
             b == sBuf \o y
  <2>2. y \in Seq(Byte) /\ Len(y) = Length[queued + 1] /\ Length[queued + 1] \in Nat \ {0}
      BY <2>1, BytesFacts, Bounds
  <2> HIDE DEF y
  <2>3. b \in Seq(Byte) /\ Len(b) = Len(sBuf) + Len(y)
      BY <1>2, <2>2, ConcatFacts, ZenonT(60)
  <2>4. Len(b) \in Nat \ {0}
      BY <1>2, <2>2, <2>3, LenType
  <2>5. Flush(b, sOff, Enlarged(sLen, Len(b))) /\ UNCHANGED <<rBuf, rLen>>
      BY <1>5 DEF Queue, rVars, y
  <2> HIDE DEF b
  <2>6. Enlarged(sLen, Len(b)) \in Nat \ {0} /\ Len(b) <= Enlarged(sLen, Len(b))
      BY <1>1, <2>4, EnlargedFits
  <2>7. sLen' \in Nat \ {0} /\ Len(sBuf') <= sLen'
      BY <2>5, <2>6, FlushFits
  <2> QED
      BY <1>1, <2>5, <2>7 DEF SizeInv
<1>6. CASE Writable
  <2>1. Flush(sBuf, sOff, sLen) /\ UNCHANGED <<rBuf, rLen>>
      BY <1>6 DEF Writable, rVars
  <2>2. sLen' \in Nat \ {0} /\ Len(sBuf') <= sLen'
      BY <1>1, <2>1, FlushFits
  <2> QED
      BY <1>1, <2>1, <2>2 DEF SizeInv
<1>7. CASE \E k \in 1..Len(flight) : Arrive(k)
    BY <1>1, <1>7 DEF Arrive, sVars, rVars, SizeInv
<1>8. CASE Readable
  <2>1. /\ rBuf' = rBuf \o SubSeq(kern, 1, Len(kern)) /\ rLen' = Enlarged(rLen, Len(rBuf') + 1)
        /\ UNCHANGED <<sBuf, sLen>>
      BY <1>8 DEF Readable, Taken, sVars
  <2>2. SubSeq(kern, 1, Len(kern)) = kern
      BY <1>2, SubSeqFull
  <2>3. rBuf' \in Seq(Byte)
      BY <1>2, <2>1, <2>2, ConcatFacts
  <2>4. Len(rBuf') \in Nat
      BY <2>3, LenType
  <2> DEFINE need == Len(rBuf') + 1
  <2>5. need \in Nat \ {0} /\ Len(rBuf') <= need
      BY <2>4
  <2> HIDE DEF need
  <2>6. Enlarged(rLen, need) \in Nat \ {0} /\ need <= Enlarged(rLen, need)
      BY <1>1, <2>5, EnlargedFits
  <2>7. rLen' = Enlarged(rLen, need)
      BY <2>1 DEF need
  <2>8. rLen' \in Nat \ {0} /\ Len(rBuf') <= rLen'
      BY <2>4, <2>5, <2>6, <2>7
  <2> QED
      BY <1>1, <2>1, <2>8 DEF SizeInv
<1>9. CASE ParseOne
    BY <1>1, <1>9 DEF ParseOne, sVars, SizeInv
<1>10. CASE ParseFails
  <2>1. Reopen(rBuf, rOff + 1, rLen)
      BY <1>10 DEF ParseFails
  <2> QED
      BY <1>1, <2>1, ReopenFits
<1>11. CASE ParseEnd
  <2>1. /\ \/ rBuf' = <<>> /\ rLen' = Shrunk(rLen)
           \/ rBuf' = rBuf /\ rLen' = rLen
        /\ UNCHANGED <<sBuf, sLen>>
      BY <1>11 DEF ParseEnd, sVars
  <2>2. rLen' \in Nat \ {0} /\ Len(rBuf') <= rLen'
      BY <1>1, <1>3, <2>1, ShrunkFits
  <2> QED
      BY <1>1, <2>1, <2>2 DEF SizeInv
<1>12. CASE Break
    BY <1>1, <1>3, <1>12, Bounds DEF Break, NoSender, rVars, SizeInv
<1>13. CASE ReadEnd
  <2> DEFINE b == rBuf \o kern
             len == Enlarged(rLen, Len(b) + 1)
  <2>1. b \in Seq(Byte)
      BY <1>2, ConcatFacts
  <2>2. Reopen(b, rOff, len)
      BY <1>13 DEF ReadEnd
  <2> HIDE DEF b
  <2>3. Len(b) \in Nat /\ Len(b) + 1 \in Nat \ {0}
      BY <2>1, <1>4
  <2>4. len \in Nat \ {0} /\ len >= Len(b) + 1
      BY <1>1, <2>3, EnlargedFits
  <2> HIDE DEF len
  <2>5. Len(b) <= len
      BY <2>3, <2>4
  <2> QED
      BY <2>2, <2>4, <2>5, ReopenFits
<1>14. CASE NoticeEnd
  <2>1. Reopen(rBuf, rOff, rLen)
      BY <1>14 DEF NoticeEnd
  <2> QED
      BY <1>1, <2>1, ReopenFits
<1>15. CASE UNCHANGED vars
    BY <1>1, <1>15 DEF vars, sVars, rVars, SizeInv
<1> QED
    BY <1>5, <1>6, <1>7, <1>8, <1>9, <1>10, <1>11, <1>12, <1>13, <1>14, <1>15 DEF Next, Parse

\* TypeOK, about mrpc_buf_enlarge and mrpc_buf_reset: nothing is ever written behind
\* the end of a buffer, its offset stays inside it, and the kernel holds no more than
\* it takes.
THEOREM StreamTypeCorrect ==
    ASSUME PowersOfTwo
    PROVE  Spec => []TypeOK
<1>1. Init => StreamTypes /\ OrderInv
    BY OrderInit
<1>2. Init => SizeInv
  <2>1. Len(<<>>) = 0
      OBVIOUS
  <2> QED
      BY <2>1, Bounds DEF Init, SizeInv
<1>3. StreamTypes /\ OrderInv /\ [Next]_vars => StreamTypes' /\ OrderInv'
    BY OrderStep
<1>4. StreamTypes /\ SizeInv /\ [Next]_vars => SizeInv'
    BY SizeStep
<1>5. StreamTypes /\ SizeInv => TypeOK
  <2> SUFFICES ASSUME StreamTypes, SizeInv PROVE TypeOK
      OBVIOUS
  <2>1. /\ queued \in 0..N /\ parsed \in Seq(1..N)
        /\ pc \in {"wait", "parse"}
      BY DEF StreamTypes, RestTypes
  <2>2. /\ sOff \in 0..Len(sBuf) /\ rOff \in 0..Len(rBuf) /\ Space >= 0
      BY DEF StreamTypes, SeqTypes
  <2>3. Len(sBuf) <= sLen /\ Len(rBuf) <= rLen
      BY DEF SizeInv
  <2>4. {blocked, wEdge, rEdge, keeps, ended, cut} \subseteq BOOLEAN
      BY DEF StreamTypes, FlagTypes
  <2> QED
      BY <2>1, <2>2, <2>3, <2>4 DEF TypeOK
<1> QED
    BY <1>1, <1>2, <1>3, <1>4, <1>5, PTL DEF Spec
-----------------------------------------------------------------------------
(* No edge is missed.                                                      *)

\* What waits has its event: bytes in the kernel an EPOLLIN, bytes in the send buffer
\* an EPOLLOUT, or the one that comes when there is space again; and the receiver
\* does not wait with a whole message in its buffer.
EdgeInv ==
    /\ kern # <<>> => rEdge
    /\ sOff < Len(sBuf) => wEdge \/ blocked
    /\ blocked => Space = 0
    /\ breaks = 0 /\ pc = "wait" => ~Whole
    /\ cut => breaks > 0

LEMMA FlushEdge ==
    ASSUME SeqTypes, NEW b \in Seq(Byte), NEW off \in 0..Len(b), NEW len,
           Flush(b, off, len), UNCHANGED kern
    PROVE  /\ sOff' < Len(sBuf') => blocked'
           /\ blocked' => Space' = 0
<1> DEFINE rest == From(b, off)
           k == Min({Len(rest), Space})
<1>1. rest \in Seq(Byte) /\ Len(rest) = Len(b) - off
    BY FromFacts
<1>2. /\ flight \in Seq(Byte) /\ kern \in Seq(Byte) /\ Space \in Nat
      /\ Space = Capacity - Len(flight) - Len(kern)
    BY DEF SeqTypes, Space
<1>3. Space' = Capacity - Len(flight') - Len(kern)
    BY DEF Space
<1>4. /\ flight' = flight \o SubSeq(rest, 1, k)
      /\ blocked' = (k < Len(rest))
      /\ k = Len(rest) => sBuf' = <<>> /\ sOff' = 0
    BY DEF Flush
<1>5. Len(b) \in Nat /\ Len(flight) \in Nat /\ Len(kern) \in Nat /\ Capacity \in Nat
    BY <1>2, LenType, Bounds
<1> HIDE DEF rest
<1>6. Len(rest) \in Nat
    BY <1>1, LenType
<1>7. k \in Nat /\ k <= Len(rest) /\ k <= Space /\ (k = Len(rest) \/ k = Space)
    BY <1>2, <1>6, MinPair
<1> HIDE DEF k
<1>8. CASE k = Len(rest)
  <2>1. ~(k < Len(rest))
      BY <1>6, <1>8
  <2>2. ~blocked'
      BY <1>4, <2>1, Zenon
  <2>3. sBuf' = <<>> /\ sOff' = 0
      BY <1>4, <1>8
  <2>4. Len(<<>>) = 0
      OBVIOUS
  <2> QED
      BY <2>2, <2>3, <2>4
<1>9. CASE k # Len(rest)
  <2>1. k < Len(rest) /\ k = Space
      BY <1>6, <1>7, <1>9
  <2>2. k \in 0..Len(rest)
      BY <1>6, <1>7
  <2>3. SubSeq(rest, 1, k) \in Seq(Byte) /\ Len(SubSeq(rest, 1, k)) = k
      BY <1>1, <2>2, UpToFacts
  <2>4. Len(flight') = Len(flight) + k
      BY <1>2, <1>4, <2>3, ConcatFacts
  <2>5. Space' = 0
      BY <1>2, <1>3, <1>5, <1>7, <2>1, <2>4
  <2> QED
      BY <1>4, <2>1, <2>5
<1> QED
    BY <1>8, <1>9

LEMMA ArriveSpace ==
    ASSUME SeqTypes, NEW k \in 1..Len(flight), Arrive(k)
    PROVE  Space' = Space
<1> DEFINE up == SubSeq(flight, 1, k)
           fr == From(flight, k)
<1>1. flight' = fr /\ kern' = kern \o up
    BY DEF Arrive
<1>2. flight \in Seq(Byte) /\ kern \in Seq(Byte)
    BY DEF SeqTypes
<1>3. Len(flight) \in Nat /\ Len(kern) \in Nat /\ Capacity \in Nat
    BY <1>2, LenType, Bounds
<1>4. k \in 0..Len(flight) /\ k \in Nat
    BY <1>3
<1>5. up \in Seq(Byte) /\ Len(up) = k /\ Len(fr) = Len(flight) - k
    BY <1>2, <1>4, UpToFacts, FromFacts
<1> HIDE DEF up, fr
<1>6. Len(kern \o up) = Len(kern) + k
    BY <1>2, <1>5, ConcatFacts
<1>7. Space' = Capacity - Len(flight') - Len(kern') /\ Space = Capacity - Len(flight) - Len(kern)
    BY DEF Space
<1>8. Len(flight') = Len(flight) - k /\ Len(kern') = Len(kern) + k
    BY <1>1, <1>5, <1>6
<1>9. (Capacity - (Len(flight) - k)) - (Len(kern) + k) = (Capacity - Len(flight)) - Len(kern)
    BY <1>3, <1>4
<1> QED
    BY <1>7, <1>8, <1>9

\* A new socket begins with nothing to wait for.
LEMMA ReopenEdge ==
    ASSUME NEW b, NEW off, NEW len, Reopen(b, off, len), breaks \in Nat, breaks > 0
    PROVE  EdgeInv'
<1>1. NoSender /\ kern' = <<>> /\ breaks' = breaks
    BY DEF Reopen
<1>2. sBuf' = <<>> /\ sOff' = 0 /\ blocked' = FALSE
    BY <1>1 DEF NoSender
<1>3. Len(<<>>) = 0
    OBVIOUS
<1>4. kern' = <<>> /\ ~(sOff' < Len(sBuf')) /\ ~blocked'
    BY <1>1, <1>2, <1>3
<1> QED
    BY <1>1, <1>4 DEF EdgeInv

LEMMA EdgeStep ==
    ASSUME StreamTypes, OrderInv, EdgeInv, [Next]_vars
    PROVE  EdgeInv'
<1>1. /\ SeqTypes /\ RestTypes /\ EndInv
      /\ kern # <<>> => rEdge
      /\ sOff < Len(sBuf) => wEdge \/ blocked
      /\ blocked => Space = 0
      /\ breaks = 0 /\ pc = "wait" => ~Whole
      /\ cut => breaks > 0
    BY DEF StreamTypes, EdgeInv
<1>2. breaks \in Nat
    BY <1>1 DEF RestTypes
<1>3. ASSUME UNCHANGED <<rBuf, rOff>> PROVE Whole' = Whole
    BY <1>3 DEF Whole, Unread, Front
<1>4. CASE Queue
  <2> DEFINE b == sBuf \o Bytes(queued + 1)
  <2>1. queued + 1 \in 1..N
      BY <1>1, <1>4, Bounds DEF Queue, RestTypes
  <2>2. /\ Flush(b, sOff, Enlarged(sLen, Len(b)))
        /\ UNCHANGED <<kern, rEdge, pc, rBuf, rOff, breaks, cut, wEdge>>
      BY <1>4 DEF Queue, rVars, endVars
  <2>3. sBuf \in Seq(Byte) /\ sOff \in 0..Len(sBuf) /\ Bytes(queued + 1) \in Seq(Byte)
      BY <1>1, <2>1, BytesFacts DEF SeqTypes
  <2>4. b \in Seq(Byte) /\ sOff \in 0..Len(b)
    <3>1. b \in Seq(Byte)
        BY <2>3, ConcatFacts
    <3>2. sOff \in 0..Len(b)
        BY <2>3, FromConcat
    <3> QED
        BY <3>1, <3>2
  <2> HIDE DEF b
  <2>5. (sOff' < Len(sBuf') => blocked') /\ (blocked' => Space' = 0)
      BY <1>1, <2>2, <2>4, FlushEdge
  <2>6. Whole' = Whole
      BY <1>3, <2>2
  <2> QED
      BY <1>1, <2>2, <2>5, <2>6 DEF EdgeInv
<1>5. CASE Writable
  <2>1. /\ Flush(sBuf, sOff, sLen)
        /\ UNCHANGED <<kern, rEdge, pc, rBuf, rOff, breaks, cut>>
      BY <1>5 DEF Writable, rVars, endVars
  <2>2. sBuf \in Seq(Byte) /\ sOff \in 0..Len(sBuf)
      BY <1>1 DEF SeqTypes
  <2>3. (sOff' < Len(sBuf') => blocked') /\ (blocked' => Space' = 0)
      BY <1>1, <2>1, <2>2, FlushEdge
  <2>4. Whole' = Whole
      BY <1>3, <2>1
  <2> QED
      BY <1>1, <2>1, <2>3, <2>4 DEF EdgeInv
<1>6. CASE \E k \in 1..Len(flight) : Arrive(k)
  <2>1. PICK k \in 1..Len(flight) : Arrive(k)
      BY <1>6
  <2>2. rEdge' = TRUE /\ UNCHANGED <<sBuf, sOff, wEdge, blocked, pc, rBuf, rOff, breaks, cut>>
      BY <2>1 DEF Arrive, sVars, rVars, endVars
  <2>3. Space' = Space
      BY <1>1, <2>1, ArriveSpace
  <2>4. Whole' = Whole
      BY <1>3, <2>2
  <2> QED
      BY <1>1, <2>2, <2>3, <2>4 DEF EdgeInv
<1>7. CASE Readable
  <2>1. /\ kern' = From(kern, Len(kern)) /\ pc' = "parse"
        /\ wEdge' = (wEdge \/ (blocked /\ Len(kern) > 0))
        /\ blocked' = (blocked /\ Len(kern) = 0)
        /\ UNCHANGED <<sBuf, sOff, flight, breaks, cut>>
      BY <1>7 DEF Readable, Taken, sVars, endVars
  <2>2. kern \in Seq(Byte)
      BY <1>1 DEF SeqTypes
  <2>3. kern' = <<>> /\ Len(kern') = 0 /\ Len(kern) \in Nat
    <3>1. From(kern, Len(kern)) = <<>> /\ Len(<<>>) = 0
        BY <2>2, FromNone
    <3> QED
        BY <2>1, <2>2, <3>1, LenType
  <2>4. ASSUME blocked' PROVE Space' = 0
    <3>1. blocked /\ Len(kern) = 0
        BY <2>1, <2>4
    <3>2. Space' = Space
        BY <2>1, <2>3, <3>1 DEF Space
    <3> QED
        BY <1>1, <3>1, <3>2
  <2>5. ASSUME sOff' < Len(sBuf') PROVE wEdge' \/ blocked'
    <3>1. wEdge \/ blocked
        BY <1>1, <2>1, <2>5
    <3>2. Len(kern) > 0 \/ Len(kern) = 0
        BY <2>3
    <3> QED
        BY <2>1, <3>1, <3>2
  <2> QED
      BY <1>1, <2>1, <2>3, <2>4, <2>5 DEF EdgeInv
<1>8. CASE ParseOne
  <2>1. /\ pc' = "parse"
        /\ UNCHANGED <<sBuf, sOff, wEdge, blocked, kern, flight, rEdge, breaks, cut>>
      BY <1>8 DEF ParseOne, sVars, endVars
  <2>2. Space' = Space
      BY <2>1 DEF Space
  <2> QED
      BY <1>1, <2>1, <2>2 DEF EdgeInv
<1>9. CASE ParseFails
  <2>1. Reopen(rBuf, rOff + 1, rLen) /\ (~Aligned \/ (Whole /\ ~Intact))
      BY <1>9 DEF ParseFails
  <2>2. cut
      BY <2>1, NoParseFails
  <2> QED
      BY <1>1, <1>2, <2>1, <2>2, ReopenEdge
<1>10. CASE ParseEnd
  <2>1. /\ ~Whole
        /\ UNCHANGED <<sBuf, sOff, wEdge, blocked, kern, flight, rEdge, breaks, cut>>
        /\ \/ rBuf' = <<>> /\ rOff' = 0
           \/ UNCHANGED <<rBuf, rOff>>
      BY <1>10 DEF ParseEnd, sVars, endVars
  <2>2. Space' = Space
      BY <2>1 DEF Space
  <2>3. ~Whole'
    <3>1. ASSUME rBuf' = <<>>, rOff' = 0 PROVE ~Whole'
      <4>1. Len(<<>>) = 0
          OBVIOUS
      <4>2. Unread' = 0
          BY <3>1, <4>1 DEF Unread
      <4> QED
          BY <4>2 DEF Whole
    <3> QED
        BY <1>3, <2>1, <3>1
  <2> QED
      BY <1>1, <2>1, <2>2, <2>3 DEF EdgeInv
<1>11. CASE Break
  <2>1. NoSender /\ rEdge' = TRUE /\ breaks' = breaks + 1 /\ cut' = cut
      BY <1>11 DEF Break
  <2>2. sBuf' = <<>> /\ sOff' = 0 /\ blocked' = FALSE
      BY <2>1 DEF NoSender
  <2>3. Len(<<>>) = 0
      OBVIOUS
  <2>4. ~(sOff' < Len(sBuf')) /\ ~blocked' /\ breaks' > 0
      BY <1>2, <2>1, <2>2, <2>3
  <2> QED
      BY <2>1, <2>4 DEF EdgeInv
<1>12. CASE ReadEnd
  <2>1. ended /\ Reopen(rBuf \o kern, rOff, Enlarged(rLen, Len(rBuf \o kern) + 1))
      BY <1>12 DEF ReadEnd, EndSeen
  <2>2. breaks > 0
      BY <1>1, <2>1 DEF EndInv
  <2> QED
      BY <1>2, <2>1, <2>2, ReopenEdge
<1>13. CASE NoticeEnd
  <2>1. ended /\ Reopen(rBuf, rOff, rLen)
      BY <1>13 DEF NoticeEnd
  <2>2. breaks > 0
      BY <1>1, <2>1 DEF EndInv
  <2> QED
      BY <1>2, <2>1, <2>2, ReopenEdge
<1>14. CASE UNCHANGED vars
  <2>1. UNCHANGED <<sBuf, sOff, pc, rBuf, rOff, breaks, cut, blocked, wEdge, flight, kern, rEdge>>
      BY <1>14 DEF vars, sVars, rVars, endVars
  <2>2. Whole' = Whole /\ Space' = Space
      BY <1>3, <2>1 DEF Space
  <2> QED
      BY <1>1, <2>1, <2>2 DEF EdgeInv
<1> QED
    BY <1>4, <1>5, <1>6, <1>7, <1>8, <1>9, <1>10, <1>11, <1>12, <1>13, <1>14 DEF Next, Parse

\* Where nothing is pending, everything has been parsed.
LEMMA NothingLeft ==
    ASSUME StreamTypes, OrderInv, EdgeInv, breaks = 0,
           pc = "wait", ~rEdge, ~wEdge, flight = <<>>
    PROVE  Len(parsed) = queued
<1>1. /\ SeqTypes /\ EndInv /\ ~Whole /\ ~cut /\ kern = <<>>
      /\ sOff < Len(sBuf) => blocked
      /\ blocked => Space = 0
    BY DEF StreamTypes, EdgeInv
<1>2. ~ended
    BY <1>1 DEF EndInv
<1>3. Space = Capacity /\ Capacity > 0
  <2>1. Len(<<>>) = 0
      OBVIOUS
  <2> QED
      BY <1>1, <2>1, Bounds DEF Space
<1>4. ~blocked
    BY <1>1, <1>3
<1>5. sBuf \in Seq(Byte) /\ sOff \in 0..Len(sBuf) /\ rBuf \in Seq(Byte) /\ rOff \in 0..Len(rBuf)
    BY <1>1 DEF SeqTypes
<1>6. sOff = Len(sBuf)
    BY <1>1, <1>4, <1>5, LenType
<1>7. From(sBuf, sOff) = <<>>
    BY <1>5, <1>6, FromNone
<1>8. /\ From(rBuf, rOff) \in Seq(Byte) /\ Len(From(rBuf, rOff)) = Len(rBuf) - rOff
    BY <1>1, LineParts
<1>9. Line = From(rBuf, rOff)
  <2>1. Line = Four(From(rBuf, rOff), <<>>, <<>>, <<>>)
      BY <1>1, <1>7 DEF Line
  <2>2. <<>> \in Seq(Byte)
      OBVIOUS
  <2>3. Four(From(rBuf, rOff), <<>>, <<>>, <<>>) = From(rBuf, rOff) \o <<>>
      BY <1>8, <2>2, FourNoSender
  <2>4. From(rBuf, rOff) \o <<>> = From(rBuf, rOff)
      BY <1>8, ConcatEmptySeq
  <2> QED
      BY <2>1, <2>3, <2>4
<1>10. Line \in Seq(Byte) /\ Len(Line) = Unread /\ Unread \in Nat
    BY <1>8, <1>9, LenType DEF Unread
<1>11. /\ Framed(Line, breaks, queued) /\ Comes(Line, breaks, parsed, queued)
       /\ LastWhole(Line, breaks, queued)
    BY <1>1, <1>2 DEF OrderInv, InLine
<1>12. Line = <<>>
  <2> SUFFICES ASSUME Line # <<>> PROVE FALSE
      OBVIOUS
  <2>1. Len(Line) > 0 /\ Unread > 0
      BY <1>10, EmptyOrNot
  <2>2. Front \in Byte /\ Front = Line[1]
      BY <2>1, FrontIsFirst
  <2> DEFINE l == Length[Front[1]]
             n == Len(Line)
  <2>3. l \in Nat \ {0}
      BY <2>2, ByteFacts
  <2>4. ~(Unread >= l)
      BY <1>1, <2>1 DEF Whole
  <2>5. n < l /\ n \in 1..Len(Line)
      BY <1>10, <2>1, <2>3, <2>4
  <2>6. n <= Length[Line[1][1]]
      BY <1>10, <2>2, <2>3, <2>5
  <2>7. Line[n] = <<Line[1][1], n>>
      BY <1>10, <1>11, <2>1, <2>5, <2>6, FirstMessage
  <2>8. Line[n][2] = Length[Line[n][1]]
      BY <1>11 DEF LastWhole
  <2>9. n = l
      BY <2>2, <2>7, <2>8
  <2> HIDE DEF n, l
  <2> QED
      BY <2>3, <2>5, <2>9
<1> QED
    BY <1>11, <1>12 DEF Comes

\* NothingStuck, about mrpc_recv2 and mrpc_send2 on edge-triggered sockets: a message
\* that is not parsed always has its next step before it.  It is the half of AllParsed
\* that does not need fairness.
THEOREM NothingStuckAlways == Spec => []NothingStuck
<1>1. Init => StreamTypes /\ OrderInv
    BY OrderInit
<1>2. Init => EdgeInv
  <2> SUFFICES ASSUME Init PROVE EdgeInv
      OBVIOUS
  <2>1. /\ sBuf = <<>> /\ sOff = 0 /\ rBuf = <<>> /\ rOff = 0 /\ kern = <<>>
        /\ blocked = FALSE /\ cut = FALSE
      BY DEF Init
  <2>2. Len(<<>>) = 0
      OBVIOUS
  <2>3. Unread = 0 /\ ~(sOff < Len(sBuf))
      BY <2>1, <2>2 DEF Unread
  <2> QED
      BY <2>1, <2>3 DEF EdgeInv, Whole
<1>3. StreamTypes /\ OrderInv /\ [Next]_vars => StreamTypes' /\ OrderInv'
    BY OrderStep
<1>4. StreamTypes /\ OrderInv /\ EdgeInv /\ [Next]_vars => EdgeInv'
    BY EdgeStep
<1>5. StreamTypes /\ OrderInv /\ EdgeInv => NothingStuck
  <2> SUFFICES ASSUME StreamTypes, OrderInv, EdgeInv, breaks = 0, Len(parsed) < queued,
                      ~(pc = "parse" \/ rEdge \/ wEdge \/ flight # <<>>)
               PROVE  FALSE
      BY DEF NothingStuck
  <2>1. pc = "wait"
      BY DEF StreamTypes, RestTypes
  <2>2. Len(parsed) = queued
      BY <2>1, NothingLeft
  <2>3. Len(parsed) \in Nat
      BY LenType DEF StreamTypes, RestTypes
  <2> QED
      BY <2>2, <2>3
<1> QED
    BY <1>1, <1>2, <1>3, <1>4, <1>5, PTL DEF Spec
=============================================================================
