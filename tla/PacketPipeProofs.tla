--------------------------- MODULE PacketPipeProofs ---------------------------
(***************************************************************************)
(* Proofs about PacketPipe, for every plan, number of threads, chunk size  *)
(* and receive buffer.  The sender: SenderInv, the buffers that are filled *)
(* or on their way lie in the used part of their chunks and apart, and no  *)
(* chunk of the pool has a user.  The stream: the bytes underway are a     *)
(* sequence of whole packets of the plan, which Send extends at the end,   *)
(* OnRecvPacket shortens at the front and nothing else touches, wherever   *)
(* the receive buffer is cut, moved or rewound.  The receiver: RecvBuffer, *)
(* whose cursors are proved first for any content.                         *)
(***************************************************************************)
EXTENDS PacketPipe, SequenceTheorems, FiniteSetTheorems, TLAPS

-----------------------------------------------------------------------------
(* Induction over a set of numbers.                                        *)

\* A set of numbers that is not empty has a least one.
LEMMA LeastNumber ==
  ASSUME NEW T \in SUBSET Nat, T # {}
  PROVE  \E n \in T : \A m \in T : n <= m
  <1> DEFINE R == {ss \in Nat \X Nat : ss[1] < ss[2]}
  <1>1. IsWellFoundedOn(R, Nat)
    BY NatLessThanWellFounded, Zenon DEF OpToRel
  <1>2. \A i, j \in Nat : i < j => <<i, j>> \in R
    OBVIOUS
  <1> HIDE DEF R
  <1>3. PICK n \in T : \A m \in T : ~(<<m, n>> \in R)
    BY <1>1, WFMin, Zenon
  <1>4. \A m \in T : n <= m
    <2> TAKE m \in T
    <2>1. m \in Nat /\ n \in Nat /\ ~(<<m, n>> \in R)
      BY <1>3
    <2>2. ~(m < n)
      BY <1>2, <2>1
    <2>3. QED
      BY <2>1, <2>2
  <1> QED BY <1>4

\* The induction the recursive functions of the model need.
LEMMA Induction ==
  ASSUME NEW T \in SUBSET Nat, 0 \in T, \A n \in T : n + 1 \in T
  PROVE  T = Nat
  <1> SUFFICES ASSUME Nat \ T # {} PROVE FALSE
    OBVIOUS
  <1>1. PICK n \in Nat \ T : \A m \in Nat \ T : n <= m
    BY LeastNumber
  <1>2. n # 0 /\ n - 1 \in Nat /\ n - 1 \in T
    BY <1>1
  <1> QED BY <1>1, <1>2

-----------------------------------------------------------------------------
(* Sequences of bytes, one after the other.                                *)

\* h glues the first n of q, step by step.
GlueStep(q, h, i) == IF i = 1 THEN q[i] ELSE h[i - 1] \o q[i]
Glues(q, n, h) == h = [i \in 1..n |-> GlueStep(q, h, i)]

\* Two functions that glue the same sequence agree.
LEMMA GluesUnique ==
  ASSUME NEW q, NEW n \in Nat, NEW m \in Nat, NEW g, NEW h,
         Glues(q, n, g), Glues(q, m, h), n <= m
  PROVE  \A i \in 1..n : g[i] = h[i]
  <1>1. /\ g = [i \in 1..n |-> GlueStep(q, g, i)]
        /\ h = [i \in 1..m |-> GlueStep(q, h, i)]
    BY DEF Glues
  <1> DEFINE T == {k \in Nat : k \in 1..n => g[k] = h[k]}
  <1>2. 0 \in T
    OBVIOUS
  <1>3. ASSUME NEW k \in T PROVE k + 1 \in T
    <2> SUFFICES ASSUME k + 1 \in 1..n PROVE g[k + 1] = h[k + 1]
      OBVIOUS
    <2>1. k \in Nat /\ k + 1 \in 1..m /\ (k + 1) - 1 = k
      OBVIOUS
    <2>2. g[k + 1] = GlueStep(q, g, k + 1) /\ h[k + 1] = GlueStep(q, h, k + 1)
      BY <1>1, <2>1
    <2>3. k + 1 = 1 \/ g[k] = h[k]
      BY <2>1
    <2> QED BY <2>1, <2>2, <2>3 DEF GlueStep
  <1>4. T = Nat
    <2> HIDE DEF T
    <2>1. T \in SUBSET Nat
      BY DEF T
    <2> QED BY <1>2, <1>3, <2>1, Induction
  <1> QED BY <1>4

\* There is one for every length.
LEMMA GluesExists ==
  ASSUME NEW S, NEW q \in Seq(Seq(S)), NEW n \in 0..Len(q)
  PROVE  \E h \in [1..n -> Seq(S)] : Glues(q, n, h)
  <1> DEFINE T == {k \in Nat : k \in 0..Len(q) => \E h \in [1..k -> Seq(S)] : Glues(q, k, h)}
  <1>0. Len(q) \in Nat
    BY LenProperties
  <1>1. 0 \in T
    <2> DEFINE h == [i \in 1..0 |-> <<>>]
    <2>1. h \in [1..0 -> Seq(S)]
      OBVIOUS
    <2>2. h = [i \in 1..0 |-> GlueStep(q, h, i)]
      OBVIOUS
    <2> HIDE DEF h
    <2> QED BY <2>1, <2>2 DEF Glues
  <1>2. ASSUME NEW k \in T PROVE k + 1 \in T
    <2> SUFFICES ASSUME k + 1 \in 0..Len(q)
                 PROVE  \E h \in [1..k + 1 -> Seq(S)] : Glues(q, k + 1, h)
      OBVIOUS
    <2>1. k \in Nat /\ k \in 0..Len(q) /\ k + 1 \in 1..Len(q)
      BY <1>0
    <2>2. PICK h \in [1..k -> Seq(S)] : Glues(q, k, h)
      BY <2>1
    <2> DEFINE g == [i \in 1..k + 1 |-> IF i = k + 1 THEN GlueStep(q, h, k + 1) ELSE h[i]]
    <2>3. q[k + 1] \in Seq(S)
      BY <2>1, ElementOfSeq
    <2>4. GlueStep(q, h, k + 1) \in Seq(S)
      <3>1. CASE k = 0
        BY <2>3, <3>1 DEF GlueStep
      <3>2. CASE k # 0
        <4>1. k \in 1..k /\ k + 1 # 1 /\ (k + 1) - 1 = k
          BY <2>1, <3>2
        <4>2. h[k] \in Seq(S)
          BY <2>2, <4>1
        <4>3. h[k] \o q[k + 1] \in Seq(S)
          BY <2>3, <4>2, ConcatProperties
        <4> QED BY <4>1, <4>3 DEF GlueStep
      <3> QED BY <3>1, <3>2
    <2>5. g \in [1..k + 1 -> Seq(S)]
      BY <2>2, <2>4, <2>1
    <2>6. h = [i \in 1..k |-> GlueStep(q, h, i)]
      BY <2>2 DEF Glues
    <2>7. ASSUME NEW i \in 1..k + 1 PROVE g[i] = GlueStep(q, g, i)
      <3>1. i = 1 \/ (i - 1 \in 1..k /\ i - 1 \in 1..k + 1 /\ i - 1 # k + 1)
        BY <2>1
      <3>2. i = 1 \/ g[i - 1] = h[i - 1]
        BY <3>1
      <3>3. GlueStep(q, g, i) = GlueStep(q, h, i)
        <4> HIDE DEF g
        <4> QED BY <3>2 DEF GlueStep
      <3>4. CASE i = k + 1
        BY <3>3, <3>4
      <3>5. CASE i # k + 1
        <4>1. i \in 1..k
          BY <3>5, <2>1
        <4> QED BY <3>3, <3>5, <4>1, <2>6
      <3> QED BY <3>4, <3>5
    <2>8. g = [i \in 1..k + 1 |-> g[i]]
      OBVIOUS
    <2> HIDE DEF g
    <2>9. Glues(q, k + 1, g)
      BY <2>7, <2>8 DEF Glues
    <2> QED BY <2>5, <2>9
  <1>3. T = Nat
    <2> HIDE DEF T
    <2>1. T \in SUBSET Nat
      BY DEF T
    <2> QED BY <1>1, <1>2, <2>1, Induction
  <1> QED BY <1>0, <1>3

\* FlattenSeq is the glue of all its sequences.
LEMMA FlattenComputes ==
  ASSUME NEW S, NEW q \in Seq(Seq(S)), q # <<>>
  PROVE  \E h \in [1..Len(q) -> Seq(S)] : Glues(q, Len(q), h) /\ FlattenSeq(q) = h[Len(q)]
  <1> DEFINE P(h) == Glues(q, Len(q), h)
  <1>0. Len(q) \in Nat /\ Len(q) # 0
    <2>1. Len(q) \in Nat \ {0}
      BY EmptySeq, Zenon
    <2> QED BY <2>1
  <1>1. FlattenSeq(q) = (CHOOSE h : P(h))[Len(q)]
    BY <1>0, Zenon DEF FlattenSeq, Glues, GlueStep
  <1>2. PICK h \in [1..Len(q) -> Seq(S)] : P(h)
    <2>1. Len(q) \in 0..Len(q)
      BY <1>0
    <2>2. \E h \in [1..Len(q) -> Seq(S)] : Glues(q, Len(q), h)
      BY <2>1, GluesExists
    <2> QED BY <2>2, Zenon DEF P
  <1> DEFINE g == CHOOSE f : P(f)
  <1>3. P(g)
    <2> HIDE DEF P
    <2> QED BY <1>2
  <1>4. \A i \in 1..Len(q) : g[i] = h[i]
    <2> HIDE DEF g
    <2> QED BY <1>0, <1>2, <1>3, GluesUnique
  <1>5. Len(q) \in 1..Len(q)
    BY <1>0
  <1> HIDE DEF P
  <1> QED BY <1>1, <1>2, <1>4, <1>5 DEF P

\* Nothing glued is nothing.
LEMMA FlattenEmpty == FlattenSeq(<<>>) = <<>>
  BY DEF FlattenSeq

\* One more sequence is glued to the end: what Send does to a queue.
LEMMA FlattenAppend ==
  ASSUME NEW S, NEW q \in Seq(Seq(S)), NEW e \in Seq(S)
  PROVE  /\ FlattenSeq(q) \in Seq(S)
         /\ FlattenSeq(Append(q, e)) = FlattenSeq(q) \o e
  <1> DEFINE a == Append(q, e)
  <1>1. /\ a \in Seq(Seq(S)) /\ a # <<>> /\ Len(a) = Len(q) + 1 /\ Len(q) \in Nat
        /\ \A i \in 1..Len(q) : a[i] = q[i]
        /\ a[Len(q) + 1] = e
    BY AppendProperties, LenProperties
  <1> HIDE DEF a
  <1>2. PICK g \in [1..Len(a) -> Seq(S)] : Glues(a, Len(a), g) /\ FlattenSeq(a) = g[Len(a)]
    BY <1>1, FlattenComputes
  <1>3. g = [i \in 1..Len(q) + 1 |-> GlueStep(a, g, i)]
    BY <1>1, <1>2 DEF Glues
  <1>4. Len(q) + 1 \in 1..Len(q) + 1
    BY <1>1
  <1>5. g[Len(q) + 1] = GlueStep(a, g, Len(q) + 1)
    BY <1>3, <1>4
  <1>6. CASE q = <<>>
    <2>1. Len(q) = 0 /\ FlattenSeq(q) = <<>> /\ <<>> \in Seq(S)
      BY <1>6, FlattenEmpty, EmptySeq
    <2>2. FlattenSeq(a) = e
      BY <1>1, <1>2, <1>5, <2>1 DEF GlueStep
    <2> QED BY <2>1, <2>2, ConcatEmptySeq DEF a
  <1>7. CASE q # <<>>
    <2>1. PICK h \in [1..Len(q) -> Seq(S)] : Glues(q, Len(q), h) /\ FlattenSeq(q) = h[Len(q)]
      BY <1>7, FlattenComputes
    <2>2. Len(q) # 0 /\ Len(q) \in 1..Len(q)
      BY <1>1, <1>7, EmptySeq
    <2>3. h = [i \in 1..Len(q) |-> GlueStep(a, h, i)]
      <3>1. h = [i \in 1..Len(q) |-> GlueStep(q, h, i)]
        BY <2>1 DEF Glues
      <3>2. \A i \in 1..Len(q) : GlueStep(q, h, i) = GlueStep(a, h, i)
        BY <1>1 DEF GlueStep
      <3> QED BY <3>1, <3>2
    <2>4. Glues(a, Len(q), h)
      BY <2>3 DEF Glues
    <2>5. \A i \in 1..Len(q) : h[i] = g[i]
      <3>1. Len(a) \in Nat /\ Len(q) \in Nat /\ Len(q) <= Len(a) /\ Glues(a, Len(a), g)
        BY <1>1, <1>2
      <3> QED BY <3>1, <2>4, GluesUnique
    <2>6. g[Len(q)] = FlattenSeq(q) /\ FlattenSeq(q) \in Seq(S)
      BY <2>1, <2>2, <2>5
    <2>7. GlueStep(a, g, Len(q) + 1) = g[Len(q)] \o e
      <3>1. Len(q) + 1 # 1 /\ (Len(q) + 1) - 1 = Len(q)
        BY <1>1, <2>2
      <3> QED BY <1>1, <3>1 DEF GlueStep
    <2> QED BY <1>1, <1>2, <1>5, <2>6, <2>7 DEF a
  <1> QED BY <1>6, <1>7

\* A part of a sequence depends on that part only.
LEMMA SubSeqSame ==
  ASSUME NEW s, NEW t, NEW x \in Int, NEW y \in Int, \A i \in x..y : s[i] = t[i]
  PROVE  SubSeq(s, x, y) = SubSeq(t, x, y)
  <1> DEFINE S == {s[i] : i \in x..y}
             a == SubSeq(s, x, y)
             b == SubSeq(t, x, y)
  <1>1. (\A i \in x..y : s[i] \in S) /\ \A i \in x..y : t[i] \in S
    OBVIOUS
  <1> HIDE DEF S
  <1>2. /\ a \in Seq(S) /\ Len(a) = IF x <= y THEN y - x + 1 ELSE 0
        /\ \A i \in 1..y - x + 1 : a[i] = s[x + i - 1]
    BY <1>1, SubSeqProperties
  <1>3. /\ b \in Seq(S) /\ Len(b) = IF x <= y THEN y - x + 1 ELSE 0
        /\ \A i \in 1..y - x + 1 : b[i] = t[x + i - 1]
    BY <1>1, SubSeqProperties
  <1> HIDE DEF a, b
  <1>4. ASSUME NEW i \in 1..Len(a) PROVE a[i] = b[i]
    <2>1. i \in 1..y - x + 1 /\ x + i - 1 \in x..y
      BY <1>2
    <2> QED BY <2>1, <1>2, <1>3
  <1>5. Len(a) = Len(b)
    BY <1>2, <1>3
  <1>6. a = b
    BY <1>2, <1>3, <1>4, <1>5, SeqEqual
  <1> QED BY <1>6 DEF a, b

\* Concatenated bytes are bytes.
LEMMA ConcatType ==
  \A a, b \in Seq(Nat) : a \o b \in Seq(Nat)
  BY ConcatProperties

\* Concatenation, as the proofs below rearrange it.
LEMMA Associative ==
  \A a, b, c \in Seq(Nat) : (a \o b) \o c = a \o (b \o c)
  BY ConcatAssociative

-----------------------------------------------------------------------------
(* Packets in a stream of bytes.                                           *)

\* A packet as it is sent: its id, its content, and its bytes with the header.
Frames == [id : Nat, bytes : Seq(Nat)]
FrameSize(q) == HeaderSize + Len(q.bytes)
FrameOf(q) == Header(FrameSize(q), q.id) \o q.bytes

\* A header gives back the size and the id it was made of.
LEMMA HeaderType ==
  ASSUME NEW size \in Nat, NEW id \in Nat
  PROVE  /\ Header(size, id) \in Seq(Nat) /\ Len(Header(size, id)) = HeaderSize
         /\ Header(size, id)[1] + 256 * Header(size, id)[2] = size
         /\ Header(size, id)[3] + 256 * Header(size, id)[4] = id
  <1>1. /\ (size % 256) + 256 * (size \div 256) = size
        /\ size % 256 \in Nat /\ size \div 256 \in Nat
    OBVIOUS
  <1>2. /\ (id % 256) + 256 * (id \div 256) = id
        /\ id % 256 \in Nat /\ id \div 256 \in Nat
    OBVIOUS
  <1> QED BY <1>1, <1>2 DEF Header, HeaderSize

\* The bytes of a packet: its header, then its content.
LEMMA FrameType ==
  ASSUME NEW q \in Frames
  PROVE  /\ FrameOf(q) \in Seq(Nat) /\ Len(FrameOf(q)) = FrameSize(q)
         /\ FrameSize(q) \in Nat /\ FrameSize(q) >= HeaderSize
         /\ FrameOf(q)[1] + 256 * FrameOf(q)[2] = FrameSize(q)
         /\ FrameOf(q)[3] + 256 * FrameOf(q)[4] = q.id
         /\ \A i \in 1..Len(q.bytes) : FrameOf(q)[HeaderSize + i] = q.bytes[i]
  <1>1. q.id \in Nat /\ q.bytes \in Seq(Nat) /\ Len(q.bytes) \in Nat
    BY LenProperties DEF Frames
  <1>2. FrameSize(q) \in Nat /\ FrameSize(q) >= HeaderSize
    BY <1>1 DEF FrameSize, HeaderSize
  <1> DEFINE h == Header(FrameSize(q), q.id)
             s == q.bytes
  <1>3. /\ h \in Seq(Nat) /\ Len(h) = 4
        /\ h[1] + 256 * h[2] = FrameSize(q) /\ h[3] + 256 * h[4] = q.id
    <2>1. /\ h \in Seq(Nat) /\ Len(h) = HeaderSize
          /\ h[1] + 256 * h[2] = FrameSize(q) /\ h[3] + 256 * h[4] = q.id
      <3>1. q.id \in Nat /\ FrameSize(q) \in Nat
        BY <1>1, <1>2
      <3> QED BY <3>1, HeaderType
    <2> HIDE DEF h
    <2> QED BY <2>1 DEF HeaderSize
  <1>4. s \in Seq(Nat) /\ Len(s) \in Nat
    BY <1>1
  <1> HIDE DEF h, s
  <1>5. /\ h \o s \in Seq(Nat) /\ Len(h \o s) = Len(h) + Len(s)
        /\ \A i \in 1..Len(h) + Len(s) : (h \o s)[i] = IF i <= Len(h) THEN h[i] ELSE s[i - Len(h)]
    <2>1. h \in Seq(Nat) /\ s \in Seq(Nat)
      BY <1>3, <1>4
    <2> QED BY <2>1, ConcatProperties, Zenon
  <1>6. \A i \in 1..4 : (h \o s)[i] = h[i]
    BY <1>3, <1>4, <1>5
  <1>7. \A i \in 1..Len(s) : (h \o s)[4 + i] = s[i]
    <2> TAKE i \in 1..Len(s)
    <2>1. 4 + i \in 1..Len(h) + Len(s) /\ ~(4 + i <= Len(h)) /\ (4 + i) - Len(h) = i
      BY <1>3, <1>4
    <2> QED BY <1>5, <2>1
  <1>8. FrameOf(q) = h \o s
    BY DEF FrameOf, h, s
  <1>9. FrameOf(q) \in Seq(Nat) /\ Len(FrameOf(q)) = FrameSize(q)
    BY <1>3, <1>4, <1>5, <1>8 DEF HeaderSize, FrameSize, s
  <1>10. \A i \in 1..4 : FrameOf(q)[i] = h[i]
    BY <1>6, <1>8
  <1>11. /\ FrameOf(q)[1] + 256 * FrameOf(q)[2] = FrameSize(q)
         /\ FrameOf(q)[3] + 256 * FrameOf(q)[4] = q.id
    BY <1>3, <1>10
  <1>12. \A i \in 1..Len(q.bytes) : FrameOf(q)[HeaderSize + i] = q.bytes[i]
    BY <1>7, <1>8 DEF HeaderSize, s
  <1> QED BY <1>2, <1>9, <1>11, <1>12

\* An index within the first of two parts.
LEMMA Inside ==
  ASSUME NEW a \in Nat, NEW m \in Nat, NEW i \in 1..m, NEW l \in Nat, NEW z \in Nat,
         a + m <= l
  PROVE  a + i \in 1..l + z /\ a + i <= l
  OBVIOUS

\* b is the packets ps, one after the other: the k-th ends at at[k].
Ends(b, ps, at) ==
  /\ at \in [0..Len(ps) -> 0..Len(b)]
  /\ at[0] = 0 /\ at[Len(ps)] = Len(b)
  /\ \A j, k \in 0..Len(ps) : j <= k => at[j] <= at[k]
  /\ \A k \in 1..Len(ps) :
       /\ at[k] = at[k - 1] + FrameSize(ps[k])
       /\ \A i \in 1..FrameSize(ps[k]) : b[at[k - 1] + i] = FrameOf(ps[k])[i]
Framed(b, ps) == \E at : Ends(b, ps, at)

\* No bytes are no packets.
LEMMA FramedEmpty == Framed(<<>>, <<>>)
  <1> DEFINE at == [k \in 0..0 |-> 0]
             e == <<>>
  <1>1. Len(e) = 0
    BY EmptySeq
  <1> HIDE DEF e
  <1>2. at \in [0..0 -> 0..0] /\ at[0] = 0
    OBVIOUS
  <1> HIDE DEF at
  <1>3. Ends(e, e, at)
    BY <1>1, <1>2 DEF Ends
  <1> QED BY <1>3 DEF Framed, e

\* The bytes of a packet at the end are one packet more.
LEMMA FramedAppend ==
  ASSUME NEW b \in Seq(Nat), NEW ps \in Seq(Frames), NEW q \in Frames, Framed(b, ps)
  PROVE  Framed(b \o FrameOf(q), Append(ps, q))
  <1>1. PICK at : Ends(b, ps, at)
    BY DEF Framed
  <1> DEFINE n == Len(ps)
             f == FrameOf(q)
             c == b \o f
             qs == Append(ps, q)
             to == [k \in 0..n + 1 |-> IF k = n + 1 THEN Len(c) ELSE at[k]]
  <1>2. f \in Seq(Nat) /\ Len(f) = FrameSize(q) /\ FrameSize(q) \in Nat
    BY FrameType
  <1>3. n \in Nat /\ Len(b) \in Nat
    BY LenProperties
  <1>4. Len(qs) = n + 1 /\ (\A k \in 1..n : qs[k] = ps[k]) /\ qs[n + 1] = q
    BY AppendProperties
  <1> HIDE DEF f
  <1>5. /\ c \in Seq(Nat) /\ Len(c) = Len(b) + FrameSize(q)
        /\ \A i \in 1..Len(b) + FrameSize(q) : c[i] = IF i <= Len(b) THEN b[i] ELSE f[i - Len(b)]
    BY <1>2, ConcatProperties
  <1> HIDE DEF c, qs
  <1>6. /\ at \in [0..n -> 0..Len(b)] /\ at[0] = 0 /\ at[n] = Len(b)
        /\ \A j, k \in 0..n : j <= k => at[j] <= at[k]
    BY <1>1 DEF Ends
  <1>7. \A k \in 1..n :
          /\ at[k] = at[k - 1] + FrameSize(ps[k])
          /\ \A i \in 1..FrameSize(ps[k]) : b[at[k - 1] + i] = FrameOf(ps[k])[i]
    BY <1>1 DEF Ends
  <1> HIDE DEF n
  <1>8. /\ to \in [0..n + 1 -> 0..Len(c)]
        /\ to[0] = 0 /\ to[n + 1] = Len(c) /\ \A k \in 0..n : to[k] = at[k]
    BY <1>2, <1>3, <1>5, <1>6
  <1> HIDE DEF to
  <1>9. \A j, k \in 0..n + 1 : j <= k => to[j] <= to[k]
    <2> SUFFICES ASSUME NEW j \in 0..n + 1, NEW k \in 0..n + 1, j <= k
                 PROVE  to[j] <= to[k]
      OBVIOUS
    <2>1. CASE k = n + 1
      <3>1. to[j] \in 0..Len(c) /\ to[k] = Len(c)
        BY <1>8, <2>1
      <3>2. Len(c) \in Nat
        BY <1>2, <1>3, <1>5
      <3> QED BY <3>1, <3>2
    <2>2. CASE k # n + 1
      <3>1. k \in 0..n /\ j \in 0..n
        BY <2>2, <1>3
      <3> QED BY <3>1, <1>6, <1>8
    <2> QED BY <2>1, <2>2
  <1>10. ASSUME NEW k \in 1..n + 1
         PROVE  /\ to[k] = to[k - 1] + FrameSize(qs[k])
                /\ \A i \in 1..FrameSize(qs[k]) : c[to[k - 1] + i] = FrameOf(qs[k])[i]
    <2>1. CASE k = n + 1
      <3>1. k - 1 = n /\ n \in 0..n
        BY <1>3, <2>1
      <3>2. to[k - 1] = Len(b) /\ to[k] = Len(b) + FrameSize(q) /\ qs[k] = q
        BY <3>1, <2>1, <1>4, <1>5, <1>6, <1>8
      <3>3. \A i \in 1..FrameSize(q) : c[Len(b) + i] = f[i]
        <4> TAKE i \in 1..FrameSize(q)
        <4>1. /\ Len(b) + i \in 1..Len(b) + FrameSize(q)
              /\ ~(Len(b) + i <= Len(b)) /\ (Len(b) + i) - Len(b) = i
          BY <1>2, <1>3
        <4> QED BY <4>1, <1>5
      <3> QED BY <3>2, <3>3 DEF f
    <2>2. CASE k # n + 1
      <3>1. k \in 1..n /\ k \in 0..n /\ k - 1 \in 0..n
        BY <1>3, <2>2
      <3>2. to[k - 1] = at[k - 1] /\ to[k] = at[k] /\ qs[k] = ps[k]
        BY <3>1, <1>4, <1>8
      <3>3. at[k] = at[k - 1] + FrameSize(ps[k])
        BY <3>1, <1>7
      <3>4. \A i \in 1..FrameSize(ps[k]) : c[at[k - 1] + i] = FrameOf(ps[k])[i]
        <4> TAKE i \in 1..FrameSize(ps[k])
        <4>0. FrameSize(ps[k]) \in Nat
          <5>1. ps[k] \in Frames
            BY <3>1, ElementOfSeq DEF n
          <5> QED BY <5>1, FrameType
        <4>1. at[k] \in 0..Len(b) /\ at[k - 1] \in 0..Len(b)
          BY <1>6, <3>1
        <4>2. at[k - 1] + i \in 1..Len(b) + FrameSize(q) /\ at[k - 1] + i <= Len(b)
          <5>1. at[k - 1] + FrameSize(ps[k]) <= Len(b) /\ at[k - 1] \in Nat
            BY <4>1, <3>3, <1>3
          <5> QED BY <4>0, <5>1, <1>2, <1>3, Inside
        <4>3. b[at[k - 1] + i] = FrameOf(ps[k])[i]
          BY <1>7, <3>1
        <4> QED BY <4>2, <4>3, <1>5
      <3> QED BY <3>2, <3>3, <3>4
    <2> QED BY <2>1, <2>2
  <1>11. Ends(c, qs, to)
    BY <1>4, <1>8, <1>9, <1>10 DEF Ends
  <1> QED BY <1>11 DEF Framed, c, qs, f

\* Where there are bytes there is a packet.
LEMMA FramedNone ==
  ASSUME NEW b \in Seq(Nat), NEW ps \in Seq(Frames), Framed(b, ps)
  PROVE  Len(b) > 0 => ps # <<>>
  <1>1. PICK at : Ends(b, ps, at)
    BY DEF Framed
  <1>2. CASE ps = <<>>
    <2>1. Len(ps) = 0
      BY <1>2, EmptySeq
    <2> QED BY <1>1, <2>1 DEF Ends
  <1> QED BY <1>2

\* The first packet and what is left when it is taken.
LEMMA FramedHead ==
  ASSUME NEW b \in Seq(Nat), NEW ps \in Seq(Frames), Framed(b, ps), ps # <<>>
  PROVE  /\ Head(ps) \in Frames /\ Tail(ps) \in Seq(Frames)
         /\ FrameSize(Head(ps)) \in HeaderSize..Len(b)
         /\ \A i \in 1..FrameSize(Head(ps)) : b[i] = FrameOf(Head(ps))[i]
         /\ Framed(SubSeq(b, FrameSize(Head(ps)) + 1, Len(b)), Tail(ps))
  <1>1. PICK at : Ends(b, ps, at)
    BY DEF Framed
  <1> DEFINE n == Len(ps)
             q == Head(ps)
             qs == Tail(ps)
             m == FrameSize(q)
             c == SubSeq(b, m + 1, Len(b))
             to == [k \in 0..n - 1 |-> at[k + 1] - m]
  <1>2. /\ n \in Nat /\ n > 0 /\ Len(b) \in Nat /\ q = ps[1] /\ q \in Frames
        /\ qs \in Seq(Frames) /\ Len(qs) = n - 1 /\ \A k \in 1..n - 1 : qs[k] = ps[k + 1]
    BY HeadTailProperties, LenProperties, EmptySeq
  <1>3. m \in Nat /\ m >= HeaderSize
    BY <1>2, FrameType
  <1> HIDE DEF q, qs, m
  <1>6. /\ at \in [0..n -> 0..Len(b)] /\ at[0] = 0 /\ at[n] = Len(b)
        /\ \A j, k \in 0..n : j <= k => at[j] <= at[k]
    BY <1>1 DEF Ends
  <1>7. \A k \in 1..n :
          /\ at[k] = at[k - 1] + FrameSize(ps[k])
          /\ \A i \in 1..FrameSize(ps[k]) : b[at[k - 1] + i] = FrameOf(ps[k])[i]
    BY <1>1 DEF Ends
  <1>8. at[1] = m /\ m <= Len(b) /\ m \in HeaderSize..Len(b)
    <2>1. 1 \in 1..n /\ 1 \in 0..n /\ 1 - 1 = 0
      BY <1>2
    <2>2. at[1] = at[1 - 1] + FrameSize(ps[1]) /\ at[1] \in 0..Len(b)
      BY <2>1, <1>6, <1>7
    <2>3. at[1] = m
      BY <2>1, <2>2, <1>2, <1>3, <1>6 DEF m
    <2> QED BY <2>2, <2>3, <1>2, <1>3 DEF HeaderSize
  <1>9. \A i \in 1..m : b[i] = FrameOf(q)[i]
    <2> TAKE i \in 1..m
    <2>1. 1 \in 1..n /\ 1 - 1 = 0 /\ FrameSize(ps[1]) = m
      BY <1>2 DEF m
    <2>2. b[at[0] + i] = FrameOf(ps[1])[i]
      BY <2>1, <1>7
    <2>3. at[0] + i = i
      BY <1>6, <1>3
    <2> QED BY <2>2, <2>3, <1>2
  <1>10. /\ c \in Seq(Nat) /\ Len(c) = Len(b) - m /\ \A i \in 1..Len(b) - m : c[i] = b[m + i]
    <2>1. \A i \in m + 1..Len(b) : b[i] \in Nat
      <3> TAKE i \in m + 1..Len(b)
      <3>1. i \in 1..Len(b)
        BY <1>2, <1>3
      <3> QED BY <3>1, ElementOfSeq
    <2>2. m + 1 \in Int /\ Len(b) \in Int
      BY <1>2, <1>3
    <2>3. /\ c \in Seq(Nat)
          /\ Len(c) = IF m + 1 <= Len(b) THEN Len(b) - (m + 1) + 1 ELSE 0
          /\ \A i \in 1..Len(b) - (m + 1) + 1 : c[i] = b[(m + 1) + i - 1]
      BY <2>1, <2>2, SubSeqProperties
    <2> HIDE DEF c
    <2>4. \A i \in 1..Len(b) - m : c[i] = b[m + i]
      <3> TAKE i \in 1..Len(b) - m
      <3>1. i \in 1..Len(b) - (m + 1) + 1 /\ (m + 1) + i - 1 = m + i
        BY <1>2, <1>3
      <3>2. c[i] = b[(m + 1) + i - 1]
        BY <2>3, <3>1
      <3> QED BY <3>1, <3>2
    <2> QED BY <2>3, <2>4, <1>2, <1>3, <1>8
  <1> HIDE DEF c, n
  <1>11. /\ to \in [0..n - 1 -> 0..Len(c)] /\ to[0] = 0 /\ to[n - 1] = Len(c)
    <2>1. \A k \in 0..n - 1 : at[k + 1] - m \in 0..Len(c)
      <3> TAKE k \in 0..n - 1
      <3>1. k + 1 \in 0..n /\ 1 \in 0..n /\ 1 <= k + 1
        BY <1>2
      <3>2. at[k + 1] \in 0..Len(b) /\ at[1] <= at[k + 1]
        BY <3>1, <1>6
      <3> QED BY <3>2, <1>2, <1>3, <1>8, <1>10
    <2>2. 0 \in 0..n - 1 /\ n - 1 \in 0..n - 1 /\ 0 + 1 = 1 /\ (n - 1) + 1 = n
      BY <1>2
    <2>3. to[0] = at[1] - m /\ to[n - 1] = at[n] - m
      BY <2>2
    <2>4. to[0] = 0 /\ to[n - 1] = Len(c)
      BY <2>3, <1>2, <1>3, <1>6, <1>8, <1>10
    <2> QED BY <2>1, <2>4
  <1>12. \A k \in 0..n - 1 : to[k] = at[k + 1] - m
    OBVIOUS
  <1> HIDE DEF to
  <1>13. \A j, k \in 0..n - 1 : j <= k => to[j] <= to[k]
    <2> SUFFICES ASSUME NEW j \in 0..n - 1, NEW k \in 0..n - 1, j <= k PROVE to[j] <= to[k]
      OBVIOUS
    <2>1. j + 1 \in 0..n /\ k + 1 \in 0..n /\ j + 1 <= k + 1
      BY <1>2
    <2>2. at[j + 1] <= at[k + 1] /\ at[j + 1] \in 0..Len(b) /\ at[k + 1] \in 0..Len(b)
      BY <2>1, <1>6
    <2> QED BY <2>2, <1>12, <1>2, <1>3
  <1>14. ASSUME NEW k \in 1..n - 1
         PROVE  /\ to[k] = to[k - 1] + FrameSize(qs[k])
                /\ \A i \in 1..FrameSize(qs[k]) : c[to[k - 1] + i] = FrameOf(qs[k])[i]
    <2>1. /\ k \in 0..n - 1 /\ k - 1 \in 0..n - 1 /\ k + 1 \in 1..n /\ (k + 1) - 1 = k
          /\ (k - 1) + 1 = k /\ k + 1 \in 0..n /\ k \in 0..n /\ 1 \in 0..n /\ 1 <= k
      BY <1>2
    <2>2. to[k] = at[k + 1] - m /\ to[k - 1] = at[k] - m /\ qs[k] = ps[k + 1]
      BY <2>1, <1>2, <1>12
    <2>3. /\ at[k + 1] = at[k] + FrameSize(ps[k + 1])
          /\ \A i \in 1..FrameSize(ps[k + 1]) : b[at[k] + i] = FrameOf(ps[k + 1])[i]
      BY <2>1, <1>7
    <2>4. /\ at[k] \in 0..Len(b) /\ at[k + 1] \in 0..Len(b) /\ m <= at[k]
      BY <2>1, <1>6, <1>8
    <2>5. ps[k + 1] \in Frames /\ FrameSize(ps[k + 1]) \in Nat
      <3>1. ps[k + 1] \in Frames
        BY <2>1, ElementOfSeq DEF n
      <3> QED BY <3>1, FrameType
    <2>6. to[k] = to[k - 1] + FrameSize(qs[k])
      BY <2>2, <2>3, <2>4, <2>5, <1>3
    <2>7. \A i \in 1..FrameSize(qs[k]) : c[to[k - 1] + i] = FrameOf(qs[k])[i]
      <3> TAKE i \in 1..FrameSize(qs[k])
      <3>1. i \in 1..FrameSize(ps[k + 1])
        BY <2>2
      <3>2. to[k - 1] + i \in 1..Len(b) - m /\ m + (to[k - 1] + i) = at[k] + i
        <4>1. to[k - 1] \in Nat /\ to[k - 1] + FrameSize(ps[k + 1]) <= Len(b) - m
          <5>1. to[k - 1] + FrameSize(ps[k + 1]) = at[k + 1] - m
            BY <2>2, <2>3, <2>4, <2>5, <1>3
          <5>2. at[k + 1] - m <= Len(b) - m
            BY <2>4, <1>2, <1>3
          <5> QED BY <5>1, <5>2, <2>2, <2>4, <1>3
        <4>2. Len(b) - m \in Nat
          BY <1>2, <1>3, <1>8
        <4>3. to[k - 1] + i \in 1..(Len(b) - m) + 0
          BY <3>1, <2>5, <4>1, <4>2, Inside
        <4>4. m + (to[k - 1] + i) = at[k] + i
          <5>1. to[k - 1] = at[k] - m /\ at[k] \in Nat /\ m \in Nat /\ i \in Nat
            BY <2>2, <2>4, <2>5, <3>1, <1>2, <1>3
          <5>2. \A x, y, z \in Nat : y + ((x - y) + z) = x + z
            OBVIOUS
          <5>3. m + ((at[k] - m) + i) = at[k] + i
            BY <5>1, <5>2, Zenon
          <5> QED BY <5>1, <5>3
        <4> QED BY <4>2, <4>3, <4>4
      <3>3. c[to[k - 1] + i] = b[at[k] + i]
        BY <3>2, <1>10
      <3> QED BY <2>2, <2>3, <3>1, <3>3
    <2> QED BY <2>6, <2>7
  <1>15. Ends(c, qs, to)
    BY <1>2, <1>11, <1>13, <1>14 DEF Ends
  <1>16. Framed(c, qs)
    BY <1>15 DEF Framed
  <1> QED BY <1>2, <1>8, <1>9, <1>16 DEF q, qs, m, c

-----------------------------------------------------------------------------
(* What PacketsIn reads.                                                   *)

\* h reads b from the position lo on.
ReadStep(b, h, i) ==
  IF WholeAt(b, i) THEN <<PacketAt(b, i)>> \o h[i + HeaderOf(b, i).size] ELSE <<>>
Reads(b, lo, h) == h = [i \in lo..Len(b) + 1 |-> ReadStep(b, h, i)]

\* There is such a reading from the first byte on.
LEMMA ReadsExists ==
  ASSUME NEW b, Len(b) \in Nat
  PROVE  \E h : Reads(b, 1, h)
  <1> DEFINE n == Len(b)
             T == {m \in Nat : m \in 0..n + 1 => \E h : Reads(b, (n + 2) - m, h)}
  <1>0. n \in Nat
    OBVIOUS
  <1>1. 0 \in T
    <2> DEFINE h == [i \in (n + 2) - 0..n + 1 |-> <<>>]
    <2>1. h = [i \in (n + 2) - 0..n + 1 |-> ReadStep(b, h, i)]
      OBVIOUS
    <2> HIDE DEF h
    <2>2. Reads(b, (n + 2) - 0, h)
      BY <2>1 DEF Reads
    <2> QED BY <2>2
  <1>2. ASSUME NEW m \in T PROVE m + 1 \in T
    <2> SUFFICES ASSUME m + 1 \in 0..n + 1
                 PROVE  \E g : Reads(b, (n + 2) - (m + 1), g)
      OBVIOUS
    <2>1. m \in Nat /\ m \in 0..n + 1
      BY <1>0
    <2>2. PICK h : Reads(b, (n + 2) - m, h)
      BY <2>1
    <2> DEFINE lo == (n + 2) - (m + 1)
               g == [i \in lo..n + 1 |-> IF i = lo THEN ReadStep(b, h, lo) ELSE h[i]]
    <2>3. lo \in 1..n + 1 /\ (n + 2) - m = lo + 1
      BY <2>1, <1>0
    <2>4. h = [i \in lo + 1..n + 1 |-> ReadStep(b, h, i)]
      BY <2>2, <2>3 DEF Reads
    <2> HIDE DEF lo, n
    <2>5. ASSUME NEW i \in lo..n + 1 PROVE g[i] = ReadStep(b, g, i)
      <3>1. ReadStep(b, g, i) = ReadStep(b, h, i)
        <4>1. CASE WholeAt(b, i)
          <5>1. HeaderOf(b, i).size \in 4..n + 1 - i
            BY <4>1 DEF WholeAt, HeaderSize, n
          <5>2. /\ i + HeaderOf(b, i).size \in lo..n + 1
                /\ i + HeaderOf(b, i).size # lo
            BY <5>1, <2>3, <1>0
          <5>3. g[i + HeaderOf(b, i).size] = h[i + HeaderOf(b, i).size]
            BY <5>2
          <5> HIDE DEF g
          <5> QED BY <5>3 DEF ReadStep
        <4>2. CASE ~WholeAt(b, i)
          BY <4>2 DEF ReadStep
        <4> QED BY <4>1, <4>2
      <3>2. CASE i = lo
        BY <3>1, <3>2
      <3>3. CASE i # lo
        <4>1. i \in lo + 1..n + 1
          BY <3>3, <2>3, <1>0
        <4>2. h[i] = ReadStep(b, h, i)
          BY <4>1, <2>4
        <4> QED BY <3>1, <3>3, <4>2
      <3> QED BY <3>2, <3>3
    <2>6. g = [i \in lo..n + 1 |-> g[i]]
      OBVIOUS
    <2> HIDE DEF g
    <2>7. Reads(b, lo, g)
      BY <2>5, <2>6 DEF Reads, n
    <2> QED BY <2>7 DEF lo, n
  <1>3. T = Nat
    <2> HIDE DEF T
    <2>1. T \in SUBSET Nat
      BY DEF T
    <2> QED BY <1>1, <1>2, <2>1, Induction
  <1>4. n + 1 \in Nat /\ (n + 2) - (n + 1) = 1 /\ n + 1 \in 0..n + 1
    BY <1>0
  <1>5. n + 1 \in T
    <2> HIDE DEF T
    <2> QED BY <1>3, <1>4
  <1> QED BY <1>4, <1>5

\* PacketsIn takes what it gives for the first byte.
LEMMA PacketsInReads ==
  ASSUME NEW b, Len(b) \in Nat
  PROVE  \E h : Reads(b, 1, h) /\ PacketsIn(b) = h[1]
  <1> DEFINE P(h) == Reads(b, 1, h)
  <1>1. PacketsIn(b) = (CHOOSE h : P(h))[1]
    BY Zenon DEF PacketsIn, Reads, ReadStep
  <1>2. \E h : P(h)
    BY ReadsExists
  <1> HIDE DEF P
  <1>3. P(CHOOSE h : P(h))
    BY <1>2
  <1> QED BY <1>1, <1>3, Zenon DEF P

\* A packet where one lies.
LEMMA PacketThere ==
  ASSUME NEW b \in Seq(Nat), NEW a \in Nat, NEW q \in Frames, a + FrameSize(q) <= Len(b),
         \A i \in 1..FrameSize(q) : b[a + i] = FrameOf(q)[i]
  PROVE  /\ WholeAt(b, a + 1) /\ PacketAt(b, a + 1) = q
         /\ HeaderOf(b, a + 1).size = FrameSize(q) /\ HeaderOf(b, a + 1).id = q.id
  <1> DEFINE s == q.bytes
             f == FrameOf(q)
             m == FrameSize(q)
  <1>0. Len(b) \in Nat /\ s \in Seq(Nat) /\ Len(s) \in Nat /\ m = 4 + Len(s)
    BY LenProperties DEF Frames, FrameSize, HeaderSize
  <1>1. /\ f[1] + 256 * f[2] = m /\ f[3] + 256 * f[4] = q.id
        /\ \A i \in 1..Len(s) : f[4 + i] = s[i]
    BY FrameType DEF HeaderSize
  <1>2. \A i \in 1..m : b[a + i] = f[i]
    OBVIOUS
  <1>q. q.id \in Nat /\ q = [id |-> q.id, bytes |-> s]
    BY DEF Frames
  <1>r. a + m <= Len(b)
    OBVIOUS
  <1> HIDE DEF f, m, s
  <1>3. b[a + 1] = f[1] /\ b[a + 2] = f[2] /\ b[a + 3] = f[3] /\ b[a + 4] = f[4]
    <2>1. 1 \in 1..m /\ 2 \in 1..m /\ 3 \in 1..m /\ 4 \in 1..m
      BY <1>0
    <2> QED BY <1>2, <2>1, Zenon
  <1>4. HeaderOf(b, a + 1).size = m /\ HeaderOf(b, a + 1).id = q.id
    <2>1. (a + 1) + 1 = a + 2 /\ (a + 1) + 2 = a + 3 /\ (a + 1) + 3 = a + 4
      OBVIOUS
    <2>2. /\ HeaderOf(b, a + 1).size = b[a + 1] + 256 * b[a + 2]
          /\ HeaderOf(b, a + 1).id = b[a + 3] + 256 * b[a + 4]
      BY <2>1 DEF HeaderOf
    <2>3. HeaderOf(b, a + 1).size = f[1] + 256 * f[2] /\ HeaderOf(b, a + 1).id = f[3] + 256 * f[4]
      BY <1>3, <2>2, Zenon
    <2> QED BY <1>1, <2>3, Zenon
  <1>5. WholeAt(b, a + 1)
    <2>1. \A l, x, y \in Nat : x + y <= l /\ y >= 4 =>
            (x + 1) + 4 <= l + 1 /\ y \in 4..l + 1 - (x + 1)
      OBVIOUS
    <2>2. Len(b) \in Nat /\ a \in Nat /\ m \in Nat /\ m >= 4
      BY <1>0
    <2>3. (a + 1) + 4 <= Len(b) + 1 /\ m \in 4..Len(b) + 1 - (a + 1)
      BY <2>1, <2>2, <1>r, Zenon
    <2> QED BY <2>3, <1>4 DEF WholeAt, HeaderSize
  <1> DEFINE c == SubSeq(b, (a + 1) + HeaderSize, (a + 1) + HeaderOf(b, a + 1).size - 1)
  <1>6. c = SubSeq(b, a + 5, a + m)
    <2>1. (a + 1) + HeaderSize = a + 5 /\ (a + 1) + m - 1 = a + m
      BY <1>0 DEF HeaderSize
    <2> QED BY <1>4, <2>1
  <1> DEFINE d == SubSeq(b, a + 5, a + m)
  <1>7. /\ d \in Seq(Nat) /\ Len(d) = Len(s) /\ \A i \in 1..Len(s) : d[i] = s[i]
    <2>1. \A i \in a + 5..a + m : b[i] \in Nat
      <3> TAKE i \in a + 5..a + m
      <3>1. i \in 1..Len(b)
        BY <1>0, <1>r
      <3> QED BY <3>1, ElementOfSeq
    <2>2. a + 5 \in Int /\ a + m \in Int
      BY <1>0
    <2>3. /\ d \in Seq(Nat)
          /\ Len(d) = IF a + 5 <= a + m THEN (a + m) - (a + 5) + 1 ELSE 0
          /\ \A i \in 1..(a + m) - (a + 5) + 1 : d[i] = b[(a + 5) + i - 1]
      BY <2>1, <2>2, SubSeqProperties
    <2> HIDE DEF d
    <2>4. Len(d) = Len(s)
      BY <2>3, <1>0
    <2>5. ASSUME NEW i \in 1..Len(s) PROVE d[i] = s[i]
      <3>1. i \in 1..(a + m) - (a + 5) + 1 /\ (a + 5) + i - 1 = a + (4 + i) /\ 4 + i \in 1..m
        BY <1>0
      <3>2. d[i] = b[a + (4 + i)] /\ b[a + (4 + i)] = f[4 + i] /\ f[4 + i] = s[i]
        BY <3>1, <2>3, <1>1, <1>2
      <3> QED BY <3>2
    <2> QED BY <2>3, <2>4, <2>5
  <1> HIDE DEF c, d
  <1>8. d = s
    BY <1>0, <1>7, SeqEqual
  <1>9. PacketAt(b, a + 1) = q
    <2>1. PacketAt(b, a + 1) = [id |-> HeaderOf(b, a + 1).id, bytes |-> c]
      BY DEF PacketAt, c
    <2> QED BY <2>1, <1>4, <1>6, <1>8, <1>q DEF d
  <1> QED BY <1>4, <1>5, <1>9 DEF m

\* PacketsIn finds the packets that the bytes are.
LEMMA PacketsInFramed ==
  ASSUME NEW b \in Seq(Nat), NEW ps \in Seq(Frames), Framed(b, ps)
  PROVE  PacketsIn(b) = ps
  <1>1. PICK at : Ends(b, ps, at)
    BY DEF Framed
  <1> DEFINE n == Len(ps)
  <1>2. Len(b) \in Nat /\ n \in Nat
    BY LenProperties
  <1>3. PICK h : Reads(b, 1, h) /\ PacketsIn(b) = h[1]
    BY <1>2, PacketsInReads
  <1>4. h = [i \in 1..Len(b) + 1 |-> ReadStep(b, h, i)]
    BY <1>3 DEF Reads
  <1>6. /\ at \in [0..n -> 0..Len(b)] /\ at[0] = 0 /\ at[n] = Len(b)
    BY <1>1 DEF Ends
  <1>7. \A k \in 1..n :
          /\ at[k] = at[k - 1] + FrameSize(ps[k])
          /\ \A i \in 1..FrameSize(ps[k]) : b[at[k - 1] + i] = FrameOf(ps[k])[i]
    BY <1>1 DEF Ends
  <1> DEFINE T == {m \in Nat : m \in 0..n =>
                     h[at[n - m] + 1] = SubSeq(ps, (n - m) + 1, n)}
  <1>8. 0 \in T
    <2>1. n - 0 = n
      BY <1>2
    <2>2. SubSeq(ps, n + 1, n) = <<>>
      BY <1>2, SubSeqEmpty
    <2>3. Len(b) + 1 \in 1..Len(b) + 1
      BY <1>2
    <2>4. ~WholeAt(b, Len(b) + 1)
      BY <1>2 DEF WholeAt, HeaderSize
    <2>5. h[Len(b) + 1] = <<>>
      BY <1>4, <2>3, <2>4 DEF ReadStep
    <2> QED BY <2>1, <2>2, <2>5, <1>6
  <1>9. ASSUME NEW m \in T PROVE m + 1 \in T
    <2> SUFFICES ASSUME m + 1 \in 0..n
                 PROVE  h[at[n - (m + 1)] + 1] = SubSeq(ps, (n - (m + 1)) + 1, n)
      OBVIOUS
    <2> DEFINE k == n - m
               q == ps[k]
               a == at[k - 1]
    <2>1. /\ m \in Nat /\ m \in 0..n /\ k \in 1..n /\ n - (m + 1) = k - 1
          /\ k - 1 \in 0..n /\ k \in 0..n /\ (k - 1) + 1 = k
      BY <1>2
    <2>2. h[at[k] + 1] = SubSeq(ps, k + 1, n)
      BY <2>1
    <2>3. q \in Frames
      BY <2>1, ElementOfSeq
    <2> HIDE DEF k, n
    <2>4. a \in 0..Len(b) /\ at[k] \in 0..Len(b) /\ at[k] = a + FrameSize(q)
      BY <2>1, <1>6, <1>7
    <2>5. \A i \in 1..FrameSize(q) : b[a + i] = FrameOf(q)[i]
      BY <2>1, <1>7
    <2> HIDE DEF a, q
    <2>6. FrameSize(q) \in Nat /\ FrameSize(q) >= 4
      BY <2>3, FrameType DEF HeaderSize
    <2>7. /\ WholeAt(b, a + 1) /\ PacketAt(b, a + 1) = q
          /\ HeaderOf(b, a + 1).size = FrameSize(q)
      <3>1. a \in Nat /\ a + FrameSize(q) <= Len(b)
        BY <2>4, <1>2
      <3> QED BY <2>3, <2>5, <3>1, PacketThere
    <2>8. a + 1 \in 1..Len(b) + 1 /\ (a + 1) + FrameSize(q) = at[k] + 1
      BY <2>4, <2>6, <1>2
    <2>9. h[a + 1] = ReadStep(b, h, a + 1)
      BY <1>4, <2>8
    <2>10. h[a + 1] = <<q>> \o h[at[k] + 1]
      BY <2>7, <2>8, <2>9 DEF ReadStep
    <2>11. SubSeq(ps, k, n) = <<ps[k]>> \o SubSeq(ps, k + 1, n)
      <3>1. k \in 1..Len(ps) /\ n \in k..Len(ps)
        BY <1>2, <2>1 DEF n
      <3> QED BY <3>1, SubSeqRecursiveFirst
    <2> QED BY <2>1, <2>2, <2>10, <2>11 DEF a, q
  <1>10. T = Nat
    <2> HIDE DEF T
    <2>1. T \in SUBSET Nat
      BY DEF T
    <2> QED BY <1>8, <1>9, <2>1, Induction
  <1>11. n \in T
    <2> HIDE DEF T
    <2> QED BY <1>2, <1>10
  <1>12. n - n = 0 /\ n \in 0..n /\ 0 + 1 = 1
    BY <1>2
  <1>13. h[at[n - n] + 1] = SubSeq(ps, (n - n) + 1, n)
    BY <1>11, <1>12
  <1>14. h[1] = SubSeq(ps, 1, n)
    BY <1>6, <1>12, <1>13
  <1>15. SubSeq(ps, 1, n) = ps
    BY SubSeqFull
  <1> QED BY <1>3, <1>14, <1>15

-----------------------------------------------------------------------------
(* The chunks that go back to the manager.                                 *)

\* No element twice.
Distinct(q) == \A i, j \in 1..Len(q) : q[i] = q[j] => i = j

\* SetToSeq lists each element of the set once.
LEMMA SetToSeqType ==
  ASSUME NEW S, IsFiniteSet(S)
  PROVE  SetToSeq(S) \in Seq(S) /\ Distinct(SetToSeq(S))
  <1> DEFINE n == Cardinality(S)
             q == SetToSeq(S)
  <1>1. n \in Nat /\ ExistsBijection(1..n, S)
    BY FS_CardinalityType
  <1>2. PICK f : f \in [1..n -> S] /\ IsInjective(f)
    BY <1>1, Zenon DEF ExistsBijection, Bijection, Injection
  <1>3. q \in [1..n -> S] /\ IsInjective(q)
    BY <1>2, Zenon DEF SetToSeq
  <1> HIDE DEF n, q
  <1>4. q \in Seq(S) /\ Len(q) = n
    BY <1>1, <1>3
  <1>5. DOMAIN q = 1..n
    BY <1>3
  <1>6. Distinct(q)
    BY <1>3, <1>4, <1>5 DEF Distinct, IsInjective
  <1> QED BY <1>4, <1>6 DEF q

\* Such a sequence has as many elements as its set.
LEMMA DistinctCount ==
  ASSUME NEW S, NEW q \in Seq(S), Distinct(q)
  PROVE  Cardinality(ToSet(q)) = Len(q)
  <1>1. Len(q) \in Nat /\ DOMAIN q = 1..Len(q) /\ q \in [1..Len(q) -> S]
    BY LenProperties
  <1>2. q \in [1..Len(q) -> ToSet(q)]
    BY <1>1 DEF ToSet
  <1>3. IsInjective(q)
    BY <1>1 DEF Distinct, IsInjective
  <1>4. \A x \in ToSet(q) : \E i \in 1..Len(q) : q[i] = x
    BY <1>1 DEF ToSet
  <1>5. q \in Bijection(1..Len(q), ToSet(q))
    BY <1>2, <1>3, <1>4 DEF Bijection, Injection, Surjection
  <1>6. ExistsBijection(1..Len(q), ToSet(q))
    BY <1>5 DEF ExistsBijection
  <1> QED BY <1>1, <1>6, FS_CountingElements

\* Recycled chunks join a pool of distinct, unused chunks.
LEMMA Recycled ==
  ASSUME Len(used) \in Nat, NEW p \in Seq(1..Len(used)), Distinct(p), NEW chunks, NEW bufs,
         \A i \in 1..Len(p) : ~InUse(p[i], chunks, bufs)
  PROVE  /\ Recycle(p, chunks, bufs) \in Seq(1..Len(used))
         /\ Distinct(Recycle(p, chunks, bufs))
         /\ \A i \in 1..Len(Recycle(p, chunks, bufs)) :
              ~InUse(Recycle(p, chunks, bufs)[i], chunks, bufs)
  <1> DEFINE idle == {c \in 1..Len(used) : /\ ~InUse(c, chunks, bufs)
                                           /\ c \notin ToSet(p)}
             s == SetToSeq(idle)
             q == p \o s
  <1>0. q = Recycle(p, chunks, bufs)
    BY DEF Recycle
  <1>1. IsFiniteSet(idle)
    <2>1. IsFiniteSet(1..Len(used))
      BY FS_Interval
    <2>2. idle \subseteq 1..Len(used)
      OBVIOUS
    <2> HIDE DEF idle
    <2> QED BY <2>1, <2>2, FS_Subset
  <1>2. \A c \in idle : c \in 1..Len(used) /\ ~InUse(c, chunks, bufs) /\ c \notin ToSet(p)
    OBVIOUS
  <1> HIDE DEF idle
  <1>3. s \in Seq(idle) /\ Distinct(s)
    BY <1>1, SetToSeqType
  <1> HIDE DEF s
  <1>4. \A i \in 1..Len(s) : s[i] \in idle
    BY <1>3, ElementOfSeq
  <1>5. s \in Seq(1..Len(used)) /\ Len(s) \in Nat /\ Len(p) \in Nat /\ DOMAIN p = 1..Len(p)
    <2>1. idle \subseteq 1..Len(used)
      BY <1>2
    <2> QED BY <1>3, <2>1, SeqMonotonic, LenProperties
  <1>6. /\ q \in Seq(1..Len(used)) /\ Len(q) = Len(p) + Len(s)
        /\ \A i \in 1..Len(p) + Len(s) : q[i] = IF i <= Len(p) THEN p[i] ELSE s[i - Len(p)]
    BY <1>5, ConcatProperties
  <1> HIDE DEF q
  <1>7. ASSUME NEW i \in 1..Len(q)
        PROVE  \/ i \in 1..Len(p) /\ q[i] = p[i] /\ q[i] \in ToSet(p)
               \/ i - Len(p) \in 1..Len(s) /\ q[i] = s[i - Len(p)] /\ q[i] \in idle
    <2>1. CASE i <= Len(p)
      <3>1. i \in 1..Len(p) /\ q[i] = p[i]
        BY <2>1, <1>5, <1>6
      <3> QED BY <3>1, <1>5 DEF ToSet
    <2>2. CASE ~(i <= Len(p))
      <3>1. i - Len(p) \in 1..Len(s) /\ q[i] = s[i - Len(p)]
        BY <2>2, <1>5, <1>6
      <3> QED BY <3>1, <1>4
    <2> QED BY <2>1, <2>2
  <1>8. Distinct(q)
    <2> SUFFICES ASSUME NEW i \in 1..Len(q), NEW j \in 1..Len(q), q[i] = q[j] PROVE i = j
      BY DEF Distinct
    <2>1. CASE i \in 1..Len(p) /\ q[i] = p[i] /\ q[i] \in ToSet(p)
      <3>1. ~(q[j] \in idle)
        BY <2>1, <1>2
      <3>2. j \in 1..Len(p) /\ q[j] = p[j]
        BY <3>1, <1>7
      <3> QED BY <2>1, <3>2 DEF Distinct
    <2>2. CASE i - Len(p) \in 1..Len(s) /\ q[i] = s[i - Len(p)] /\ q[i] \in idle
      <3>1. ~(q[j] \in ToSet(p))
        BY <2>2, <1>2
      <3>2. j - Len(p) \in 1..Len(s) /\ q[j] = s[j - Len(p)]
        BY <3>1, <1>7
      <3>3. i - Len(p) = j - Len(p)
        BY <2>2, <3>2, <1>3 DEF Distinct
      <3> QED BY <3>3, <1>5
    <2> QED BY <1>7, <2>1, <2>2
  <1>9. \A i \in 1..Len(q) : ~InUse(q[i], chunks, bufs)
    BY <1>2, <1>7
  <1> QED BY <1>0, <1>6, <1>8, <1>9

-----------------------------------------------------------------------------
(* The sender: its chunks and the buffers in them.                         *)

\* The SendBuffers there can be.
BufferSet == [chunk : 1..Len(used), at : Nat, size : Nat \ {0}]

\* The types on the sender's side; no assertion has failed.
SenderType ==
  /\ receiver \in Receivers
  /\ todo \in [Threads -> Seq(Planned(receiver))]
  /\ used \in Seq(0..ChunkSize)
  /\ memory \in Seq([1..ChunkSize -> Nat]) /\ Len(memory) = Len(used)
  /\ chunk \in [Threads -> 0..Len(used)]
  /\ pool \in Seq(1..Len(used))
  /\ making \in [Threads -> BufferSet \cup {NoBuffer}]
  /\ sendQueue \in Seq(BufferSet)
  /\ sending \in Seq(BufferSet)
  /\ failed = FALSE

\* b is being filled or on its way.
OnItsWay(b) ==
  \/ \E i \in 1..Len(sendQueue) : b = sendQueue[i]
  \/ \E i \in 1..Len(sending) : b = sending[i]
  \/ b # NoBuffer /\ \E t \in Threads : b = making[t]

\* A buffer lies in the used part of its chunk.
InsideUsed == \A b : OnItsWay(b) => b.at + b.size <= used[b.chunk]

\* Two of the same chunk do not overlap.
Apart ==
  \A a, b : OnItsWay(a) /\ OnItsWay(b) /\ a # b /\ a.chunk = b.chunk =>
     a.at + a.size <= b.at \/ b.at + b.size <= a.at

\* A chunk of the pool is nobody's.
PoolUnused ==
  \A i \in 1..Len(pool) :
    /\ \A t \in Threads : chunk[t] # pool[i]
    /\ \A b : OnItsWay(b) => b.chunk # pool[i]

\* No two threads fill the same chunk.
OwnChunk == \A t, u \in Threads : t # u /\ chunk[t] # 0 => chunk[t] # chunk[u]

\* What is queued waits for what is being sent.
InTurn == sending = <<>> => sendQueue = <<>>

\* The buffer a thread has made holds its next packet.
Made ==
  \A t \in Threads : making[t] # NoBuffer =>
    todo[t] # <<>> /\ BytesOf(making[t]) = Packet(Head(todo[t]))

SenderInv ==
  /\ SenderType /\ InsideUsed /\ Apart
  /\ PoolUnused /\ Distinct(pool) /\ OwnChunk /\ InTurn /\ Made

\* The elements of a concatenation.
LEMMA InConcat ==
  ASSUME NEW S, NEW q \in Seq(S), NEW r \in Seq(S), NEW b
  PROVE  b \in ToSet(q \o r) <=> \/ \E i \in 1..Len(q) : b = q[i]
                                \/ \E i \in 1..Len(r) : b = r[i]
  <1> DEFINE s == q \o r
  <1>1. Len(q) \in Nat /\ Len(r) \in Nat
    BY LenProperties
  <1>2. /\ Len(s) = Len(q) + Len(r) /\ DOMAIN s = 1..Len(s)
        /\ \A i \in 1..Len(q) + Len(r) : s[i] = IF i <= Len(q) THEN q[i] ELSE r[i - Len(q)]
    BY ConcatProperties, LenProperties
  <1> HIDE DEF s
  <1>3. ASSUME b \in ToSet(s)
        PROVE  (\E i \in 1..Len(q) : b = q[i]) \/ (\E i \in 1..Len(r) : b = r[i])
    <2>1. PICK i \in 1..Len(q) + Len(r) : b = s[i]
      BY <1>2, <1>3 DEF ToSet
    <2>2. CASE i <= Len(q)
      <3>1. i \in 1..Len(q) /\ b = q[i]
        BY <2>1, <2>2, <1>1, <1>2
      <3> QED BY <3>1
    <2>3. CASE ~(i <= Len(q))
      <3>1. i - Len(q) \in 1..Len(r) /\ b = r[i - Len(q)]
        BY <2>1, <2>3, <1>1, <1>2
      <3> QED BY <3>1
    <2> QED BY <2>2, <2>3
  <1>4. ASSUME NEW i \in 1..Len(q), b = q[i] PROVE b \in ToSet(s)
    <2>1. i \in 1..Len(s) /\ s[i] = b
      BY <1>1, <1>2, <1>4
    <2> QED BY <2>1, <1>2 DEF ToSet
  <1>5. ASSUME NEW i \in 1..Len(r), b = r[i] PROVE b \in ToSet(s)
    <2>1. /\ Len(q) + i \in 1..Len(q) + Len(r)
          /\ ~(Len(q) + i <= Len(q)) /\ (Len(q) + i) - Len(q) = i
      BY <1>1
    <2>2. Len(q) + i \in 1..Len(s) /\ s[Len(q) + i] = b
      BY <1>5, <2>1, <1>2
    <2> QED BY <2>2, <1>2 DEF ToSet
  <1> QED BY <1>3, <1>4, <1>5 DEF s

\* Live are the buffers on their way.
LEMMA LiveIs ==
  ASSUME SenderType, NEW b
  PROVE  b \in Live <=> OnItsWay(b)
  <1>1. sendQueue \in Seq(BufferSet) /\ sending \in Seq(BufferSet)
    BY DEF SenderType
  <1>2. b \in ToSet(sendQueue \o sending) <=>
          (\E i \in 1..Len(sendQueue) : b = sendQueue[i]) \/ (\E i \in 1..Len(sending) : b = sending[i])
    BY <1>1, InConcat
  <1> QED BY <1>2 DEF Live, Buffers, OnItsWay

\* A buffer on its way is one.
LEMMA BufferType ==
  ASSUME SenderType, NEW b, OnItsWay(b)
  PROVE  /\ b \in BufferSet /\ b # NoBuffer
         /\ b.chunk \in 1..Len(used) /\ b.at \in Nat /\ b.size \in Nat /\ b.size > 0
  <1>1. b \in BufferSet
    <2>1. CASE \E i \in 1..Len(sendQueue) : b = sendQueue[i]
      BY <2>1, ElementOfSeq DEF SenderType
    <2>2. CASE \E i \in 1..Len(sending) : b = sending[i]
      BY <2>2, ElementOfSeq DEF SenderType
    <2>3. CASE b # NoBuffer /\ \E t \in Threads : b = making[t]
      BY <2>3 DEF SenderType
    <2> QED BY <2>1, <2>2, <2>3 DEF OnItsWay
  <1>2. NoBuffer.size = 0
    BY DEF NoBuffer
  <1>3. b.chunk \in 1..Len(used) /\ b.at \in Nat /\ b.size \in Nat \ {0}
    BY <1>1 DEF BufferSet
  <1> QED BY <1>1, <1>2, <1>3

\* What the invariant of the sender gives: BuffersDisjoint.
LEMMA SenderSafe ==
  ASSUME SenderInv
  PROVE  BuffersDisjoint
  <1> USE DEF SenderInv
  <1>1. \A a, b \in Live : a # b /\ a.chunk = b.chunk =>
            a.at + a.size <= b.at \/ b.at + b.size <= a.at
    BY LiveIs DEF Apart
  <1>2. \A t, u \in Threads : t # u /\ chunk[t] # 0 => chunk[t] # chunk[u]
    BY DEF OwnChunk
  <1>3. \A c \in ToSet(pool) : ~InUse(c, {chunk[t] : t \in Threads}, Live)
    <2> SUFFICES ASSUME NEW c \in ToSet(pool) PROVE ~InUse(c, {chunk[t] : t \in Threads}, Live)
      OBVIOUS
    <2>1. DOMAIN pool = 1..Len(pool)
      BY LenProperties DEF SenderType
    <2>2. PICK i \in 1..Len(pool) : c = pool[i]
      BY <2>1 DEF ToSet
    <2>3. \A t \in Threads : chunk[t] # c
      BY <2>2 DEF PoolUnused
    <2>4. \A b \in Live : b.chunk # c
      BY <2>2, LiveIs DEF PoolUnused
    <2> QED BY <2>3, <2>4 DEF InUse
  <1>4. Cardinality(ToSet(pool)) = Len(pool)
    BY DistinctCount DEF SenderType
  <1>5. ~failed
    BY DEF SenderType
  <1> QED BY <1>1, <1>2, <1>3, <1>4, <1>5 DEF BuffersDisjoint

-----------------------------------------------------------------------------
(* The packets that are sent.                                              *)

\* The plan is what it is assumed to be.
LEMMA PlanFacts ==
  ASSUME NEW r \in Receivers
  PROVE  /\ plan[r] \in [Threads -> Seq(Planned(r))]
         /\ \A p \in Planned(r) : CanBeSent(r, p) /\ ParsesBack(r, p)
  BY PlanAssumption

\* A planned packet fills a buffer of its size with its bytes.
LEMMA PlannedPacket ==
  ASSUME NEW r \in Receivers, NEW p \in Planned(r)
  PROVE  /\ AsHandled(p) \in Frames
         /\ Packet(p) = FrameOf(AsHandled(p)) /\ PacketSize(p) = FrameSize(AsHandled(p))
         /\ Packet(p) \in Seq(Nat) /\ Len(Packet(p)) = PacketSize(p)
         /\ PacketSize(p) \in Nat /\ PacketSize(p) > 0
         /\ PacketSize(p) <= ChunkSize /\ PacketSize(p) <= MaxPacket
  <1> DEFINE q == AsHandled(p)
             n == ByteSizeLong(p)
             s == Serialize(p)
  <1>1. CanBeSent(r, p)
    BY PlanFacts
  <1>2. p.id \in Nat
    BY <1>1 DEF CanBeSent, SentTo
  <1>3. s \in Seq(Nat) /\ Len(s) \in Nat /\ Len(s) = n
    BY <1>1, LenProperties DEF CanBeSent
  <1>4. n + 4 <= ChunkSize /\ n + 4 <= MaxPacket /\ n + 4 < 65536 /\ PacketSize(p) = (n + 4) % 65536
    BY <1>1 DEF CanBeSent, HeaderSize, PacketSize
  <1>5. q = [id |-> p.id, bytes |-> s] /\ q \in Frames
    BY <1>2, <1>3 DEF AsHandled, Frames
  <1>6. FrameSize(q) = 4 + n
    BY <1>3, <1>5 DEF FrameSize, HeaderSize
  <1>7. Packet(p) = Header(PacketSize(p), p.id) \o s
    BY DEF Packet
  <1> HIDE DEF n, s, q
  <1>8. n \in Nat
    BY <1>3
  <1>9. PacketSize(p) = n + 4
    BY <1>4, <1>8
  <1>10. FrameSize(q) = PacketSize(p)
    BY <1>6, <1>8, <1>9
  <1>11. Packet(p) = FrameOf(q)
    BY <1>5, <1>7, <1>10 DEF FrameOf
  <1>12. FrameOf(q) \in Seq(Nat) /\ Len(FrameOf(q)) = FrameSize(q)
    BY <1>5, FrameType
  <1> QED BY <1>4, <1>5, <1>8, <1>9, <1>10, <1>11, <1>12 DEF q

-----------------------------------------------------------------------------
(* MakeSendBuffer.                                                         *)

\* The buffer it makes: its bytes, its size, its chunk and where it starts.
NewBytes(t) == Packet(Head(todo[t]))
NewSize(t) == PacketSize(Head(todo[t]))
NewChunk(t) == CurrentChunk(t, NewSize(t))
NewAt(t) == IF NewChunk(t) = chunk[t] THEN used[NewChunk(t)] ELSE 0
NewBuffer(t) == [chunk |-> NewChunk(t), at |-> NewAt(t), size |-> NewSize(t)]

\* The packet that MakeSendBuffer writes is a planned one.
LEMMA NewPacket ==
  ASSUME SenderInv, NEW t \in Threads, todo[t] # <<>>
  PROVE  /\ Head(todo[t]) \in Planned(receiver) /\ receiver \in Receivers
         /\ NewBytes(t) \in Seq(Nat) /\ Len(NewBytes(t)) = NewSize(t)
         /\ NewSize(t) \in Nat /\ NewSize(t) > 0 /\ NewSize(t) <= ChunkSize
  <1>1. receiver \in Receivers /\ todo[t] \in Seq(Planned(receiver))
    BY DEF SenderInv, SenderType
  <1>2. Head(todo[t]) \in Planned(receiver)
    BY <1>1, HeadTailProperties
  <1> QED BY <1>1, <1>2, PlannedPacket DEF NewBytes, NewSize

\* Where Open finds room, and that nothing on its way is there.
LEMMA NewPlace ==
  ASSUME SenderInv, NEW t \in Threads, todo[t] # <<>>
  PROVE  /\ Len(used) \in Nat /\ NewChunk(t) \in 1..Len(used) + 1
         /\ NewAt(t) \in Nat /\ NewAt(t) + NewSize(t) <= ChunkSize
         /\ NewChunk(t) = Len(used) + 1 => NewAt(t) = 0
         /\ \A u \in Threads : u # t => chunk[u] # NewChunk(t)
         /\ \A b : OnItsWay(b) /\ b.chunk = NewChunk(t) => b.at + b.size <= NewAt(t)
  <1> DEFINE n == Len(used)
             c == NewChunk(t)
             size == NewSize(t)
  <1>0. /\ n \in Nat /\ used \in [1..n -> 0..ChunkSize] /\ ChunkSize \in Nat
        /\ chunk \in [Threads -> 0..n] /\ pool \in Seq(1..n)
    BY LenProperties, PlanAssumption DEF SenderInv, SenderType
  <1>1. size \in Nat /\ size > 0 /\ size <= ChunkSize
    BY NewPacket
  <1>2. CASE HasRoom(t, size)
    <2>1. c = chunk[t] /\ c # 0 /\ c \in 1..n /\ ChunkSize - used[c] >= size /\ NewAt(t) = used[c]
      BY <1>0, <1>2 DEF HasRoom, FreeIn, NewChunk, CurrentChunk, NewAt
    <2>2. used[c] \in Nat /\ used[c] + size <= ChunkSize
      BY <1>0, <1>1, <2>1
    <2>3. \A u \in Threads : u # t => chunk[u] # c
      BY <2>1 DEF SenderInv, OwnChunk
    <2>4. \A b : OnItsWay(b) /\ b.chunk = c => b.at + b.size <= used[c]
      BY DEF SenderInv, InsideUsed
    <2> HIDE DEF c, n
    <2> QED BY <2>1, <2>2, <2>3, <2>4, <1>0 DEF c, n
  <1>3. CASE ~HasRoom(t, size) /\ pool # <<>>
    <2>1. Len(pool) \in 1..Len(pool) /\ c = pool[Len(pool)]
      BY <1>0, <1>3, EmptySeq DEF NewChunk, CurrentChunk, Last
    <2>2. c \in 1..n
      BY <2>1, <1>0, ElementOfSeq
    <2>3. (\A u \in Threads : chunk[u] # c) /\ (\A b : OnItsWay(b) => b.chunk # c)
      BY <2>1 DEF SenderInv, PoolUnused
    <2>4. NewAt(t) = 0
      BY <2>3 DEF NewAt
    <2> HIDE DEF c, n
    <2> QED BY <2>2, <2>3, <2>4, <1>0, <1>1 DEF c, n
  <1>4. CASE ~HasRoom(t, size) /\ pool = <<>>
    <2>1. c = n + 1
      BY <1>4 DEF NewChunk, CurrentChunk
    <2>2. \A u \in Threads : chunk[u] # c
      BY <2>1, <1>0
    <2>3. NewAt(t) = 0
      BY <2>2 DEF NewAt
    <2>4. \A b : OnItsWay(b) => b.chunk # c
      <3> SUFFICES ASSUME NEW b, OnItsWay(b) PROVE b.chunk # c
        OBVIOUS
      <3>1. b.chunk \in 1..n
        BY BufferType DEF SenderInv
      <3> QED BY <3>1, <2>1, <1>0
    <2> HIDE DEF c, n
    <2> QED BY <2>1, <2>2, <2>3, <2>4, <1>0, <1>1 DEF c, n
  <1> QED BY <1>2, <1>3, <1>4

\* The pool that Pop leaves.
LEMMA NewPool ==
  ASSUME SenderInv, NEW t \in Threads, todo[t] # <<>>
  PROVE  LET p == Popped(t, NewSize(t)) IN
         /\ p \in Seq(1..Len(used)) /\ Distinct(p)
         /\ \A i \in 1..Len(p) :
              /\ p[i] # NewChunk(t)
              /\ \A u \in Threads : chunk[u] # p[i]
              /\ \A b : OnItsWay(b) => b.chunk # p[i]
  <1> DEFINE n == Len(used)
             c == NewChunk(t)
             size == NewSize(t)
             p == Popped(t, NewSize(t))
  <1>0. /\ n \in Nat /\ pool \in Seq(1..n) /\ Len(pool) \in Nat /\ Distinct(pool)
        /\ chunk \in [Threads -> 0..n]
    BY LenProperties DEF SenderInv, SenderType
  <1>1. \A i \in 1..Len(pool) :
          /\ \A u \in Threads : chunk[u] # pool[i]
          /\ \A b : OnItsWay(b) => b.chunk # pool[i]
    BY DEF SenderInv, PoolUnused
  <1>2. CASE HasRoom(t, size) \/ pool = <<>>
    <2>1. p = pool
      BY <1>2 DEF Popped
    <2>2. \A i \in 1..Len(pool) : pool[i] # c
      <3> SUFFICES ASSUME NEW i \in 1..Len(pool) PROVE pool[i] # c
        OBVIOUS
      <3>1. HasRoom(t, size)
        BY <1>2, <1>0, EmptySeq
      <3>2. c = chunk[t]
        BY <3>1 DEF NewChunk, CurrentChunk
      <3> QED BY <3>2, <1>1
    <2> HIDE DEF p, c, n
    <2> QED BY <2>1, <2>2, <1>0, <1>1 DEF p, c, n
  <1>3. CASE ~HasRoom(t, size) /\ pool # <<>>
    <2>1. p = SubSeq(pool, 1, Len(pool) - 1) /\ c = pool[Len(pool)]
      BY <1>3 DEF Popped, Front, NewChunk, CurrentChunk, Last
    <2>2. Len(pool) > 0
      BY <1>0, <1>3, EmptySeq
    <2>3. \A i \in 1..Len(pool) - 1 : pool[i] \in 1..n
      <3> TAKE i \in 1..Len(pool) - 1
      <3>1. i \in 1..Len(pool)
        BY <1>0
      <3> QED BY <3>1, <1>0, ElementOfSeq
    <2> HIDE DEF p, c, n
    <2>4. 1 \in Int /\ Len(pool) - 1 \in Int
      BY <1>0
    <2>5. /\ p \in Seq(1..n)
          /\ Len(p) = IF 1 <= Len(pool) - 1 THEN (Len(pool) - 1) - 1 + 1 ELSE 0
          /\ \A i \in 1..(Len(pool) - 1) - 1 + 1 : p[i] = pool[1 + i - 1]
      BY <2>1, <2>3, <2>4, SubSeqProperties
    <2>6. Len(p) = Len(pool) - 1 /\ \A i \in 1..Len(pool) - 1 : p[i] = pool[i]
      <3>1. Len(p) = Len(pool) - 1
        <4>1. \A k \in Nat : k > 0 => (IF 1 <= k - 1 THEN (k - 1) - 1 + 1 ELSE 0) = k - 1
          OBVIOUS
        <4>2. Len(pool) \in Nat
          BY <1>0
        <4> QED BY <2>5, <2>2, <4>1, <4>2, Zenon
      <3>2. ASSUME NEW i \in 1..Len(pool) - 1 PROVE p[i] = pool[i]
        <4>1. i \in 1..(Len(pool) - 1) - 1 + 1 /\ 1 + i - 1 = i
          BY <1>0
        <4> QED BY <4>1, <2>5
      <3> QED BY <3>1, <3>2
    <2>7. ASSUME NEW i \in 1..Len(p)
          PROVE  i \in 1..Len(pool) /\ i # Len(pool) /\ p[i] = pool[i]
      BY <2>6, <1>0
    <2>8. Distinct(p)
      BY <2>7, <1>0 DEF Distinct
    <2>9. \A i \in 1..Len(p) : p[i] # c
      <3> TAKE i \in 1..Len(p)
      <3>1. Len(pool) \in 1..Len(pool)
        BY <2>2, <1>0
      <3> QED BY <3>1, <2>1, <2>7, <1>0 DEF Distinct
    <2> QED BY <2>5, <2>7, <2>8, <2>9, <1>1 DEF p, c, n
  <1> QED BY <1>2, <1>3

\* What the step leaves in the chunks.
LEMMA MakeEffect ==
  ASSUME SenderInv, NEW t \in Threads, MakeSendBuffer(t)
  PROVE  /\ todo[t] # <<>> /\ making[t] = NoBuffer
         /\ chunk' = [chunk EXCEPT ![t] = NewChunk(t)]
         /\ making' = [making EXCEPT ![t] = NewBuffer(t)]
         /\ failed' = FALSE
         /\ UNCHANGED <<receiver, todo, sendQueue, sending, wire, receiverVars>>
         /\ used' \in Seq(0..ChunkSize) /\ Len(used') \in Nat
         /\ Len(used) <= Len(used') /\ NewChunk(t) \in 1..Len(used')
         /\ used'[NewChunk(t)] = NewAt(t) + NewSize(t)
         /\ \A d \in 1..Len(used) : d # NewChunk(t) => used'[d] = used[d]
         /\ memory' \in Seq([1..ChunkSize -> Nat]) /\ Len(memory') = Len(used')
         /\ \A d \in 1..Len(used) : d # NewChunk(t) => memory'[d] = memory[d]
         /\ \A i \in 1..NewSize(t) : memory'[NewChunk(t)][NewAt(t) + i] = NewBytes(t)[i]
         /\ NewChunk(t) <= Len(used) =>
              \A i \in 1..NewAt(t) : memory'[NewChunk(t)][i] = memory[NewChunk(t)][i]
         /\ pool' = Recycle(Popped(t, NewSize(t)), {chunk'[u] : u \in Threads},
                            Buffers(sendQueue \o sending, {making'[u] : u \in Threads}))
  <1> DEFINE n == Len(used)
             c == NewChunk(t)
             at == NewAt(t)
             size == NewSize(t)
             bytes == NewBytes(t)
             filled(m) == [i \in 1..ChunkSize |->
                             IF i - at \in 1..Len(bytes) THEN bytes[i - at] ELSE m[i]]
  <1>0. todo[t] # <<>> /\ making[t] = NoBuffer
    BY DEF MakeSendBuffer
  <1>1. /\ chunk' = [chunk EXCEPT ![t] = c]
        /\ used' = IF c > Len(used) THEN Append(used, size) ELSE [used EXCEPT ![c] = at + size]
        /\ memory' = IF c > Len(memory) THEN Append(memory, filled(Erased))
                     ELSE [memory EXCEPT ![c] = filled(memory[c])]
        /\ making' = [making EXCEPT ![t] = NewBuffer(t)]
        /\ failed' = (at + size > ChunkSize \/ Len(bytes) > size)
        /\ pool' = Recycle(Popped(t, size), {chunk'[u] : u \in Threads},
                           Buffers(sendQueue \o sending, {making'[u] : u \in Threads}))
        /\ UNCHANGED <<receiver, todo, sendQueue, sending, wire, receiverVars>>
    BY DEF MakeSendBuffer, NewChunk, NewAt, NewSize, NewBytes, NewBuffer
  <1>2. /\ bytes \in Seq(Nat) /\ Len(bytes) = size /\ size \in Nat /\ size > 0 /\ size <= ChunkSize
    BY <1>0, NewPacket
  <1>3. /\ n \in Nat /\ c \in 1..n + 1 /\ at \in Nat /\ at + size <= ChunkSize
        /\ (c = n + 1 => at = 0)
    BY <1>0, NewPlace
  <1>4. /\ used \in Seq(0..ChunkSize) /\ memory \in Seq([1..ChunkSize -> Nat]) /\ Len(memory) = n
        /\ ChunkSize \in Nat
    BY PlanAssumption DEF SenderInv, SenderType
  <1> HIDE DEF c, at, size, bytes, n
  <1>5. failed' = FALSE
    <2>1. ~(at + size > ChunkSize) /\ ~(Len(bytes) > size)
      BY <1>2, <1>3, <1>4
    <2>2. failed' = (at + size > ChunkSize \/ Len(bytes) > size)
      BY <1>1
    <2> QED BY <2>1, <2>2, Zenon
  <1>6. Erased \in [1..ChunkSize -> Nat]
    BY DEF Erased
  <1>7. ASSUME NEW m \in [1..ChunkSize -> Nat]
        PROVE  /\ filled(m) \in [1..ChunkSize -> Nat]
               /\ \A i \in 1..size : filled(m)[at + i] = bytes[i]
               /\ \A i \in 1..at : filled(m)[i] = m[i]
    <2>1. \A i \in 1..Len(bytes) : bytes[i] \in Nat
      BY <1>2, ElementOfSeq
    <2>2. filled(m) \in [1..ChunkSize -> Nat]
      BY <2>1
    <2>3. ASSUME NEW i \in 1..size PROVE filled(m)[at + i] = bytes[i]
      <3>1. at + i \in 1..ChunkSize /\ (at + i) - at = i /\ i \in 1..Len(bytes)
        BY <1>2, <1>3, <1>4
      <3> QED BY <3>1
    <2>4. ASSUME NEW i \in 1..at PROVE filled(m)[i] = m[i]
      <3>1. i \in 1..ChunkSize /\ ~(i - at \in 1..Len(bytes))
        BY <1>2, <1>3, <1>4
      <3> QED BY <3>1
    <2> QED BY <2>2, <2>3, <2>4
  <1>8. filled(Erased) \in [1..ChunkSize -> Nat]
    BY <1>6, <1>7
  <1>9. CASE c = n + 1
    <2>1. at = 0 /\ c > Len(used) /\ c > Len(memory)
      BY <1>3, <1>4, <1>9 DEF n
    <2>2. used' = Append(used, size) /\ size \in 0..ChunkSize
      BY <1>1, <1>2, <1>4, <2>1
    <2>3. /\ used' \in Seq(0..ChunkSize) /\ Len(used') = n + 1
          /\ (\A d \in 1..n : used'[d] = used[d]) /\ used'[n + 1] = size
      BY <2>2, <1>4, AppendProperties DEF n
    <2> DEFINE e == filled(Erased)
    <2>4. memory' = Append(memory, e)
      BY <1>1, <2>1
    <2>5. /\ e \in [1..ChunkSize -> Nat] /\ \A i \in 1..size : e[at + i] = bytes[i]
      BY <1>6, <1>7
    <2> HIDE DEF e
    <2>6. /\ memory' \in Seq([1..ChunkSize -> Nat]) /\ Len(memory') = n + 1
          /\ (\A d \in 1..n : memory'[d] = memory[d]) /\ memory'[n + 1] = e
      BY <2>4, <2>5, <1>4, AppendProperties
    <2>7. /\ Len(used') \in Nat /\ n <= Len(used') /\ c \in 1..Len(used')
          /\ used'[c] = at + size /\ ~(c <= n) /\ Len(memory') = Len(used')
      BY <1>9, <2>1, <2>3, <2>6, <1>2, <1>3
    <2>8. \A i \in 1..size : memory'[c][at + i] = bytes[i]
      BY <1>9, <2>5, <2>6
    <2> QED BY <1>0, <1>1, <1>5, <2>3, <2>6, <2>7, <2>8, Zenon DEF n, c, at, size, bytes
  <1>10. CASE c # n + 1
    <2>1. c \in 1..n /\ ~(c > Len(used)) /\ ~(c > Len(memory)) /\ c <= n
      <3>1. c \in 1..n /\ c <= n /\ ~(c > n)
        BY <1>3, <1>10
      <3>2. Len(used) = n /\ Len(memory) = n
        BY <1>4 DEF n
      <3> QED BY <3>1, <3>2
    <2>2. used' = [used EXCEPT ![c] = at + size] /\ at + size \in 0..ChunkSize
      BY <1>1, <1>2, <1>3, <1>4, <2>1
    <2>3. /\ used' \in Seq(0..ChunkSize) /\ Len(used') = n
          /\ \A d \in 1..n : used'[d] = IF d = c THEN at + size ELSE used[d]
      BY <2>1, <2>2, <1>4, ExceptSeq DEF n
    <2> DEFINE e == filled(memory[c])
    <2>4. memory' = [memory EXCEPT ![c] = e]
      BY <1>1, <2>1
    <2>m. memory[c] \in [1..ChunkSize -> Nat]
      BY <1>4, <2>1, ElementOfSeq
    <2>5. /\ e \in [1..ChunkSize -> Nat] /\ (\A i \in 1..size : e[at + i] = bytes[i])
          /\ \A i \in 1..at : e[i] = memory[c][i]
      BY <1>7, <2>m
    <2> HIDE DEF e
    <2>6. /\ memory' \in Seq([1..ChunkSize -> Nat]) /\ Len(memory') = n
          /\ \A d \in 1..n : memory'[d] = IF d = c THEN e ELSE memory[d]
      BY <2>1, <2>4, <2>5, <1>4, ExceptSeq
    <2>7. /\ Len(used') \in Nat /\ n <= Len(used') /\ c \in 1..Len(used')
          /\ used'[c] = at + size /\ Len(memory') = Len(used') /\ memory'[c] = e
          /\ \A d \in 1..n : d # c => used'[d] = used[d] /\ memory'[d] = memory[d]
      BY <2>1, <2>3, <2>6, <1>3
    <2> QED BY <1>0, <1>1, <1>5, <2>3, <2>5, <2>6, <2>7, Zenon DEF n, c, at, size, bytes
  <1> QED BY <1>9, <1>10

\* Where the bytes of a buffer lie in a memory.
BytesIn(m, b) == SubSeq(m[b.chunk], b.at + 1, b.at + b.size)

\* The bytes of a buffer on its way are numbers.
LEMMA BytesInType ==
  ASSUME SenderInv, NEW b, OnItsWay(b)
  PROVE  /\ BytesOf(b) \in Seq(Nat) /\ Len(BytesOf(b)) = b.size
         /\ \A i \in 1..b.size : BytesOf(b)[i] = memory[b.chunk][b.at + i]
         /\ b.at + b.size <= ChunkSize
  <1> DEFINE m == memory[b.chunk]
             s == SubSeq(m, b.at + 1, b.at + b.size)
  <1>1. /\ b.chunk \in 1..Len(used) /\ b.at \in Nat /\ b.size \in Nat /\ b.size > 0
    BY BufferType DEF SenderInv
  <1>2. /\ used \in Seq(0..ChunkSize) /\ memory \in Seq([1..ChunkSize -> Nat])
        /\ Len(memory) = Len(used) /\ ChunkSize \in Nat
    BY PlanAssumption DEF SenderInv, SenderType
  <1>3. used[b.chunk] \in 0..ChunkSize /\ m \in [1..ChunkSize -> Nat]
    BY <1>1, <1>2, ElementOfSeq
  <1>4. b.at + b.size <= ChunkSize
    <2>1. b.at + b.size <= used[b.chunk]
      BY DEF SenderInv, InsideUsed
    <2> QED BY <2>1, <1>1, <1>2, <1>3
  <1>5. BytesOf(b) = s
    BY DEF BytesOf
  <1> HIDE DEF m
  <1>6. \A i \in b.at + 1..b.at + b.size : m[i] \in Nat
    <2> TAKE i \in b.at + 1..b.at + b.size
    <2>1. i \in 1..ChunkSize
      BY <1>1, <1>2, <1>4
    <2> QED BY <2>1, <1>3
  <1>7. /\ s \in Seq(Nat)
        /\ Len(s) = IF b.at + 1 <= b.at + b.size THEN (b.at + b.size) - (b.at + 1) + 1 ELSE 0
        /\ \A i \in 1..(b.at + b.size) - (b.at + 1) + 1 : s[i] = m[(b.at + 1) + i - 1]
    <2>1. b.at + 1 \in Int /\ b.at + b.size \in Int
      BY <1>1
    <2> QED BY <1>6, <2>1, SubSeqProperties
  <1> HIDE DEF s
  <1>8. Len(s) = b.size
    BY <1>1, <1>7
  <1>9. ASSUME NEW i \in 1..b.size PROVE s[i] = m[b.at + i]
    <2>1. i \in 1..(b.at + b.size) - (b.at + 1) + 1 /\ (b.at + 1) + i - 1 = b.at + i
      BY <1>1
    <2> QED BY <1>7, <2>1
  <1> QED BY <1>4, <1>5, <1>7, <1>8, <1>9 DEF m

\* What is on its way afterwards.
LEMMA MakeOnItsWay ==
  ASSUME SenderInv, NEW t \in Threads, MakeSendBuffer(t), NEW b, OnItsWay(b)'
  PROVE  OnItsWay(b) \/ b = NewBuffer(t)
  <1>1. /\ making' = [making EXCEPT ![t] = NewBuffer(t)] /\ sendQueue' = sendQueue
        /\ sending' = sending /\ making \in [Threads -> BufferSet \cup {NoBuffer}]
    BY MakeEffect DEF SenderInv, SenderType
  <1> QED BY <1>1 DEF OnItsWay

\* The bytes of what is on its way stay where they are.
LEMMA MakeBytes ==
  ASSUME SenderInv, NEW t \in Threads, MakeSendBuffer(t), NEW b, OnItsWay(b)
  PROVE  BytesOf(b)' = BytesOf(b)
  <1>1. /\ b.chunk \in 1..Len(used) /\ b.at \in Nat /\ b.size \in Nat /\ b.size > 0
    BY BufferType DEF SenderInv
  <1>2. Len(used) \in Nat
    BY LenProperties DEF SenderInv, SenderType
  <1>t. todo[t] # <<>>
    BY DEF MakeSendBuffer
  <1>3. CASE b.chunk # NewChunk(t)
    BY <1>1, <1>3, MakeEffect DEF BytesOf
  <1>4. CASE b.chunk = NewChunk(t)
    <2> DEFINE m == memory[b.chunk]
               k == memory'[b.chunk]
               x == b.at + 1
               y == b.at + b.size
               s == SubSeq(m, x, y)
               u == SubSeq(k, x, y)
    <2>1. b.at + b.size <= NewAt(t) /\ NewAt(t) \in Nat
      BY <1>4, <1>t, NewPlace
    <2>2. \A i \in 1..NewAt(t) : k[i] = m[i]
      <3>1. NewChunk(t) <= Len(used)
        BY <1>1, <1>2, <1>4
      <3>2. \A i \in 1..NewAt(t) : memory'[NewChunk(t)][i] = memory[NewChunk(t)][i]
        BY <3>1, MakeEffect
      <3> QED BY <3>2, <1>4
    <2>3. s \in Seq(Nat) /\ s = BytesOf(b)
      BY BytesInType DEF BytesOf
    <2>4. u = BytesOf(b)'
      BY DEF BytesOf
    <2>5. x \in Int /\ y \in Int /\ x >= 1 /\ y <= NewAt(t)
      BY <1>1, <2>1
    <2> HIDE DEF m, k, x, y
    <2>6. \A i \in x..y : k[i] = m[i]
      BY <2>1, <2>2, <2>5
    <2>7. u = s
      BY <2>6, <2>5, SubSeqSame
    <2> QED BY <2>3, <2>4, <2>7
  <1> QED BY <1>3, <1>4

\* The new buffer is one, and the old ones are still.
LEMMA NewBufferType ==
  ASSUME SenderInv, NEW t \in Threads, MakeSendBuffer(t)
  PROVE  /\ NewBuffer(t) \in BufferSet' /\ NewBuffer(t) # NoBuffer
         /\ NewBuffer(t).chunk = NewChunk(t) /\ NewBuffer(t).at = NewAt(t)
         /\ NewBuffer(t).size = NewSize(t)
         /\ NewSize(t) \in Nat /\ NewAt(t) \in Nat
         /\ BufferSet \subseteq BufferSet'
  <1>t. todo[t] # <<>>
    BY DEF MakeSendBuffer
  <1>1. NewSize(t) \in Nat /\ NewSize(t) > 0 /\ NewAt(t) \in Nat
    BY <1>t, NewPacket, NewPlace
  <1>2. NewChunk(t) \in 1..Len(used') /\ Len(used) <= Len(used') /\ Len(used') \in Nat
    BY MakeEffect
  <1>3. Len(used) \in Nat
    BY LenProperties DEF SenderInv, SenderType
  <1>4. NewBuffer(t).size # 0
    BY <1>1 DEF NewBuffer
  <1>5. NewBuffer(t) # NoBuffer
    BY <1>4 DEF NoBuffer
  <1>6. NewBuffer(t) \in BufferSet'
    BY <1>1, <1>2 DEF NewBuffer, BufferSet
  <1>7. 1..Len(used) \subseteq 1..Len(used')
    BY <1>2, <1>3
  <1>8. BufferSet \subseteq BufferSet'
    BY <1>7 DEF BufferSet
  <1> QED BY <1>1, <1>5, <1>6, <1>8 DEF NewBuffer

\* MakeSendBuffer keeps the types and the pool.
LEMMA MakeType ==
  ASSUME SenderInv, NEW t \in Threads, MakeSendBuffer(t)
  PROVE  /\ SenderType' /\ PoolUnused' /\ Distinct(pool')
  <1> DEFINE p == Popped(t, NewSize(t))
             chunks == {chunk'[u] : u \in Threads}
             bufs == Buffers(sendQueue \o sending, {making'[u] : u \in Threads})
             n == Len(used)
  <1>t. todo[t] # <<>>
    BY DEF MakeSendBuffer
  <1>1. /\ chunk' = [chunk EXCEPT ![t] = NewChunk(t)] /\ making' = [making EXCEPT ![t] = NewBuffer(t)]
        /\ pool' = Recycle(p, chunks, bufs)
        /\ n <= Len(used') /\ Len(used') \in Nat /\ NewChunk(t) \in 1..Len(used')
    BY MakeEffect
  <1>2. /\ chunk \in [Threads -> 0..n] /\ making \in [Threads -> BufferSet \cup {NoBuffer}]
        /\ sendQueue \in Seq(BufferSet) /\ sending \in Seq(BufferSet) /\ n \in Nat
    BY LenProperties DEF SenderInv, SenderType
  <1>3. /\ p \in Seq(1..n) /\ Distinct(p)
        /\ \A i \in 1..Len(p) :
              /\ p[i] # NewChunk(t)
              /\ \A u \in Threads : chunk[u] # p[i]
              /\ \A b : OnItsWay(b) => b.chunk # p[i]
    BY <1>t, NewPool
  <1> HIDE DEF p
  <1>4. ASSUME NEW b
        PROVE  b \in bufs <=> \/ \E i \in 1..Len(sendQueue) : b = sendQueue[i]
                              \/ \E i \in 1..Len(sending) : b = sending[i]
                              \/ \E u \in Threads : b = making'[u]
    <2>1. b \in ToSet(sendQueue \o sending) <=>
           (\E i \in 1..Len(sendQueue) : b = sendQueue[i]) \/ (\E i \in 1..Len(sending) : b = sending[i])
      BY <1>2, InConcat
    <2> QED BY <2>1 DEF Buffers
  <1> HIDE DEF bufs
  <1>5. ASSUME NEW i \in 1..Len(p) PROVE ~InUse(p[i], chunks, bufs)
    <2>1. \A u \in Threads : chunk'[u] # p[i]
      BY <1>1, <1>2, <1>3
    <2>2. \A b \in bufs : b.chunk # p[i]
      <3> TAKE b \in bufs
      <3>1. CASE \E u \in Threads : b = making'[u]
        <4>1. PICK u \in Threads : b = making'[u]
          BY <3>1
        <4>2. CASE u = t
          <5>1. b.chunk = NewChunk(t)
            BY <4>1, <4>2, <1>1, <1>2, NewBufferType
          <5> QED BY <5>1, <1>3
        <4>3. CASE u # t
          <5>1. b = making[u]
            BY <4>1, <4>3, <1>1, <1>2
          <5>2. CASE b = NoBuffer
            <6>1. b.chunk = 0 /\ p[i] \in 1..n
              BY <5>2, <1>3, ElementOfSeq DEF NoBuffer
            <6> QED BY <6>1, <1>2
          <5>3. CASE b # NoBuffer
            BY <5>1, <5>3, <1>3 DEF OnItsWay
          <5> QED BY <5>2, <5>3
        <4> QED BY <4>2, <4>3
      <3>2. CASE ~(\E u \in Threads : b = making'[u])
        <4>1. OnItsWay(b)
          BY <3>2, <1>4 DEF OnItsWay
        <4> QED BY <4>1, <1>3
      <3> QED BY <3>1, <3>2
    <2> QED BY <2>1, <2>2 DEF InUse
  <1> HIDE DEF chunks, n
  <1>6. /\ pool' \in Seq(1..n) /\ Distinct(pool')
        /\ \A i \in 1..Len(pool') : ~InUse(pool'[i], chunks, bufs)
    BY <1>1, <1>2, <1>3, <1>5, Recycled DEF n
  <1>7. PoolUnused'
    <2> SUFFICES ASSUME NEW i \in 1..Len(pool')
                 PROVE  /\ \A u \in Threads : chunk'[u] # pool'[i]
                        /\ \A b : OnItsWay(b)' => b.chunk # pool'[i]
      BY DEF PoolUnused
    <2>1. ~InUse(pool'[i], chunks, bufs)
      BY <1>6
    <2>2. \A u \in Threads : chunk'[u] # pool'[i]
      BY <2>1 DEF InUse, chunks
    <2>3. ASSUME NEW b, OnItsWay(b)' PROVE b \in bufs
      <3>1. sendQueue' = sendQueue /\ sending' = sending
        BY MakeEffect
      <3> QED BY <3>1, <2>3, <1>4 DEF OnItsWay
    <2>4. \A b : OnItsWay(b)' => b.chunk # pool'[i]
      BY <2>1, <2>3 DEF InUse
    <2> QED BY <2>2, <2>4
  <1>8. SenderType'
    <2>1. /\ receiver' = receiver /\ todo' = todo /\ sendQueue' = sendQueue /\ sending' = sending
          /\ failed' = FALSE /\ used' \in Seq(0..ChunkSize)
          /\ memory' \in Seq([1..ChunkSize -> Nat]) /\ Len(memory') = Len(used')
      BY MakeEffect
    <2>2. receiver' \in Receivers /\ todo' \in [Threads -> Seq(Planned(receiver'))]
      BY <2>1 DEF SenderInv, SenderType
    <2>3. chunk' \in [Threads -> 0..Len(used')]
      <3>1. 0..n \subseteq 0..Len(used') /\ NewChunk(t) \in 0..Len(used')
        BY <1>1, <1>2
      <3> QED BY <3>1, <1>1, <1>2
    <2>4. pool' \in Seq(1..Len(used'))
      <3>1. 1..n \subseteq 1..Len(used')
        BY <1>1, <1>2
      <3> QED BY <3>1, <1>6, SeqMonotonic
    <2>5. BufferSet \subseteq BufferSet' /\ NewBuffer(t) \in BufferSet'
      BY NewBufferType
    <2>6. making' \in [Threads -> BufferSet' \cup {NoBuffer}]
      BY <2>5, <1>1, <1>2
    <2>7. sendQueue' \in Seq(BufferSet') /\ sending' \in Seq(BufferSet')
      BY <2>1, <2>5, <1>2, SeqMonotonic
    <2> QED BY <2>1, <2>2, <2>3, <2>4, <2>6, <2>7 DEF SenderType
  <1> QED BY <1>6, <1>7, <1>8

\* And the buffers inside the used part, apart and in their own chunks.
LEMMA MakePlace ==
  ASSUME SenderInv, NEW t \in Threads, MakeSendBuffer(t)
  PROVE  /\ InsideUsed' /\ Apart' /\ OwnChunk' /\ InTurn' /\ Made'
  <1>t. todo[t] # <<>> /\ making[t] = NoBuffer
    BY DEF MakeSendBuffer
  <1> DEFINE new == NewBuffer(t)
  <1>1. /\ chunk' = [chunk EXCEPT ![t] = NewChunk(t)] /\ making' = [making EXCEPT ![t] = new]
        /\ sendQueue' = sendQueue /\ sending' = sending /\ todo' = todo
        /\ used'[NewChunk(t)] = NewAt(t) + NewSize(t)
        /\ \A d \in 1..Len(used) : d # NewChunk(t) => used'[d] = used[d]
    BY MakeEffect
  <1>2. /\ new.chunk = NewChunk(t) /\ new.at = NewAt(t) /\ new.size = NewSize(t)
        /\ NewSize(t) \in Nat /\ NewAt(t) \in Nat
    BY NewBufferType
  <1>3. ASSUME NEW b, OnItsWay(b) PROVE b.chunk = NewChunk(t) => b.at + b.size <= NewAt(t)
    BY <1>3, <1>t, NewPlace
  <1>4. \A b : OnItsWay(b)' => OnItsWay(b) \/ b = new
    BY MakeOnItsWay
  <1> HIDE DEF new
  <1>5. InsideUsed'
    <2> SUFFICES ASSUME NEW b, OnItsWay(b)' PROVE b.at + b.size <= used'[b.chunk]
      BY DEF InsideUsed
    <2>1. CASE b = new
      BY <2>1, <1>1, <1>2
    <2>2. CASE OnItsWay(b)
      <3>1. b.chunk \in 1..Len(used) /\ b.at \in Nat /\ b.size \in Nat
        BY <2>2, BufferType DEF SenderInv
      <3>2. b.at + b.size <= used[b.chunk]
        BY <2>2 DEF SenderInv, InsideUsed
      <3>3. CASE b.chunk = NewChunk(t)
        <4>1. b.at + b.size <= NewAt(t) /\ used'[b.chunk] = NewAt(t) + NewSize(t)
          BY <2>2, <3>3, <1>1, <1>3
        <4> QED BY <4>1, <3>1, <1>2
      <3>4. CASE b.chunk # NewChunk(t)
        BY <3>1, <3>2, <3>4, <1>1
      <3> QED BY <3>3, <3>4
    <2> QED BY <2>1, <2>2, <1>4
  <1>6. Apart'
    <2> SUFFICES ASSUME NEW a, NEW b, OnItsWay(a)', OnItsWay(b)', a # b, a.chunk = b.chunk
                 PROVE  a.at + a.size <= b.at \/ b.at + b.size <= a.at
      BY DEF Apart
    <2>1. CASE OnItsWay(a) /\ OnItsWay(b)
      BY <2>1 DEF SenderInv, Apart
    <2>2. CASE a = new /\ OnItsWay(b)
      BY <2>2, <1>2, <1>3
    <2>3. CASE b = new /\ OnItsWay(a)
      BY <2>3, <1>2, <1>3
    <2> QED BY <2>1, <2>2, <2>3, <1>4
  <1>7. OwnChunk'
    <2> SUFFICES ASSUME NEW u \in Threads, NEW v \in Threads, u # v, chunk'[u] # 0
                 PROVE  chunk'[u] # chunk'[v]
      BY DEF OwnChunk
    <2>1. \A x \in Threads : x # t => chunk[x] # NewChunk(t) /\ chunk'[x] = chunk[x]
      BY <1>t, <1>1, NewPlace DEF SenderInv, SenderType
    <2>2. chunk'[t] = NewChunk(t)
      BY <1>1 DEF SenderInv, SenderType
    <2>3. CASE u # t /\ v # t
      BY <2>1, <2>3 DEF SenderInv, OwnChunk
    <2> QED BY <2>1, <2>2, <2>3
  <1>8. InTurn'
    BY <1>1 DEF SenderInv, InTurn
  <1>9. Made'
    <2> SUFFICES ASSUME NEW u \in Threads, making'[u] # NoBuffer
                 PROVE  todo'[u] # <<>> /\ BytesOf(making[u])' = Packet(Head(todo'[u]))
      BY DEF Made
    <2>1. CASE u # t
      <3>1. making'[u] = making[u] /\ making[u] # NoBuffer
        BY <2>1, <1>1 DEF SenderInv, SenderType
      <3>2. OnItsWay(making[u])
        BY <3>1 DEF OnItsWay
      <3> DEFINE b == making[u]
      <3>3. \A c : OnItsWay(c) => SubSeq(memory'[c.chunk], c.at + 1, c.at + c.size) = BytesOf(c)
        BY MakeBytes DEF BytesOf
      <3>4. BytesOf(making[u])' = SubSeq(memory'[b.chunk], b.at + 1, b.at + b.size)
        BY <3>1 DEF BytesOf
      <3>5. BytesOf(making[u])' = BytesOf(b)
        BY <3>2, <3>3, <3>4
      <3>6. todo[u] # <<>> /\ BytesOf(b) = Packet(Head(todo[u]))
        BY <3>1 DEF SenderInv, Made
      <3> QED BY <3>5, <3>6, <1>1
    <2>2. CASE u = t
      <3>1. making'[u] = new
        BY <2>2, <1>1 DEF SenderInv, SenderType
      <3> DEFINE m == memory'[NewChunk(t)]
                 x == NewAt(t) + 1
                 y == NewAt(t) + NewSize(t)
                 s == SubSeq(m, x, y)
                 w == NewBytes(t)
      <3>2. BytesOf(making[u])' = s
        BY <3>1, <1>2 DEF BytesOf
      <3>3. \A i \in 1..NewSize(t) : m[NewAt(t) + i] = w[i]
        BY MakeEffect
      <3>4. w \in Seq(Nat) /\ Len(w) = NewSize(t)
        BY <1>t, NewPacket
      <3> HIDE DEF m, w
      <3>5. s = w
        <4>1. \A i \in x..y : m[i] \in Nat
          <5> TAKE i \in x..y
          <5>1. i - NewAt(t) \in 1..NewSize(t) /\ NewAt(t) + (i - NewAt(t)) = i
            BY <1>2
          <5>2. m[i] = w[i - NewAt(t)]
            BY <5>1, <3>3
          <5> QED BY <5>1, <5>2, <3>4, ElementOfSeq
        <4>2. x \in Int /\ y \in Int
          BY <1>2
        <4>3. /\ s \in Seq(Nat) /\ Len(s) = IF x <= y THEN y - x + 1 ELSE 0
              /\ \A i \in 1..y - x + 1 : s[i] = m[x + i - 1]
          BY <4>1, <4>2, SubSeqProperties
        <4>4. y - x + 1 = NewSize(t) /\ \A i \in 1..NewSize(t) : x + i - 1 = NewAt(t) + i
          BY <1>2
        <4>5. (x <= y \/ NewSize(t) = 0)
          BY <1>2
        <4> HIDE DEF s, x, y
        <4>6. Len(s) = NewSize(t) /\ \A i \in 1..NewSize(t) : s[i] = w[i]
          BY <4>3, <4>4, <4>5, <3>3
        <4> QED BY <4>3, <4>6, <3>4, SeqEqual
      <3> QED BY <3>2, <3>5, <2>2, <1>1, <1>t DEF w, NewBytes
    <2> QED BY <2>1, <2>2
  <1> QED BY <1>5, <1>6, <1>7, <1>8, <1>9

\* It keeps the invariant of the sender.
LEMMA MakeSender ==
  ASSUME SenderInv, NEW t \in Threads, MakeSendBuffer(t)
  PROVE  SenderInv'
  BY MakeType, MakePlace DEF SenderInv

-----------------------------------------------------------------------------
(* Send and ProcessSend.                                                   *)

\* Send puts nothing new on its way.
LEMMA SendOnItsWay ==
  ASSUME SenderInv, NEW t \in Threads, Send(t), NEW b, OnItsWay(b)'
  PROVE  OnItsWay(b)
  <1>1. /\ making' = [making EXCEPT ![t] = NoBuffer] /\ making[t] # NoBuffer
        /\ making \in [Threads -> BufferSet \cup {NoBuffer}]
        /\ sending \in Seq(BufferSet) /\ sendQueue \in Seq(BufferSet)
    BY DEF Send, SenderInv, SenderType
  <1>2. making[t] \in BufferSet /\ OnItsWay(making[t])
    BY <1>1 DEF OnItsWay
  <1>3. CASE b # NoBuffer /\ \E u \in Threads : b = making'[u]
    <2>1. b # NoBuffer /\ \E u \in Threads : b = making[u]
      BY <1>1, <1>3
    <2> QED BY <2>1 DEF OnItsWay
  <1>4. CASE sending = <<>>
    <2>1. sending' = <<making[t]>> /\ sendQueue' = sendQueue
      BY <1>4 DEF Send
    <2>2. CASE \E i \in 1..Len(sending') : b = sending'[i]
      BY <2>1, <2>2, <1>2
    <2>3. CASE \E i \in 1..Len(sendQueue') : b = sendQueue'[i]
      BY <2>1, <2>3 DEF OnItsWay
    <2> QED BY <2>2, <2>3, <1>3 DEF OnItsWay
  <1>5. CASE sending # <<>>
    <2>1. sendQueue' = Append(sendQueue, making[t]) /\ sending' = sending
      BY <1>5 DEF Send
    <2>2. /\ Len(sendQueue') = Len(sendQueue) + 1 /\ Len(sendQueue) \in Nat
          /\ \A i \in 1..Len(sendQueue) : sendQueue'[i] = sendQueue[i]
          /\ sendQueue'[Len(sendQueue) + 1] = making[t]
      BY <2>1, <1>1, <1>2, AppendProperties, LenProperties
    <2>3. CASE \E i \in 1..Len(sending') : b = sending'[i]
      BY <2>1, <2>3 DEF OnItsWay
    <2>4. CASE \E i \in 1..Len(sendQueue') : b = sendQueue'[i]
      <3>1. PICK i \in 1..Len(sendQueue) + 1 : b = sendQueue'[i]
        BY <2>2, <2>4
      <3>2. CASE i = Len(sendQueue) + 1
        BY <3>1, <3>2, <2>2, <1>2
      <3>3. CASE i # Len(sendQueue) + 1
        <4>1. i \in 1..Len(sendQueue) /\ b = sendQueue[i]
          BY <3>1, <3>3, <2>2
        <4> QED BY <4>1 DEF OnItsWay
      <3> QED BY <3>2, <3>3
    <2> QED BY <2>3, <2>4, <1>3 DEF OnItsWay
  <1> QED BY <1>4, <1>5

\* Nor does ProcessSend.
LEMMA ProcessOnItsWay ==
  ASSUME ProcessSend, NEW b, OnItsWay(b)'
  PROVE  OnItsWay(b)
  <1>1. sending' = sendQueue /\ sendQueue' = <<>> /\ making' = making
    BY DEF ProcessSend
  <1>2. Len(<<>>) = 0
    OBVIOUS
  <1>3. ~(\E i \in 1..Len(sendQueue') : b = sendQueue'[i])
    BY <1>1, <1>2
  <1> QED BY <1>1, <1>3 DEF OnItsWay

\* Nothing but the queues changes: what is on its way still lies apart.
LEMMA PlaceKept ==
  ASSUME SenderInv, \A b : OnItsWay(b)' => OnItsWay(b), UNCHANGED <<used, chunk>>
  PROVE  InsideUsed' /\ Apart' /\ OwnChunk'
  <1>1. InsideUsed'
    BY DEF SenderInv, InsideUsed
  <1>2. Apart'
    BY DEF SenderInv, Apart
  <1>3. OwnChunk'
    BY DEF SenderInv, OwnChunk
  <1> QED BY <1>1, <1>2, <1>3

\* Send keeps the invariant of the sender.
LEMMA SendSender ==
  ASSUME SenderInv, NEW t \in Threads, Send(t)
  PROVE  SenderInv'
  <1>1. /\ making' = [making EXCEPT ![t] = NoBuffer] /\ making[t] # NoBuffer
        /\ todo' = [todo EXCEPT ![t] = Tail(todo[t])]
        /\ UNCHANGED <<receiver, chunk, used, memory, pool, failed>>
    BY DEF Send
  <1>2. SenderType
    BY DEF SenderInv
  <1>3. /\ making \in [Threads -> BufferSet \cup {NoBuffer}] /\ making[t] \in BufferSet
        /\ sending \in Seq(BufferSet) /\ sendQueue \in Seq(BufferSet)
        /\ todo \in [Threads -> Seq(Planned(receiver))]
    BY <1>1, <1>2 DEF SenderType
  <1>4. BufferSet' = BufferSet
    BY <1>1 DEF BufferSet
  <1>5. \A b : OnItsWay(b)' => OnItsWay(b)
    BY SendOnItsWay
  <1>6. todo[t] # <<>>
    BY <1>1 DEF SenderInv, Made
  <1>7. \/ sending = <<>> /\ sending' = <<making[t]>> /\ sendQueue' = sendQueue
        \/ sending # <<>> /\ sendQueue' = Append(sendQueue, making[t]) /\ sending' = sending
    BY DEF Send
  <1>8. SenderType'
    <2>1. sending' \in Seq(BufferSet) /\ sendQueue' \in Seq(BufferSet)
      <3>1. <<making[t]>> \in Seq(BufferSet)
        BY <1>3
      <3>2. Append(sendQueue, making[t]) \in Seq(BufferSet)
        BY <1>3, AppendProperties
      <3> QED BY <3>1, <3>2, <1>3, <1>7
    <2>2. todo[t] \in Seq(Planned(receiver)) /\ Tail(todo[t]) \in Seq(Planned(receiver))
      BY <1>3, <1>6, HeadTailProperties
    <2>3. todo' \in [Threads -> Seq(Planned(receiver))]
      BY <1>1, <1>3, <2>2
    <2>4. making' \in [Threads -> BufferSet \cup {NoBuffer}]
      BY <1>1, <1>3
    <2> QED BY <1>1, <1>2, <1>4, <2>1, <2>3, <2>4 DEF SenderType
  <1>9. InsideUsed' /\ Apart' /\ OwnChunk'
    BY <1>1, <1>5, PlaceKept
  <1>10. PoolUnused' /\ Distinct(pool')
    <2>1. PoolUnused'
      BY <1>1, <1>5 DEF SenderInv, PoolUnused
    <2> QED BY <2>1, <1>1 DEF SenderInv
  <1>11. InTurn'
    <2>1. CASE sending = <<>>
      <3>1. sending' = <<making[t]>>
        BY <1>7, <2>1
      <3> QED BY <3>1 DEF InTurn
    <2>2. CASE sending # <<>>
      <3>1. sending' = sending
        BY <1>7, <2>2
      <3> QED BY <3>1, <2>2 DEF InTurn
    <2> QED BY <2>1, <2>2
  <1>12. Made'
    <2> SUFFICES ASSUME NEW u \in Threads, making'[u] # NoBuffer
                 PROVE  todo'[u] # <<>> /\ BytesOf(making[u])' = Packet(Head(todo'[u]))
      BY DEF Made
    <2>1. u # t /\ making'[u] = making[u] /\ todo'[u] = todo[u]
      BY <1>1, <1>3
    <2>2. BytesOf(making[u])' = BytesOf(making[u])
      BY <2>1, <1>1 DEF BytesOf
    <2> QED BY <2>1, <2>2 DEF SenderInv, Made
  <1> QED BY <1>8, <1>9, <1>10, <1>11, <1>12 DEF SenderInv

\* So does ProcessSend, which recycles the chunks it gives up.
LEMMA ProcessSender ==
  ASSUME SenderInv, ProcessSend
  PROVE  SenderInv'
  <1> DEFINE chunks == {chunk[u] : u \in Threads}
             bufs == Buffers(sendQueue, {making[u] : u \in Threads})
  <1>1. /\ sending' = sendQueue /\ sendQueue' = <<>> /\ pool' = Recycle(pool, chunks, bufs)
        /\ UNCHANGED <<receiver, todo, chunk, used, memory, making, failed>>
    BY DEF ProcessSend
  <1>2. SenderType
    BY DEF SenderInv
  <1>3. BufferSet' = BufferSet /\ sendQueue \in Seq(BufferSet) /\ <<>> \in Seq(BufferSet)
    BY <1>1, <1>2, EmptySeq DEF BufferSet, SenderType
  <1>4. Len(used) \in Nat /\ pool \in Seq(1..Len(used)) /\ Distinct(pool)
        /\ chunk \in [Threads -> 0..Len(used)]
    BY <1>2, LenProperties DEF SenderType, SenderInv
  <1>5. \A b : OnItsWay(b)' => OnItsWay(b)
    BY ProcessOnItsWay
  <1>6. ASSUME NEW b
        PROVE  b \in bufs <=> \/ \E i \in 1..Len(sendQueue) : b = sendQueue[i]
                              \/ \E u \in Threads : b = making[u]
    <2>1. DOMAIN sendQueue = 1..Len(sendQueue)
      BY <1>3, LenProperties
    <2> QED BY <2>1 DEF Buffers, ToSet
  <1> HIDE DEF bufs
  <1>7. ASSUME NEW i \in 1..Len(pool) PROVE ~InUse(pool[i], chunks, bufs)
    <2>1. /\ \A u \in Threads : chunk[u] # pool[i]
          /\ \A b : OnItsWay(b) => b.chunk # pool[i]
      BY DEF SenderInv, PoolUnused
    <2>2. \A b \in bufs : b.chunk # pool[i]
      <3> TAKE b \in bufs
      <3>1. CASE b = NoBuffer
        <4>1. b.chunk = 0 /\ pool[i] \in 1..Len(used)
          BY <3>1, <1>4, ElementOfSeq DEF NoBuffer
        <4> QED BY <4>1, <1>4
      <3>2. CASE b # NoBuffer
        <4>1. OnItsWay(b)
          BY <3>2, <1>6 DEF OnItsWay
        <4> QED BY <4>1, <2>1
      <3> QED BY <3>1, <3>2
    <2> QED BY <2>1, <2>2 DEF InUse
  <1> HIDE DEF chunks
  <1>8. /\ pool' \in Seq(1..Len(used)) /\ Distinct(pool')
        /\ \A i \in 1..Len(pool') : ~InUse(pool'[i], chunks, bufs)
    BY <1>1, <1>4, <1>7, Recycled
  <1>9. PoolUnused'
    <2> SUFFICES ASSUME NEW i \in 1..Len(pool')
                 PROVE  /\ \A u \in Threads : chunk'[u] # pool'[i]
                        /\ \A b : OnItsWay(b)' => b.chunk # pool'[i]
      BY DEF PoolUnused
    <2>1. ~InUse(pool'[i], chunks, bufs)
      BY <1>8
    <2>2. \A u \in Threads : chunk'[u] # pool'[i]
      BY <2>1, <1>1 DEF InUse, chunks
    <2>3. ASSUME NEW b, OnItsWay(b)' PROVE b \in bufs
      <3>1. Len(<<>>) = 0
        OBVIOUS
      <3> QED BY <3>1, <2>3, <1>1, <1>6 DEF OnItsWay
    <2>4. \A b : OnItsWay(b)' => b.chunk # pool'[i]
      BY <2>1, <2>3 DEF InUse
    <2> QED BY <2>2, <2>4
  <1>10. SenderType'
    BY <1>1, <1>2, <1>3, <1>8 DEF SenderType
  <1>11. InsideUsed' /\ Apart' /\ OwnChunk'
    BY <1>1, <1>5, PlaceKept
  <1>12. InTurn'
    BY <1>1 DEF InTurn
  <1>13. Made'
    BY <1>1 DEF SenderInv, Made, BytesOf
  <1> QED BY <1>8, <1>9, <1>10, <1>11, <1>12, <1>13 DEF SenderInv

\* And every step that leaves the sender alone.
LEMMA SenderKept ==
  ASSUME SenderInv, UNCHANGED <<receiver, senderVars, sending>>
  PROVE  SenderInv'
  <1>1. UNCHANGED <<receiver, todo, chunk, used, memory, pool, making, sendQueue, sending, failed>>
    BY DEF senderVars
  <1>2. BufferSet' = BufferSet
    BY <1>1 DEF BufferSet
  <1>3. \A b : OnItsWay(b)' <=> OnItsWay(b)
    BY <1>1 DEF OnItsWay
  <1>4. SenderType'
    BY <1>1, <1>2 DEF SenderInv, SenderType
  <1>5. InsideUsed' /\ Apart' /\ OwnChunk'
    BY <1>1, <1>3, PlaceKept
  <1>6. PoolUnused' /\ Distinct(pool')
    <2>1. PoolUnused'
      BY <1>1, <1>3 DEF SenderInv, PoolUnused
    <2> QED BY <2>1, <1>1 DEF SenderInv
  <1>7. InTurn' /\ Made'
    BY <1>1 DEF SenderInv, InTurn, Made, BytesOf
  <1> QED BY <1>4, <1>5, <1>6, <1>7 DEF SenderInv

\* It holds at first.
LEMMA InitSender ==
  ASSUME Init
  PROVE  SenderInv
  <1>1. /\ receiver \in Receivers /\ todo = plan[receiver]
        /\ chunk = [t \in Threads |-> 0] /\ making = [t \in Threads |-> NoBuffer]
        /\ used = <<>> /\ memory = <<>> /\ pool = <<>> /\ sendQueue = <<>> /\ sending = <<>>
        /\ failed = FALSE
    BY DEF Init
  <1>2. Len(<<>>) = 0
    OBVIOUS
  <1>3. \A b : ~OnItsWay(b)
    BY <1>1, <1>2 DEF OnItsWay
  <1>4. SenderType
    <2>1. todo \in [Threads -> Seq(Planned(receiver))]
      BY <1>1, PlanFacts
    <2>2. chunk \in [Threads -> 0..Len(used)] /\ making \in [Threads -> BufferSet \cup {NoBuffer}]
      BY <1>1, <1>2
    <2>3. /\ used \in Seq(0..ChunkSize) /\ memory \in Seq([1..ChunkSize -> Nat])
          /\ pool \in Seq(1..Len(used)) /\ sendQueue \in Seq(BufferSet) /\ sending \in Seq(BufferSet)
      BY <1>1, EmptySeq
    <2> QED BY <1>1, <2>1, <2>2, <2>3 DEF SenderType
  <1>5. InsideUsed /\ Apart
    BY <1>3 DEF InsideUsed, Apart
  <1>6. PoolUnused /\ Distinct(pool)
    BY <1>1, <1>2 DEF PoolUnused, Distinct
  <1>7. OwnChunk /\ InTurn /\ Made
    BY <1>1 DEF OwnChunk, InTurn, Made
  <1> QED BY <1>4, <1>5, <1>6, <1>7 DEF SenderInv

-----------------------------------------------------------------------------
(* The bytes of the queues.                                                *)

\* Sequences of numbers are glued to one.
LEMMA FlattenType ==
  ASSUME NEW S, NEW q \in Seq(Seq(S))
  PROVE  FlattenSeq(q) \in Seq(S)
  <1>1. <<>> \in Seq(S)
    BY EmptySeq
  <1> QED BY <1>1, FlattenAppend

\* An empty queue has no bytes.
LEMMA BytesNone == Bytes(<<>>) = <<>>
  <1> DEFINE e == <<>>
  <1>1. Len(e) = 0
    OBVIOUS
  <1>2. [i \in 1..Len(e) |-> BytesOf(e[i])] = <<>>
    BY <1>1
  <1> HIDE DEF e
  <1>3. Bytes(e) = <<>>
    BY <1>2, FlattenEmpty DEF Bytes
  <1> QED BY <1>3 DEF e

\* A buffer queued last adds its bytes at the end.
LEMMA BytesAppend ==
  ASSUME NEW S, NEW q \in Seq(S), NEW b \in S,
         BytesOf(b) \in Seq(Nat), \A i \in 1..Len(q) : BytesOf(q[i]) \in Seq(Nat)
  PROVE  /\ Bytes(q) \in Seq(Nat)
         /\ Bytes(Append(q, b)) = Bytes(q) \o BytesOf(b)
  <1> DEFINE f == [i \in 1..Len(q) |-> BytesOf(q[i])]
             a == Append(q, b)
             g == [i \in 1..Len(a) |-> BytesOf(a[i])]
             e == BytesOf(b)
  <1>1. /\ Len(q) \in Nat /\ Len(a) = Len(q) + 1
        /\ (\A i \in 1..Len(q) : a[i] = q[i]) /\ a[Len(q) + 1] = b
    BY AppendProperties, LenProperties
  <1>2. f \in Seq(Seq(Nat)) /\ Len(f) = Len(q) /\ \A i \in 1..Len(q) : f[i] = BytesOf(q[i])
    <2>1. f \in [1..Len(q) -> Seq(Nat)]
      OBVIOUS
    <2> QED BY <1>1, <2>1
  <1>e. e \in Seq(Nat)
    OBVIOUS
  <1> HIDE DEF a
  <1>3. \A i \in 1..Len(q) + 1 : g[i] = IF i = Len(q) + 1 THEN e ELSE f[i]
    <2> TAKE i \in 1..Len(q) + 1
    <2>1. i \in 1..Len(a)
      BY <1>1
    <2>2. CASE i = Len(q) + 1
      BY <2>1, <2>2, <1>1
    <2>3. CASE i # Len(q) + 1
      <3>1. i \in 1..Len(q)
        BY <2>3, <1>1
      <3> QED BY <2>1, <2>3, <3>1, <1>1, <1>2
    <2> QED BY <2>2, <2>3
  <1>5. g \in Seq(Seq(Nat)) /\ Len(g) = Len(q) + 1
    <2>1. \A i \in 1..Len(q) + 1 : g[i] \in Seq(Nat)
      <3> TAKE i \in 1..Len(q) + 1
      <3>1. i = Len(q) + 1 \/ i \in 1..Len(q)
        BY <1>1
      <3>2. g[i] = IF i = Len(q) + 1 THEN e ELSE f[i]
        BY <1>3
      <3>3. i \in 1..Len(q) => f[i] \in Seq(Nat)
        BY <1>2
      <3> HIDE DEF e, f, g
      <3> QED BY <3>1, <3>2, <3>3, <1>e
    <2>2. g = [i \in 1..Len(q) + 1 |-> g[i]]
      BY <1>1
    <2>3. Len(q) + 1 \in Nat
      BY <1>1
    <2> HIDE DEF g
    <2>4. g \in [1..Len(q) + 1 -> Seq(Nat)]
      BY <2>1, <2>2
    <2> QED BY <2>3, <2>4
  <1> HIDE DEF f, g, e
  <1>6. /\ Append(f, e) \in Seq(Seq(Nat)) /\ Len(Append(f, e)) = Len(q) + 1
        /\ (\A i \in 1..Len(q) : Append(f, e)[i] = f[i]) /\ Append(f, e)[Len(q) + 1] = e
    <2>1. /\ Append(f, e) \in Seq(Seq(Nat)) /\ Len(Append(f, e)) = Len(f) + 1
          /\ (\A i \in 1..Len(f) : Append(f, e)[i] = f[i]) /\ Append(f, e)[Len(f) + 1] = e
      <3>1. f \in Seq(Seq(Nat)) /\ e \in Seq(Nat)
        BY <1>2, <1>e
      <3> QED BY <3>1, AppendProperties
    <2>2. Len(f) = Len(q)
      BY <1>2
    <2> QED BY <2>1, <2>2
  <1>7. g = Append(f, e)
    <2>1. \A i \in 1..Len(g) : g[i] = Append(f, e)[i]
      <3> TAKE i \in 1..Len(g)
      <3>1. i \in 1..Len(q) + 1 /\ (i = Len(q) + 1 \/ i \in 1..Len(q))
        BY <1>1, <1>5
      <3> QED BY <3>1, <1>1, <1>3, <1>6
    <2> QED BY <2>1, <1>5, <1>6, SeqEqual
  <1>8. Bytes(q) = FlattenSeq(f) /\ Bytes(a) = FlattenSeq(g)
    BY DEF Bytes, f, g
  <1>9. FlattenSeq(f) \in Seq(Nat) /\ FlattenSeq(Append(f, e)) = FlattenSeq(f) \o e
    BY <1>2, <1>e, FlattenAppend
  <1> QED BY <1>7, <1>8, <1>9 DEF a, e

\* The bytes on the sender's side are numbers.
LEMMA QueueBytes ==
  ASSUME SenderInv
  PROVE  /\ \A i \in 1..Len(sending) : OnItsWay(sending[i]) /\ BytesOf(sending[i]) \in Seq(Nat)
         /\ \A i \in 1..Len(sendQueue) : OnItsWay(sendQueue[i]) /\ BytesOf(sendQueue[i]) \in Seq(Nat)
         /\ Bytes(sending) \in Seq(Nat) /\ Bytes(sendQueue) \in Seq(Nat)
  <1>1. \A i \in 1..Len(sending) : OnItsWay(sending[i]) /\ BytesOf(sending[i]) \in Seq(Nat)
    <2> TAKE i \in 1..Len(sending)
    <2>1. OnItsWay(sending[i])
      BY DEF OnItsWay
    <2> QED BY <2>1, BytesInType
  <1>2. \A i \in 1..Len(sendQueue) : OnItsWay(sendQueue[i]) /\ BytesOf(sendQueue[i]) \in Seq(Nat)
    <2> TAKE i \in 1..Len(sendQueue)
    <2>1. OnItsWay(sendQueue[i])
      BY DEF OnItsWay
    <2> QED BY <2>1, BytesInType
  <1>3. Len(sending) \in Nat /\ Len(sendQueue) \in Nat
    BY LenProperties DEF SenderInv, SenderType
  <1>4. Bytes(sending) \in Seq(Nat)
    <2> DEFINE f == [i \in 1..Len(sending) |-> BytesOf(sending[i])]
    <2>1. f \in [1..Len(sending) -> Seq(Nat)]
      BY <1>1
    <2>2. Bytes(sending) = FlattenSeq(f)
      BY DEF Bytes
    <2> HIDE DEF f
    <2>3. f \in Seq(Seq(Nat))
      BY <1>3, <2>1
    <2> QED BY <2>2, <2>3, FlattenType
  <1>5. Bytes(sendQueue) \in Seq(Nat)
    <2> DEFINE f == [i \in 1..Len(sendQueue) |-> BytesOf(sendQueue[i])]
    <2>1. f \in [1..Len(sendQueue) -> Seq(Nat)]
      BY <1>2
    <2>2. Bytes(sendQueue) = FlattenSeq(f)
      BY DEF Bytes
    <2> HIDE DEF f
    <2>3. f \in Seq(Seq(Nat))
      BY <1>3, <2>1
    <2> QED BY <2>2, <2>3, FlattenType
  <1> QED BY <1>1, <1>2, <1>4, <1>5

\* MakeSendBuffer leaves them as they are.
LEMMA MakeQueueBytes ==
  ASSUME SenderInv, NEW t \in Threads, MakeSendBuffer(t)
  PROVE  Bytes(sending)' = Bytes(sending) /\ Bytes(sendQueue)' = Bytes(sendQueue)
  <1>1. sending' = sending /\ sendQueue' = sendQueue
    BY MakeEffect
  <1> DEFINE of(b) == SubSeq(memory'[b.chunk], b.at + 1, b.at + b.size)
  <1>2. \A b : OnItsWay(b) => of(b) = BytesOf(b)
    BY MakeBytes DEF BytesOf
  <1>3. /\ Bytes(sending)' = FlattenSeq([i \in 1..Len(sending) |-> of(sending[i])])
        /\ Bytes(sendQueue)' = FlattenSeq([i \in 1..Len(sendQueue) |-> of(sendQueue[i])])
    BY <1>1 DEF Bytes, BytesOf
  <1> HIDE DEF of
  <1>4. [i \in 1..Len(sending) |-> of(sending[i])] = [i \in 1..Len(sending) |-> BytesOf(sending[i])]
    BY <1>2, QueueBytes
  <1>5. [i \in 1..Len(sendQueue) |-> of(sendQueue[i])]
          = [i \in 1..Len(sendQueue) |-> BytesOf(sendQueue[i])]
    BY <1>2, QueueBytes
  <1> QED BY <1>3, <1>4, <1>5 DEF Bytes

\* Send appends the packet.
LEMMA SendQueueBytes ==
  ASSUME SenderInv, NEW t \in Threads, Send(t)
  PROVE  /\ todo[t] # <<>> /\ Head(todo[t]) \in Planned(receiver) /\ receiver \in Receivers
         /\ Packet(Head(todo[t])) \in Seq(Nat)
         /\ (Bytes(sending) \o Bytes(sendQueue))'
              = (Bytes(sending) \o Bytes(sendQueue)) \o Packet(Head(todo[t]))
  <1> DEFINE b == making[t]
             s == Bytes(sending)
             q == Bytes(sendQueue)
             w == Packet(Head(todo[t]))
  <1>0. SenderType
    BY DEF SenderInv
  <1>1. b # NoBuffer /\ memory' = memory
    BY DEF Send
  <1>2. b \in BufferSet /\ sendQueue \in Seq(BufferSet) /\ sending \in Seq(BufferSet)
    BY <1>0, <1>1 DEF SenderType
  <1>3. todo[t] # <<>> /\ BytesOf(b) = w
    BY <1>1 DEF SenderInv, Made
  <1>4. Head(todo[t]) \in Planned(receiver) /\ receiver \in Receivers /\ w \in Seq(Nat)
    BY <1>3, NewPacket DEF NewBytes
  <1>5. s \in Seq(Nat) /\ q \in Seq(Nat)
    BY QueueBytes
  <1>6. CASE sending = <<>>
    <2>1. sendQueue = <<>>
      BY <1>6 DEF SenderInv, InTurn
    <2>2. sending' = <<b>> /\ sendQueue' = <<>>
      BY <1>6, <2>1 DEF Send
    <2>3. s = <<>> /\ q = <<>>
      BY <1>6, <2>1, BytesNone
    <2>4. <<b>> = Append(<<>>, b) /\ <<>> \in Seq(BufferSet)
      BY EmptySeq
    <2>5. Bytes(<<b>>) = Bytes(<<>>) \o w
      <3>1. \A i \in 1..Len(<<>>) : BytesOf(<<>>[i]) \in Seq(Nat)
        OBVIOUS
      <3> QED BY <2>4, <3>1, <1>2, <1>3, <1>4, BytesAppend
    <2>6. Bytes(sending)' = Bytes(<<b>>) /\ Bytes(sendQueue)' = Bytes(<<>>)
      BY <2>2, <1>1 DEF Bytes, BytesOf
    <2> HIDE DEF b, s, q, w
    <2>7. (Bytes(sending) \o Bytes(sendQueue))' = (<<>> \o w) \o <<>>
      BY <2>5, <2>6, BytesNone
    <2>8. (<<>> \o w) \o <<>> = w /\ (<<>> \o <<>>) \o w = w
      BY <1>4, ConcatEmptySeq, EmptySeq
    <2> QED BY <2>3, <2>7, <2>8, <1>3, <1>4 DEF s, q, w
  <1>7. CASE sending # <<>>
    <2>1. sendQueue' = Append(sendQueue, b) /\ sending' = sending
      BY <1>7 DEF Send
    <2>2. Bytes(Append(sendQueue, b)) = q \o w
      BY <1>2, <1>3, <1>4, QueueBytes, BytesAppend
    <2>3. Bytes(sending)' = s /\ Bytes(sendQueue)' = Bytes(Append(sendQueue, b))
      BY <2>1, <1>1 DEF Bytes, BytesOf
    <2> HIDE DEF b, s, q, w
    <2>4. s \o (q \o w) = (s \o q) \o w
      <3>1. s \in Seq(Nat) /\ q \in Seq(Nat) /\ w \in Seq(Nat)
        BY <1>4, <1>5
      <3>2. (s \o q) \o w = s \o (q \o w)
        BY <3>1, Associative, Zenon
      <3> QED BY <3>2
    <2> QED BY <2>2, <2>3, <2>4, <1>3, <1>4 DEF s, q, w
  <1> QED BY <1>6, <1>7

\* ProcessSend gives the one queue to the stream and the other to the kernel.
LEMMA ProcessQueueBytes ==
  ASSUME SenderInv, ProcessSend
  PROVE  Bytes(sending)' = Bytes(sendQueue) /\ Bytes(sendQueue)' = <<>>
  <1>1. sending' = sendQueue /\ sendQueue' = <<>> /\ memory' = memory
    BY DEF ProcessSend
  <1>2. Bytes(sending)' = Bytes(sendQueue) /\ Bytes(sendQueue)' = Bytes(<<>>)
    BY <1>1 DEF Bytes, BytesOf
  <1> QED BY <1>2, BytesNone

-----------------------------------------------------------------------------
(* The cursors of a RecvBuffer.                                            *)

\* The capacity is at least three buffers: the only fact about the product
\* BufferSize * BufferCount that the proof needs.
LEMMA CapacityBound ==
    /\ Capacity \in Nat
    /\ Capacity >= BufferSize + BufferSize + BufferSize
    /\ BufferSize \in Nat /\ MaxPacket \in Nat
    /\ MaxPacket >= 1 /\ MaxPacket <= BufferSize
<1>1. BufferSize \in Nat /\ BufferCount \in Nat /\ BufferCount >= 3
    BY RecvBufferAssumption
<1>2. BufferCount - 3 \in Nat /\ BufferSize * (BufferCount - 3) \in Nat
    BY <1>1
<1>3. BufferSize * BufferCount
        = BufferSize * (BufferCount - 3) + BufferSize + BufferSize + BufferSize
    BY <1>1
<1>4. MaxPacket \in Nat /\ MaxPacket >= 1 /\ MaxPacket <= BufferSize
    BY RecvBufferAssumption
<1> QED BY <1>1, <1>2, <1>3, <1>4 DEF Capacity

\* What Clean moves does not overlap with where it goes: less than a buffer
\* is free, so the unread bytes lie two buffers from the front, and they are
\* less than one (RecvBuffer.cpp:25-32).
LEMMA MoveDisjoint ==
    ASSUME NEW w \in Nat, w <= Capacity,
           NEW rest \in 0..MaxPacket - 1, Moves(w - rest, w)
    PROVE  rest <= w - rest
<1>1. Capacity - w < BufferSize
    BY DEF Moves
<1>2. rest \in Nat /\ rest < MaxPacket
    BY CapacityBound
<1> QED BY <1>1, <1>2, CapacityBound

\* Cursors that are in order and in the buffer move without an overlap.
LEMMA OrderedMovesApart == CursorsOrdered => MovesApart
    BY MoveDisjoint DEF CursorsOrdered, MovesApart

\* The cursors start in order, with a whole buffer free.
LEMMA CursorStart == CursorInit => CursorsOrdered /\ RoomToReceive
  <1> SUFFICES ASSUME CursorInit PROVE CursorsOrdered /\ RoomToReceive
      OBVIOUS
  <1>1. readPos = 0 /\ writePos = 0 /\ processing = FALSE
      BY DEF CursorInit
  <1>2. CursorsOrdered
      <2>1. processing \in BOOLEAN
          BY <1>1
      <2>2. /\ readPos \in Nat /\ writePos \in Nat
            /\ readPos <= writePos /\ writePos <= Capacity
          BY <1>1, CapacityBound
      <2> QED BY <2>1, <2>2, Zenon DEF CursorsOrdered
  <1>3. DataSize = 0 /\ FreeSize = Capacity
      BY <1>1, CapacityBound DEF DataSize, FreeSize
  <1>4. RoomToReceive
      BY <1>3, CapacityBound DEF RoomToReceive
  <1> QED BY <1>2, <1>4

\* Every step of the cursors keeps it so.
LEMMA CursorStep ==
  CursorsOrdered /\ RoomToReceive /\ [CursorNext]_cursors => (CursorsOrdered /\ RoomToReceive)'
  <1> SUFFICES ASSUME CursorsOrdered, RoomToReceive, [CursorNext]_cursors
               PROVE  CursorsOrdered' /\ RoomToReceive'
      OBVIOUS
  <1>0. /\ readPos \in Nat /\ writePos \in Nat /\ processing \in BOOLEAN
        /\ readPos <= writePos /\ writePos <= Capacity
      BY DEF CursorsOrdered
  <1>a. Capacity' = Capacity
      BY DEF Capacity
  <1>1. ASSUME NEW n \in 1..FreeSize, OnWrite(n)
        PROVE  CursorsOrdered' /\ RoomToReceive'
      <2>1. /\ writePos' = writePos + n /\ readPos' = readPos
            /\ processing' = TRUE /\ n \in Nat /\ n <= Capacity - writePos
          BY <1>1, <1>0, CapacityBound DEF OnWrite, FreeSize
      <2>2. CursorsOrdered'
          BY <1>a, <2>1, <1>0, CapacityBound DEF CursorsOrdered
      <2>3. RoomToReceive'
          BY <2>1 DEF RoomToReceive
      <2> QED BY <2>2, <2>3
  <1>2. ASSUME NEW n \in 0..DataSize, DataSize - n < MaxPacket, OnRead(n)
        PROVE  CursorsOrdered' /\ RoomToReceive'
      <2> DEFINE r == readPos + n
      <2>1. r \in Nat /\ r <= writePos /\ writePos - r < MaxPacket
          BY <1>2, <1>0 DEF DataSize
      <2>2. Clean(r, writePos) /\ processing' = FALSE
          BY <1>2 DEF OnRead
      <2> HIDE DEF r
      <2>3. CASE Rewinds(r, writePos) \/ Moves(r, writePos)
          <3>1. readPos' = 0 /\ writePos' = writePos - r
              BY <2>2, <2>3 DEF Clean
          <3>2. writePos' \in Nat /\ writePos' < MaxPacket
              BY <3>1, <2>1, <1>0, CapacityBound
          <3>3. CursorsOrdered'
              <4>1. processing' \in BOOLEAN
                  BY <2>2
              <4>2. /\ readPos' \in Nat /\ writePos' \in Nat
                    /\ readPos' <= writePos' /\ writePos' <= Capacity'
                  BY <1>a, <3>1, <3>2, CapacityBound
              <4> QED BY <4>1, <4>2, Zenon DEF CursorsOrdered
          <3>4. RoomToReceive'
              BY <1>a, <3>1, <3>2, CapacityBound
              DEF RoomToReceive, DataSize, FreeSize
          <3> QED BY <3>3, <3>4
      <2>4. CASE ~Rewinds(r, writePos) /\ ~Moves(r, writePos)
          <3>1. readPos' = r /\ writePos' = writePos
              BY <2>2, <2>4 DEF Clean
          <3>2. Capacity - writePos >= BufferSize
              BY <2>4, <1>0, CapacityBound DEF Rewinds, Moves
          <3>3. CursorsOrdered'
              BY <1>a, <3>1, <2>1, <2>2, <1>0 DEF CursorsOrdered
          <3>4. RoomToReceive'
              BY <1>a, <3>1, <3>2, <2>1, CapacityBound
              DEF RoomToReceive, DataSize, FreeSize
          <3> QED BY <3>3, <3>4
      <2> QED BY <2>3, <2>4
  <1>3. CASE UNCHANGED cursors
      <2>1. readPos' = readPos /\ writePos' = writePos /\ processing' = processing
          BY <1>3 DEF cursors
      <2>2. CursorsOrdered'
          BY <1>a, <2>1, <1>0 DEF CursorsOrdered
      <2>3. RoomToReceive'
          BY <1>a, <2>1 DEF RoomToReceive, DataSize, FreeSize
      <2> QED BY <2>2, <2>3
  <1> QED BY <1>1, <1>2, <1>3 DEF CursorNext

\* What the run checks of the cursors follows.
LEMMA CursorSafe == CursorsOrdered /\ RoomToReceive => CursorInv
  BY OrderedMovesApart DEF CursorInv

\* The cursors stay ordered and inside the buffer, a whole buffer is free
\* whenever a receive is posted, and memcpy never overlaps (Session.cpp:236,
\* RecvBuffer.cpp:18-54), however the bytes arrive and are read.
THEOREM CursorSafety == CursorSpec => []CursorInv
  BY CursorStart, CursorStep, CursorSafe, PTL DEF CursorSpec

-----------------------------------------------------------------------------
(* Parts of a sequence.                                                    *)

\* The entries of m after r up to w.
LEMMA Window ==
  ASSUME NEW S, NEW n \in Nat, NEW m \in [1..n -> S], NEW r \in Nat, NEW w \in Nat,
         r <= w, w <= n
  PROVE  /\ SubSeq(m, r + 1, w) \in Seq(S) /\ Len(SubSeq(m, r + 1, w)) = w - r
         /\ \A i \in 1..w - r : r + i \in 1..n /\ SubSeq(m, r + 1, w)[i] = m[r + i]
  <1> DEFINE d == SubSeq(m, r + 1, w)
  <1>1. \A i \in r + 1..w : m[i] \in S
    OBVIOUS
  <1>2. r + 1 \in Int /\ w \in Int
    OBVIOUS
  <1>3. /\ d \in Seq(S) /\ Len(d) = IF r + 1 <= w THEN w - (r + 1) + 1 ELSE 0
        /\ \A i \in 1..w - (r + 1) + 1 : d[i] = m[(r + 1) + i - 1]
    BY <1>1, <1>2, SubSeqProperties
  <1> HIDE DEF d
  <1>4. Len(d) = w - r
    BY <1>3
  <1>5. ASSUME NEW i \in 1..w - r PROVE r + i \in 1..n /\ d[i] = m[r + i]
    <2>1. i \in 1..w - (r + 1) + 1 /\ (r + 1) + i - 1 = r + i /\ r + i \in 1..n
      OBVIOUS
    <2> QED BY <2>1, <1>3
  <1> QED BY <1>3, <1>4, <1>5 DEF d

\* A sequence is its first n elements and the rest.
LEMMA SplitAt ==
  ASSUME NEW S, NEW s \in Seq(S), NEW n \in 0..Len(s)
  PROVE  /\ SubSeq(s, 1, n) \in Seq(S) /\ Len(SubSeq(s, 1, n)) = n
         /\ \A i \in 1..n : SubSeq(s, 1, n)[i] = s[i]
         /\ SubSeq(s, n + 1, Len(s)) \in Seq(S) /\ Len(SubSeq(s, n + 1, Len(s))) = Len(s) - n
         /\ \A i \in 1..Len(s) - n : SubSeq(s, n + 1, Len(s))[i] = s[n + i]
         /\ SubSeq(s, 1, n) \o SubSeq(s, n + 1, Len(s)) = s
  <1>0. Len(s) \in Nat /\ s \in [1..Len(s) -> S] /\ n \in Nat /\ n <= Len(s) /\ 0 <= n
    BY LenProperties
  <1>1. /\ SubSeq(s, 0 + 1, n) \in Seq(S) /\ Len(SubSeq(s, 0 + 1, n)) = n - 0
        /\ \A i \in 1..n - 0 : SubSeq(s, 0 + 1, n)[i] = s[0 + i]
    BY <1>0, Window
  <1>2. 0 + 1 = 1 /\ n - 0 = n /\ \A i \in 1..n : 0 + i = i
    BY <1>0
  <1>3. /\ SubSeq(s, n + 1, Len(s)) \in Seq(S) /\ Len(SubSeq(s, n + 1, Len(s))) = Len(s) - n
        /\ \A i \in 1..Len(s) - n : SubSeq(s, n + 1, Len(s))[i] = s[n + i]
    <2> DEFINE l == Len(s)
    <2>1. l \in Nat /\ s \in [1..l -> S] /\ n \in Nat /\ n <= l /\ l <= l
      BY <1>0
    <2> HIDE DEF l
    <2>2. /\ SubSeq(s, n + 1, l) \in Seq(S) /\ Len(SubSeq(s, n + 1, l)) = l - n
          /\ \A i \in 1..l - n : n + i \in 1..l /\ SubSeq(s, n + 1, l)[i] = s[n + i]
      BY <2>1, Window
    <2> QED BY <2>2 DEF l
  <1>4. 1 \in 1..Len(s) + 1 /\ n \in 1 - 1..Len(s) /\ Len(s) \in n..Len(s)
    <2>1. \A l \in Nat : \A k \in 0..l : 1 \in 1..l + 1 /\ k \in 1 - 1..l /\ l \in k..l
      OBVIOUS
    <2> QED BY <2>1, <1>0, Zenon
  <1>5. SubSeq(s, 1, n) \o SubSeq(s, n + 1, Len(s)) = SubSeq(s, 1, Len(s))
    BY <1>4, ConcatAdjacentSubSeq
  <1>6. SubSeq(s, 1, Len(s)) = s
    BY SubSeqFull
  <1>7. /\ SubSeq(s, 1, n) \in Seq(S) /\ Len(SubSeq(s, 1, n)) = n
        /\ \A i \in 1..n : SubSeq(s, 1, n)[i] = s[i]
    BY <1>1, <1>2
  <1> QED BY <1>3, <1>5, <1>6, <1>7

\* What is cut from the front of a concatenation is cut from its first part.
LEMMA CutFront ==
  ASSUME NEW S, NEW s \in Seq(S), NEW t \in Seq(S), NEW n \in 0..Len(s)
  PROVE  SubSeq(s \o t, n + 1, Len(s \o t)) = SubSeq(s, n + 1, Len(s)) \o t
  <1> DEFINE a == SubSeq(s, n + 1, Len(s))
             u == s \o t
             b == SubSeq(u, n + 1, Len(u))
             c == a \o t
  <1>0. Len(s) \in Nat /\ Len(t) \in Nat /\ n \in Nat /\ n <= Len(s)
    BY LenProperties
  <1>1. /\ u \in Seq(S) /\ Len(u) = Len(s) + Len(t)
        /\ \A i \in 1..Len(s) + Len(t) : u[i] = IF i <= Len(s) THEN s[i] ELSE t[i - Len(s)]
    BY ConcatProperties
  <1>2. a \in Seq(S) /\ Len(a) = Len(s) - n /\ \A i \in 1..Len(s) - n : a[i] = s[n + i]
    BY SplitAt
  <1> HIDE DEF u, a
  <1>3. /\ c \in Seq(S) /\ Len(c) = Len(a) + Len(t)
        /\ \A i \in 1..Len(a) + Len(t) : c[i] = IF i <= Len(a) THEN a[i] ELSE t[i - Len(a)]
    BY <1>2, ConcatProperties
  <1>4. n \in 0..Len(u)
    BY <1>0, <1>1
  <1>5. b \in Seq(S) /\ Len(b) = Len(u) - n /\ \A i \in 1..Len(u) - n : b[i] = u[n + i]
    BY <1>1, <1>4, SplitAt
  <1> HIDE DEF b, c
  <1>6. Len(b) = Len(c)
    BY <1>0, <1>1, <1>2, <1>3, <1>5
  <1>7. ASSUME NEW i \in 1..Len(b) PROVE b[i] = c[i]
    <2>1. i \in 1..Len(u) - n /\ i \in 1..Len(a) + Len(t) /\ n + i \in 1..Len(s) + Len(t)
      BY <1>0, <1>1, <1>2, <1>5
    <2>2. CASE i <= Len(s) - n
      <3>1. n + i <= Len(s) /\ i <= Len(a) /\ i \in 1..Len(s) - n
        BY <2>1, <2>2, <1>0, <1>2
      <3> QED BY <2>1, <3>1, <1>1, <1>2, <1>3, <1>5
    <2>3. CASE ~(i <= Len(s) - n)
      <3>1. ~(n + i <= Len(s)) /\ ~(i <= Len(a)) /\ (n + i) - Len(s) = i - Len(a)
        BY <2>1, <2>3, <1>0, <1>2
      <3> QED BY <2>1, <3>1, <1>1, <1>3, <1>5
    <2> QED BY <2>2, <2>3
  <1>8. b = c
    BY <1>3, <1>5, <1>6, <1>7, SeqEqual
  <1> QED BY <1>8 DEF a, b, c, u

-----------------------------------------------------------------------------
(* The receiver.                                                           *)

\* A message that can be given to a handler.
Message == UNION {[id : {i}, msg : MsgOf(i)] : i \in PacketIds}

\* The types on the receiver's side; the cursors in order.
ReceiverType ==
  /\ CursorsOrdered /\ RoomToReceive
  /\ processLen \in Nat /\ processLen <= DataSize
  /\ (processing = FALSE => processLen = 0)
  /\ wire \in Seq(Nat)
  /\ recvMemory \in [1..Capacity -> Nat]
  /\ handled \in Seq(Message)

\* The bytes on their way are packets, each one of the plan.
Sendable(r) == {AsHandled(p) : p \in Planned(r)}
InStream == \E ps \in Seq(Sendable(receiver)) : Framed(Underway, ps)

\* The inductive invariant.
PipeIInv == SenderInv /\ ReceiverType /\ InStream

\* Planned packets are packets.
LEMMA SendableFrames ==
  ASSUME NEW r \in Receivers
  PROVE  Sendable(r) \subseteq Frames /\ Seq(Sendable(r)) \subseteq Seq(Frames)
  <1>1. Sendable(r) \subseteq Frames
    BY PlannedPacket DEF Sendable
  <1> QED BY <1>1, SeqMonotonic

\* The unread bytes, one by one.
LEMMA UnreadType ==
  ASSUME ReceiverType
  PROVE  /\ Unread \in Seq(Nat) /\ Len(Unread) = DataSize - processLen
         /\ \A i \in 1..DataSize - processLen :
              /\ readPos + processLen + i \in 1..Capacity
              /\ Unread[i] = recvMemory[readPos + processLen + i]
  <1> DEFINE r == readPos + processLen
  <1>1. /\ readPos \in Nat /\ writePos \in Nat /\ processLen \in Nat
        /\ readPos <= writePos /\ writePos <= Capacity /\ processLen <= writePos - readPos
    BY DEF ReceiverType, CursorsOrdered, DataSize
  <1>2. r \in Nat /\ r <= writePos /\ writePos - r = DataSize - processLen
    BY <1>1 DEF DataSize
  <1>3. Capacity \in Nat /\ recvMemory \in [1..Capacity -> Nat]
    BY CapacityBound DEF ReceiverType
  <1>4. Unread = SubSeq(recvMemory, r + 1, writePos)
    BY DEF Unread
  <1> HIDE DEF r
  <1>5. /\ SubSeq(recvMemory, r + 1, writePos) \in Seq(Nat)
        /\ Len(SubSeq(recvMemory, r + 1, writePos)) = writePos - r
        /\ \A i \in 1..writePos - r :
             r + i \in 1..Capacity /\ SubSeq(recvMemory, r + 1, writePos)[i] = recvMemory[r + i]
    BY <1>1, <1>2, <1>3, Window
  <1> QED BY <1>2, <1>4, <1>5 DEF r

\* What is underway: what was received and is not read, the stream, and the
\* queues of the sender.
LEMMA UnderwayType ==
  ASSUME SenderInv, ReceiverType
  PROVE  /\ Unread \in Seq(Nat) /\ wire \in Seq(Nat)
         /\ Bytes(sending) \in Seq(Nat) /\ Bytes(sendQueue) \in Seq(Nat)
         /\ Unread \o wire \in Seq(Nat) /\ Bytes(sending) \o Bytes(sendQueue) \in Seq(Nat)
         /\ Underway \in Seq(Nat)
         /\ Underway = (Unread \o wire) \o (Bytes(sending) \o Bytes(sendQueue))
         /\ wire \o Bytes(sending) \o Bytes(sendQueue) \in Seq(Nat)
         /\ Underway = Unread \o (wire \o Bytes(sending) \o Bytes(sendQueue))
  <1> DEFINE u == Unread
             w == wire
             s == Bytes(sending)
             q == Bytes(sendQueue)
  <1>1. u \in Seq(Nat) /\ w \in Seq(Nat) /\ s \in Seq(Nat) /\ q \in Seq(Nat)
    BY UnreadType, QueueBytes DEF ReceiverType
  <1>2. Underway = u \o w \o s \o q
    BY DEF Underway
  <1> HIDE DEF u, w, s, q
  <1>3. u \o w \in Seq(Nat) /\ s \o q \in Seq(Nat) /\ w \o s \in Seq(Nat)
    BY <1>1, ConcatType, Zenon
  <1>4. w \o s \o q \in Seq(Nat)
    BY <1>1, <1>3, ConcatType, Zenon
  <1> DEFINE x == u \o w
             y == s \o q
  <1>x. x \in Seq(Nat) /\ y \in Seq(Nat)
    BY <1>3
  <1> HIDE DEF x, y
  <1>a. (x \o s) \o q = x \o (s \o q)
    <2>1. x \in Seq(Nat) /\ s \in Seq(Nat) /\ q \in Seq(Nat)
      BY <1>1, <1>x
    <2> QED BY <2>1, Associative, Zenon
  <1>b. (u \o w) \o y = u \o (w \o y)
    <2>1. u \in Seq(Nat) /\ w \in Seq(Nat) /\ y \in Seq(Nat)
      BY <1>1, <1>x
    <2> QED BY <2>1, Associative, Zenon
  <1>5. u \o w \o s \o q = (u \o w) \o (s \o q)
    BY <1>a DEF x
  <1>6. (u \o w) \o (s \o q) \in Seq(Nat)
    BY <1>3, ConcatType, Zenon
  <1>7. (u \o w) \o (s \o q) = u \o (w \o (s \o q))
    BY <1>b DEF y
  <1>8. (w \o s) \o q = w \o (s \o q)
    BY <1>1, Associative, Zenon
  <1> QED BY <1>1, <1>2, <1>3, <1>4, <1>5, <1>6, <1>7, <1>8 DEF u, w, s, q

-----------------------------------------------------------------------------
(* ProcessRecv.                                                            *)

\* A receive returns no more than is free and has arrived.
LEMMA AvailableIs ==
  ASSUME ReceiverType
  PROVE  /\ Available \in Nat /\ Available <= FreeSize /\ Available <= Len(wire)
         /\ FreeSize \in Nat /\ Len(wire) \in Nat
  <1> DEFINE x == FreeSize
             y == Len(wire)
             m == IF x <= y THEN x ELSE y
  <1>1. x \in Nat /\ y \in Nat
    <2>1. writePos \in Nat /\ writePos <= Capacity /\ Capacity \in Nat /\ wire \in Seq(Nat)
      BY CapacityBound DEF ReceiverType, CursorsOrdered
    <2> QED BY <2>1, LenProperties DEF FreeSize
  <1> HIDE DEF x, y
  <1>2. m \in {x, y} /\ \A z \in {x, y} : m <= z
    BY <1>1
  <1> HIDE DEF m
  <1>3. Min({x, y}) \in {x, y} /\ \A z \in {x, y} : Min({x, y}) <= z
    BY <1>2 DEF Min
  <1>4. Available = Min({x, y})
    BY DEF Available, x, y
  <1> QED BY <1>1, <1>3, <1>4 DEF x, y

\* The bytes go from the stream to the end of the unread ones.
LEMMA RecvBytes ==
  ASSUME ReceiverType, NEW n \in 1..Available, ProcessRecv(n)
  PROVE  /\ recvMemory' \in [1..Capacity -> Nat] /\ wire' \in Seq(Nat)
         /\ (Unread \o wire)' = Unread \o wire
  <1> DEFINE l == Len(wire)
             m == recvMemory
             first == SubSeq(wire, 1, n)
             rest == SubSeq(wire, n + 1, l)
  <1>1. /\ n \in Nat /\ n \in 0..l /\ l \in Nat /\ n <= Capacity - writePos
        /\ wire \in Seq(Nat) /\ Capacity \in Nat /\ n >= 1
    <2>1. /\ Available \in Nat /\ Available <= FreeSize /\ Available <= l
          /\ FreeSize \in Nat /\ l \in Nat
      BY AvailableIs
    <2>2. n \in Nat /\ n \in 0..l /\ n <= FreeSize /\ n >= 1
      <3>1. n \in 1..Available
        OBVIOUS
      <3> HIDE DEF l
      <3> QED BY <2>1, <3>1
    <2> QED BY <2>1, <2>2, CapacityBound DEF ReceiverType, FreeSize
  <1>2. /\ processing = FALSE /\ readPos' = readPos /\ writePos' = writePos + n
        /\ processLen' = processLen /\ wire' = rest
        /\ m' = [i \in 1..Capacity |-> IF i - writePos \in 1..n THEN wire[i - writePos] ELSE m[i]]
    BY DEF ProcessRecv, OnWrite, ReceiverType, CursorsOrdered
  <1>3. /\ readPos \in Nat /\ writePos \in Nat /\ readPos <= writePos /\ writePos <= Capacity
        /\ processLen = 0 /\ m \in [1..Capacity -> Nat]
    BY <1>2 DEF ReceiverType, CursorsOrdered
  <1>4. /\ first \in Seq(Nat) /\ Len(first) = n /\ (\A i \in 1..n : first[i] = wire[i])
        /\ rest \in Seq(Nat) /\ first \o rest = wire
    BY <1>1, SplitAt
  <1> HIDE DEF l, first, rest
  <1>5. \A i \in 1..n : wire[i] \in Nat
    <2> TAKE i \in 1..n
    <2>1. i \in 1..Len(wire)
      BY <1>1 DEF l
    <2> QED BY <1>1, <2>1, ElementOfSeq
  <1>6. m' \in [1..Capacity -> Nat]
    BY <1>2, <1>3, <1>5
  <1> DEFINE u == SubSeq(m, readPos + 1, writePos)
             v == SubSeq(m', readPos + 1, writePos + n)
  <1>7. /\ u \in Seq(Nat) /\ Len(u) = writePos - readPos
        /\ \A i \in 1..writePos - readPos : readPos + i \in 1..Capacity /\ u[i] = m[readPos + i]
    BY <1>1, <1>3, Window
  <1>8. /\ v \in Seq(Nat) /\ Len(v) = (writePos + n) - readPos
        /\ \A i \in 1..(writePos + n) - readPos :
             readPos + i \in 1..Capacity /\ v[i] = m'[readPos + i]
    <2>1. writePos + n \in Nat /\ readPos <= writePos + n /\ writePos + n <= Capacity
      BY <1>1, <1>3
    <2> QED BY <1>1, <1>3, <1>6, <2>1, Window
  <1>9. Unread = u /\ Unread' = v
    <2>1. readPos + processLen + 1 = readPos + 1
      BY <1>3
    <2> QED BY <2>1, <1>2 DEF Unread
  <1> HIDE DEF u, v
  <1> DEFINE c == u \o first
  <1>10. /\ c \in Seq(Nat) /\ Len(c) = Len(u) + n
         /\ \A i \in 1..Len(u) + n : c[i] = IF i <= Len(u) THEN u[i] ELSE first[i - Len(u)]
    BY <1>4, <1>7, ConcatProperties
  <1> HIDE DEF c
  <1>11. Len(v) = Len(c)
    BY <1>1, <1>3, <1>7, <1>8, <1>10
  <1>12. ASSUME NEW i \in 1..Len(v) PROVE v[i] = c[i]
    <2>1. /\ i \in 1..(writePos + n) - readPos /\ i \in 1..Len(u) + n
          /\ readPos + i \in 1..Capacity /\ v[i] = m'[readPos + i]
      BY <1>8, <1>10, <1>11
    <2>2. CASE i <= writePos - readPos
      <3>1. i \in 1..writePos - readPos /\ i <= Len(u) /\ ~((readPos + i) - writePos \in 1..n)
        BY <2>1, <2>2, <1>3, <1>7
      <3>2. m'[readPos + i] = m[readPos + i]
        BY <2>1, <3>1, <1>2
      <3>3. c[i] = u[i] /\ u[i] = m[readPos + i]
        BY <2>1, <3>1, <1>7, <1>10
      <3> QED BY <2>1, <3>2, <3>3
    <2>3. CASE ~(i <= writePos - readPos)
      <3>1. /\ ~(i <= Len(u)) /\ (readPos + i) - writePos \in 1..n
            /\ (readPos + i) - writePos = i - Len(u)
        <4>1. Len(u) = writePos - readPos /\ i > writePos - readPos /\ i <= (writePos + n) - readPos
              /\ i \in Nat /\ n \in Nat /\ readPos \in Nat /\ writePos \in Nat /\ readPos <= writePos
          BY <2>1, <2>3, <1>1, <1>3, <1>7
        <4> QED BY <4>1
      <3>2. m'[readPos + i] = wire[i - Len(u)]
        BY <2>1, <3>1, <1>2
      <3>3. c[i] = first[i - Len(u)] /\ first[i - Len(u)] = wire[i - Len(u)]
        BY <2>1, <3>1, <1>4, <1>10
      <3> QED BY <2>1, <3>2, <3>3
    <2> QED BY <2>2, <2>3
  <1>13. v = c
    BY <1>8, <1>10, <1>11, <1>12, SeqEqual
  <1>14. (u \o first) \o rest = u \o (first \o rest)
    BY <1>4, <1>7, Associative, Zenon
  <1>15. v \o rest = u \o wire
    BY <1>4, <1>13, <1>14 DEF c
  <1> QED BY <1>2, <1>4, <1>6, <1>9, <1>15

\* ProcessRecv is a step of the cursors and leaves what is underway.
LEMMA RecvStep ==
  ASSUME ReceiverType, NEW n \in 1..Available, ProcessRecv(n)
  PROVE  /\ CursorNext /\ ReceiverType' /\ (Unread \o wire)' = Unread \o wire
         /\ handled' = handled
  <1>1. n \in 1..FreeSize
    BY AvailableIs
  <1>2. OnWrite(n) /\ processLen' = processLen /\ handled' = handled
    BY DEF ProcessRecv
  <1>3. CursorNext
    BY <1>1, <1>2 DEF CursorNext
  <1>4. CursorsOrdered' /\ RoomToReceive'
    BY <1>3, CursorStep DEF ReceiverType
  <1>5. /\ recvMemory' \in [1..Capacity -> Nat] /\ wire' \in Seq(Nat)
        /\ (Unread \o wire)' = Unread \o wire
    BY RecvBytes
  <1>6. Capacity' = Capacity
    BY DEF Capacity
  <1>7. processing' = TRUE /\ processing = FALSE
    BY <1>2 DEF OnWrite, ReceiverType, CursorsOrdered
  <1>8. processLen' \in Nat /\ processLen' <= DataSize'
    <2>1. processLen' = 0
      BY <1>2, <1>7 DEF ReceiverType
    <2>2. /\ readPos' \in Nat /\ writePos' \in Nat /\ readPos' <= writePos'
      BY <1>4 DEF CursorsOrdered
    <2>3. DataSize' = writePos' - readPos'
      BY DEF DataSize
    <2>4. \A a, b \in Nat : a <= b => 0 <= b - a
      OBVIOUS
    <2>5. 0 <= DataSize'
      BY <2>2, <2>3, <2>4, Zenon
    <2> QED BY <2>1, <2>5
  <1>9. handled' \in Seq(Message)
    BY <1>2 DEF ReceiverType
  <1> QED BY <1>2, <1>3, <1>4, <1>5, <1>6, <1>7, <1>8, <1>9 DEF ReceiverType

-----------------------------------------------------------------------------
(* OnRecvPacket.                                                           *)

\* A planned packet is accepted exactly when its receiver has a message for
\* it, and that message has its bytes.
LEMMA ParsedMessage ==
  ASSUME NEW r \in Receivers, NEW q \in Sendable(r)
  PROVE  LET parsed == Parses(r, q.id, q.bytes)
             m == [id |-> q.id, msg |-> parsed[1]]
         IN /\ Accepted(q) <=> parsed # <<>>
            /\ parsed # <<>> => m \in Message /\ AsHandled(m) = q
  <1>1. PICK p \in Planned(r) : q = [id |-> p.id, bytes |-> Serialize(p)]
    BY DEF Sendable, AsHandled
  <1>2. CanBeSent(r, p) /\ ParsesBack(r, p)
    BY PlanFacts
  <1>3. q.id = p.id /\ q.bytes = Serialize(p) /\ p.id \in SentTo(r)
    BY <1>1, <1>2 DEF CanBeSent
  <1> DEFINE parsed == Parses(r, q.id, q.bytes)
             m == [id |-> q.id, msg |-> parsed[1]]
  <1>4. Accepted(q) <=> parsed # <<>>
    <2>1. CASE r = "server"
      <3>1. q.id \in {1000, 1002, 1004}
        BY <1>3, <2>1 DEF SentTo
      <3>2. ClientParses(q.id, q.bytes) = <<>>
        <4>1. q.id # 1001 /\ q.id # 1003 /\ q.id # 1005
          BY <3>1
        <4> QED BY <4>1 DEF ClientParses
      <3>3. parsed = ServerParses(q.id, q.bytes)
        BY <2>1 DEF Parses
      <3> QED BY <3>2, <3>3 DEF Accepted
    <2>2. CASE r = "client"
      <3>1. q.id \in {1001, 1003, 1005}
        BY <1>3, <2>2 DEF SentTo
      <3>2. ServerParses(q.id, q.bytes) = <<>>
        <4>1. q.id # 1000 /\ q.id # 1002 /\ q.id # 1004
          BY <3>1
        <4> QED BY <4>1 DEF ServerParses
      <3>3. parsed = ClientParses(q.id, q.bytes)
        BY <2>2 DEF Parses
      <3> QED BY <3>2, <3>3 DEF Accepted
    <2> QED BY <2>1, <2>2 DEF Receivers
  <1>5. ASSUME parsed # <<>> PROVE m \in Message /\ AsHandled(m) = q
    <2>1. parsed = Parses(r, p.id, Serialize(p))
      BY <1>3
    <2>2. /\ parsed[1] \in MsgOf(p.id)
          /\ Serialize([id |-> p.id, msg |-> parsed[1]]) = Serialize(p)
      BY <1>2, <1>5, <2>1 DEF ParsesBack
    <2>3. m = [id |-> p.id, msg |-> parsed[1]]
      BY <1>3
    <2> HIDE DEF parsed, m
    <2>4. p.id \in PacketIds
      BY <1>3 DEF SentTo, PacketIds
    <2>5. m \in [id : {p.id}, msg : MsgOf(p.id)]
      BY <2>2, <2>3
    <2>6. m \in Message
      BY <2>4, <2>5 DEF Message
    <2>7. m.id = p.id /\ Serialize(m) = Serialize(p)
      BY <2>2, <2>3
    <2> QED BY <2>6, <2>7, <1>1 DEF AsHandled
  <1> QED BY <1>4, <1>5

\* The first of the unread bytes are those of the first packet.
LEMMA FirstPacket ==
  ASSUME SenderInv, ReceiverType,
         NEW ps \in Seq(Sendable(receiver)), Framed(Underway, ps), Len(Unread) > 0
  PROVE  /\ ps # <<>> /\ ps \in Seq(Frames)
         /\ Head(ps) \in Sendable(receiver) /\ Head(ps) \in Frames
         /\ FrameSize(Head(ps)) \in Nat /\ FrameSize(Head(ps)) >= 4
         /\ FrameSize(Head(ps)) <= MaxPacket
         /\ \A i \in 1..FrameSize(Head(ps)) :
              i <= Len(Unread) => recvMemory[readPos + processLen + i] = FrameOf(Head(ps))[i]
         /\ Len(Unread) >= 4 => /\ HeaderAt(processLen).size = FrameSize(Head(ps))
                                /\ HeaderAt(processLen).id = Head(ps).id
  <1> DEFINE q == Head(ps)
             u == Unread
             rest == wire \o Bytes(sending) \o Bytes(sendQueue)
             r == readPos + processLen
             n == FrameSize(q)
  <1>1. receiver \in Receivers
    BY DEF SenderInv, SenderType
  <1>2. ps \in Seq(Frames)
    BY <1>1, SendableFrames
  <1>3. /\ u \in Seq(Nat) /\ Len(u) \in Nat
        /\ \A i \in 1..Len(u) : u[i] = recvMemory[r + i]
    <2>1. /\ u \in Seq(Nat) /\ Len(u) = DataSize - processLen
          /\ \A i \in 1..DataSize - processLen : u[i] = recvMemory[r + i]
      BY UnreadType
    <2> HIDE DEF u, r
    <2> QED BY <2>1, LenProperties
  <1>4. Underway \in Seq(Nat) /\ Underway = u \o rest /\ rest \in Seq(Nat)
    BY UnderwayType
  <1>5. Len(u) > 0
    OBVIOUS
  <1> HIDE DEF u, rest
  <1>6. /\ Len(Underway) = Len(u) + Len(rest) /\ Len(rest) \in Nat
        /\ \A i \in 1..Len(u) + Len(rest) :
             Underway[i] = IF i <= Len(u) THEN u[i] ELSE rest[i - Len(u)]
    <2>1. Len(rest) \in Nat
      BY <1>4, LenProperties
    <2> QED BY <2>1, <1>3, <1>4, ConcatProperties
  <1>7. Len(Underway) > 0
    BY <1>3, <1>5, <1>6
  <1>8. ps # <<>>
    BY <1>2, <1>4, <1>7, FramedNone
  <1>9. /\ q \in Frames /\ n \in HeaderSize..Len(Underway)
        /\ \A i \in 1..n : Underway[i] = FrameOf(q)[i]
    BY <1>2, <1>4, <1>8, FramedHead
  <1>10. q \in Sendable(receiver)
    BY <1>8, HeadTailProperties
  <1>11. n <= MaxPacket
    <2>1. PICK p \in Planned(receiver) : q = AsHandled(p)
      BY <1>10 DEF Sendable
    <2> QED BY <1>1, <2>1, PlannedPacket
  <1>12. n \in Nat /\ n >= 4 /\ n <= Len(u) + Len(rest)
    BY <1>3, <1>6, <1>9, FrameType DEF HeaderSize
  <1>f. /\ FrameOf(q)[1] + 256 * FrameOf(q)[2] = n
        /\ FrameOf(q)[3] + 256 * FrameOf(q)[4] = q.id
    BY <1>9, FrameType
  <1> HIDE DEF r, n, q
  <1>13. ASSUME NEW i \in 1..n, i <= Len(u) PROVE recvMemory[r + i] = FrameOf(q)[i]
    <2>1. i \in 1..Len(u) /\ i \in 1..Len(u) + Len(rest)
      BY <1>3, <1>12, <1>13
    <2> QED BY <2>1, <1>3, <1>6, <1>9, <1>13
  <1>14. ASSUME Len(u) >= 4
         PROVE  HeaderAt(processLen).size = n /\ HeaderAt(processLen).id = q.id
    <2>1. r \in Nat
      BY DEF r, ReceiverType, CursorsOrdered
    <2>2. \A i \in {1, 2, 3, 4} : recvMemory[r + i] = FrameOf(q)[i]
      <3> TAKE i \in {1, 2, 3, 4}
      <3>1. i \in 1..n /\ i <= Len(u)
        BY <1>3, <1>12, <1>14
      <3> QED BY <3>1, <1>13
    <2>3. /\ (r + 1) + 1 = r + 2 /\ (r + 1) + 2 = r + 3 /\ (r + 1) + 3 = r + 4
      BY <2>1
    <2>4. HeaderAt(processLen) = HeaderOf(recvMemory, r + 1)
      BY DEF HeaderAt, r
    <2> QED BY <2>2, <2>3, <2>4, <1>f DEF HeaderOf
  <1> QED BY <1>2, <1>8, <1>9, <1>10, <1>11, <1>12, <1>13, <1>14 DEF q, u, r, n

\* The packet OnRecv has assembled is the first one.
LEMMA PacketBytes ==
  ASSUME SenderInv, ReceiverType,
         NEW ps \in Seq(Sendable(receiver)), Framed(Underway, ps), Assembled
  PROVE  LET q == Head(ps)
             from == readPos + processLen
         IN /\ ps # <<>> /\ q \in Sendable(receiver)
            /\ HeaderAt(processLen).size = FrameSize(q) /\ HeaderAt(processLen).id = q.id
            /\ FrameSize(q) \in 1..Len(Unread)
            /\ SubSeq(recvMemory, from + HeaderSize + 1, from + FrameSize(q)) = q.bytes
  <1> DEFINE q == Head(ps)
             r == readPos + processLen
             n == FrameSize(q)
             l == DataSize - processLen
             s == q.bytes
  <1>1. /\ readPos \in Nat /\ writePos \in Nat /\ processLen \in Nat /\ Capacity \in Nat
        /\ readPos <= writePos /\ writePos <= Capacity /\ processLen <= writePos - readPos
        /\ recvMemory \in [1..Capacity -> Nat]
    BY CapacityBound DEF ReceiverType, CursorsOrdered, DataSize
  <1>2. r \in Nat /\ l \in Nat /\ r + l = writePos /\ Len(Unread) = l
    BY <1>1, UnreadType DEF DataSize
  <1>3. l >= 4 /\ l >= HeaderAt(processLen).size
    BY DEF Assembled, HeaderSize
  <1> HIDE DEF l, r, n, q, s
  <1>4. Len(Unread) > 0 /\ Len(Unread) >= 4
    BY <1>2, <1>3
  <1>5. /\ ps # <<>> /\ q \in Sendable(receiver) /\ q \in Frames /\ n \in Nat /\ n >= 4
        /\ \A i \in 1..n : i <= Len(Unread) => recvMemory[r + i] = FrameOf(q)[i]
        /\ HeaderAt(processLen).size = n /\ HeaderAt(processLen).id = q.id
    BY <1>4, FirstPacket DEF q, n, r
  <1>6. n \in 1..Len(Unread) /\ n <= l
    BY <1>2, <1>3, <1>5
  <1>7. s \in Seq(Nat) /\ Len(s) \in Nat /\ n = 4 + Len(s) /\ \A i \in 1..Len(s) : FrameOf(q)[4 + i] = s[i]
    BY <1>5, FrameType, LenProperties DEF Frames, FrameSize, HeaderSize, n, s
  <1> DEFINE d == SubSeq(recvMemory, (r + 4) + 1, r + n)
  <1>8. /\ d \in Seq(Nat) /\ Len(d) = (r + n) - (r + 4)
        /\ \A i \in 1..(r + n) - (r + 4) : d[i] = recvMemory[(r + 4) + i]
    <2> DEFINE a == r + 4
               z == r + n
    <2>1. a \in Nat /\ z \in Nat /\ a <= z /\ z <= Capacity
      BY <1>1, <1>2, <1>5, <1>6
    <2> HIDE DEF a, z
    <2>2. /\ SubSeq(recvMemory, a + 1, z) \in Seq(Nat) /\ Len(SubSeq(recvMemory, a + 1, z)) = z - a
          /\ \A i \in 1..z - a : SubSeq(recvMemory, a + 1, z)[i] = recvMemory[a + i]
      BY <2>1, <1>1, Window
    <2> QED BY <2>2 DEF a, z
  <1> HIDE DEF d
  <1>9. Len(d) = Len(s)
    BY <1>2, <1>7, <1>8
  <1>10. ASSUME NEW i \in 1..Len(d) PROVE d[i] = s[i]
    <2>1. /\ i \in 1..(r + n) - (r + 4) /\ (r + 4) + i = r + (4 + i)
          /\ 4 + i \in 1..n /\ i \in 1..Len(s)
      BY <1>2, <1>7, <1>9
    <2>2. 4 + i <= Len(Unread)
      BY <2>1, <1>2, <1>5, <1>6
    <2> QED BY <2>1, <2>2, <1>5, <1>7, <1>8
  <1>11. d = s
    BY <1>7, <1>8, <1>9, <1>10, SeqEqual
  <1>12. SubSeq(recvMemory, r + HeaderSize + 1, r + n) = s
    BY <1>11 DEF d, HeaderSize
  <1> QED BY <1>5, <1>6, <1>12 DEF q, r, n, s

\* What is left is underway still.
LEMMA PacketLeaves ==
  ASSUME SenderInv, ReceiverType, NEW n \in 0..Len(Unread), processLen' = processLen + n,
         UNCHANGED <<readPos, writePos, recvMemory, wire, sending, sendQueue, memory>>
  PROVE  /\ Underway' = SubSeq(Underway, n + 1, Len(Underway))
         /\ processLen' \in Nat /\ processLen' <= DataSize
  <1> DEFINE r == readPos + processLen
             l == DataSize - processLen
             u == Unread
             v == SubSeq(recvMemory, (r + n) + 1, writePos)
             cut == SubSeq(u, n + 1, Len(u))
             rest == wire \o Bytes(sending) \o Bytes(sendQueue)
  <1>1. /\ readPos \in Nat /\ writePos \in Nat /\ processLen \in Nat /\ Capacity \in Nat
        /\ readPos <= writePos /\ writePos <= Capacity /\ processLen <= writePos - readPos
        /\ recvMemory \in [1..Capacity -> Nat]
    BY CapacityBound DEF ReceiverType, CursorsOrdered, DataSize
  <1>2. r \in Nat /\ l \in Nat /\ r + l = writePos
    BY <1>1 DEF DataSize
  <1>3. /\ u \in Seq(Nat) /\ Len(u) = l /\ \A i \in 1..l : u[i] = recvMemory[r + i]
    BY UnreadType
  <1>4. rest \in Seq(Nat) /\ Underway = u \o rest
    BY UnderwayType
  <1>5. Unread' = v
    <2>1. readPos + (processLen + n) + 1 = (r + n) + 1
      BY <1>1
    <2> QED BY <2>1 DEF Unread
  <1>n. n \in 0..Len(u) /\ processLen' = processLen + n
    OBVIOUS
  <1>6. (wire \o Bytes(sending) \o Bytes(sendQueue))' = rest
    BY DEF Bytes, BytesOf
  <1>7. Underway' = Unread' \o (wire \o Bytes(sending) \o Bytes(sendQueue))'
    <2> DEFINE w == Unread'
               a == wire'
               b == Bytes(sending)'
               c == Bytes(sendQueue)'
    <2>1. a \in Seq(Nat) /\ b \in Seq(Nat) /\ c \in Seq(Nat)
      <3>1. wire' = wire /\ Bytes(sending)' = Bytes(sending) /\ Bytes(sendQueue)' = Bytes(sendQueue)
        BY DEF Bytes, BytesOf
      <3> QED BY <3>1, UnderwayType
    <2>2. w \in Seq(Nat)
      <3>1. r + n \in Nat /\ r + n <= writePos
        BY <1>1, <1>2, <1>3
      <3> QED BY <3>1, <1>1, <1>5, Window
    <2>3. Underway' = w \o a \o b \o c
      BY DEF Underway
    <2> HIDE DEF w, a, b, c
    <2>4. a \o b \in Seq(Nat)
      BY <2>1, ConcatProperties
    <2>5. w \o a \o b \o c = w \o (a \o b \o c)
      <3>1. (w \o a) \o b = w \o (a \o b)
        BY <2>1, <2>2, Associative, Zenon
      <3>2. (w \o (a \o b)) \o c = w \o ((a \o b) \o c)
        BY <2>1, <2>2, <2>4, Associative, Zenon
      <3> QED BY <3>1, <3>2
    <2> QED BY <2>3, <2>5 DEF w, a, b, c
  <1> HIDE DEF r, l, u, rest
  <1>8. /\ v \in Seq(Nat) /\ Len(v) = writePos - (r + n)
        /\ \A i \in 1..writePos - (r + n) : v[i] = recvMemory[(r + n) + i]
    <2> DEFINE a == r + n
    <2>1. a \in Nat /\ a <= writePos
      BY <1>1, <1>2, <1>3, <1>n
    <2> HIDE DEF a
    <2>2. /\ SubSeq(recvMemory, a + 1, writePos) \in Seq(Nat)
          /\ Len(SubSeq(recvMemory, a + 1, writePos)) = writePos - a
          /\ \A i \in 1..writePos - a :
               SubSeq(recvMemory, a + 1, writePos)[i] = recvMemory[a + i]
      BY <2>1, <1>1, Window
    <2> QED BY <2>2 DEF a
  <1>9. cut \in Seq(Nat) /\ Len(cut) = l - n /\ \A i \in 1..l - n : cut[i] = u[n + i]
    BY <1>3, <1>n, SplitAt
  <1> HIDE DEF v, cut
  <1>10. Len(v) = Len(cut)
    BY <1>1, <1>2, <1>3, <1>8, <1>9, <1>n
  <1>11. ASSUME NEW i \in 1..Len(v) PROVE v[i] = cut[i]
    <2>1. /\ i \in 1..writePos - (r + n) /\ i \in 1..l - n /\ n + i \in 1..l
          /\ (r + n) + i = r + (n + i)
      BY <1>2, <1>3, <1>8, <1>9, <1>10, <1>n
    <2> QED BY <2>1, <1>3, <1>8, <1>9
  <1>12. v = cut
    BY <1>8, <1>9, <1>10, <1>11, SeqEqual
  <1>13. SubSeq(u \o rest, n + 1, Len(u \o rest)) = cut \o rest
    BY <1>3, <1>4, <1>n, CutFront DEF cut
  <1>14. Underway' = SubSeq(Underway, n + 1, Len(Underway))
    BY <1>4, <1>5, <1>6, <1>7, <1>12, <1>13
  <1>15. processLen' \in Nat /\ processLen' <= DataSize
    BY <1>1, <1>2, <1>3, <1>n DEF l, DataSize
  <1> QED BY <1>14, <1>15

\* The handled packets, as PacketChannel sees them.
Delivered == [i \in 1..Len(handled) |-> AsHandled(handled[i])]

\* One more message handled is one more packet delivered.
LEMMA DeliveredAppend ==
  ASSUME ReceiverType, NEW m \in Message, handled' = Append(handled, m)
  PROVE  /\ handled' \in Seq(Message)
         /\ Delivered' = Append(Delivered, AsHandled(m))
  <1> DEFINE n == Len(handled)
             a == Append(handled, m)
             S == {AsHandled(x) : x \in Message}
             d == [i \in 1..n |-> AsHandled(handled[i])]
             e == [i \in 1..Len(a) |-> AsHandled(a[i])]
  <1>1. /\ n \in Nat /\ a \in Seq(Message) /\ Len(a) = n + 1
        /\ (\A i \in 1..n : a[i] = handled[i]) /\ a[n + 1] = m
        /\ \A i \in 1..n : handled[i] \in Message
    BY AppendProperties, LenProperties, ElementOfSeq DEF ReceiverType
  <1>2. Delivered = d /\ Delivered' = e
    BY DEF Delivered
  <1>3. AsHandled(m) \in S
    OBVIOUS
  <1>4. d \in [1..n -> S]
    BY <1>1
  <1> HIDE DEF a, n
  <1>5. e = [i \in 1..n + 1 |-> IF i = n + 1 THEN AsHandled(m) ELSE d[i]]
    <2>1. \A i \in 1..n + 1 : AsHandled(a[i]) = IF i = n + 1 THEN AsHandled(m) ELSE d[i]
      <3> TAKE i \in 1..n + 1
      <3>1. i = n + 1 \/ i \in 1..n
        BY <1>1
      <3> QED BY <3>1, <1>1
    <2>2. e = [i \in 1..n + 1 |-> AsHandled(a[i])]
      BY <1>1
    <2> QED BY <2>1, <2>2
  <1>6. d = [i \in 1..n |-> d[i]]
    OBVIOUS
  <1> HIDE DEF d, e, S
  <1>7. d \in Seq(S) /\ Len(d) = n
    BY <1>1, <1>4
  <1> DEFINE g == Append(d, AsHandled(m))
  <1>8. /\ g \in Seq(S) /\ Len(g) = n + 1
        /\ (\A i \in 1..n : g[i] = d[i]) /\ g[n + 1] = AsHandled(m)
    <2>1. /\ g \in Seq(S) /\ Len(g) = Len(d) + 1
          /\ (\A i \in 1..Len(d) : g[i] = d[i]) /\ g[Len(d) + 1] = AsHandled(m)
      BY <1>3, <1>7, AppendProperties
    <2> QED BY <2>1, <1>7
  <1>9. e \in Seq(S) /\ Len(e) = n + 1
    <2>1. \A i \in 1..n + 1 : (IF i = n + 1 THEN AsHandled(m) ELSE d[i]) \in S
      <3> TAKE i \in 1..n + 1
      <3>1. i = n + 1 \/ i \in 1..n
        BY <1>1
      <3>2. i \in 1..n => d[i] \in S
        BY <1>4
      <3> QED BY <3>1, <3>2, <1>3
    <2>2. e \in [1..n + 1 -> S]
      BY <2>1, <1>5
    <2>3. n + 1 \in Nat
      BY <1>1
    <2> QED BY <2>2, <2>3
  <1> HIDE DEF g
  <1>10. ASSUME NEW i \in 1..Len(e) PROVE e[i] = g[i]
    <2>1. i \in 1..n + 1 /\ (i = n + 1 \/ i \in 1..n)
      BY <1>1, <1>9
    <2> QED BY <2>1, <1>5, <1>8
  <1>11. e = g
    BY <1>8, <1>9, <1>10, SeqEqual
  <1> QED BY <1>1, <1>2, <1>11 DEF g, a

\* OnRecvPacket takes the first packet, and hands it over if it is accepted.
LEMMA PacketStep ==
  ASSUME SenderInv, ReceiverType, OnRecvPacket,
         NEW ps \in Seq(Sendable(receiver)), Framed(Underway, ps)
  PROVE  /\ ps # <<>> /\ Tail(ps) \in Seq(Sendable(receiver))
         /\ Framed(Underway, Tail(ps))'
         /\ ReceiverType' /\ UNCHANGED cursors
         /\ Delivered' = IF Accepted(Head(ps)) THEN Append(Delivered, Head(ps)) ELSE Delivered
  <1> DEFINE q == Head(ps)
             n == FrameSize(q)
             parsed == Parses(receiver, q.id, q.bytes)
             m == [id |-> q.id, msg |-> parsed[1]]
  <1>1. receiver \in Receivers
    BY DEF SenderInv, SenderType
  <1>2. processing /\ Assembled
    BY DEF OnRecvPacket
  <1>3. /\ ps # <<>> /\ q \in Sendable(receiver)
        /\ HeaderAt(processLen).size = n /\ HeaderAt(processLen).id = q.id
        /\ n \in 1..Len(Unread)
        /\ SubSeq(recvMemory, readPos + processLen + HeaderSize + 1, readPos + processLen + n)
             = q.bytes
    BY <1>2, PacketBytes
  <1>4. /\ handled' = IF parsed = <<>> THEN handled ELSE Append(handled, m)
        /\ processLen' = processLen + n
    BY <1>3 DEF OnRecvPacket
  <1>5. UNCHANGED <<readPos, writePos, processing, recvMemory, wire, sending, sendQueue, memory>>
    BY DEF OnRecvPacket, senderVars
  <1>6. /\ Accepted(q) <=> parsed # <<>>
        /\ parsed # <<>> => m \in Message /\ AsHandled(m) = q
    BY <1>1, <1>3, ParsedMessage
  <1> HIDE DEF q, n, parsed, m
  <1>7. n \in 0..Len(Unread)
    BY <1>3, UnreadType
  <1>8. /\ Underway' = SubSeq(Underway, n + 1, Len(Underway))
        /\ processLen' \in Nat /\ processLen' <= DataSize
    BY <1>4, <1>5, <1>7, PacketLeaves
  <1>9. ps \in Seq(Frames) /\ Underway \in Seq(Nat)
    BY <1>1, SendableFrames, UnderwayType
  <1>10. Framed(SubSeq(Underway, n + 1, Len(Underway)), Tail(ps))
    BY <1>3, <1>9, FramedHead DEF n, q
  <1>11. Framed(Underway', Tail(ps))
    BY <1>8, <1>10
  <1>12. Framed(Underway, Tail(ps))'
    BY <1>11 DEF Framed, Ends
  <1>13. Tail(ps) \in Seq(Sendable(receiver))
    BY <1>3, HeadTailProperties
  <1>14. /\ handled' \in Seq(Message)
         /\ Delivered' = IF Accepted(q) THEN Append(Delivered, q) ELSE Delivered
    <2>1. CASE parsed = <<>>
      <3>1. handled' = handled /\ ~Accepted(q)
        BY <2>1, <1>4, <1>6
      <3> QED BY <3>1 DEF Delivered, ReceiverType
    <2>2. CASE parsed # <<>>
      <3>1. handled' = Append(handled, m) /\ Accepted(q) /\ m \in Message /\ AsHandled(m) = q
        BY <2>2, <1>4, <1>6
      <3> QED BY <3>1, DeliveredAppend
    <2> QED BY <2>1, <2>2
  <1>15. ReceiverType'
    <2>1. CursorsOrdered' /\ RoomToReceive'
      BY <1>5 DEF ReceiverType, CursorsOrdered, RoomToReceive, DataSize, FreeSize, Capacity
    <2>2. DataSize' = DataSize
      BY <1>5 DEF DataSize
    <2>3. processing' = FALSE => processLen' = 0
      BY <1>2, <1>5
    <2>4. recvMemory' \in [1..Capacity' -> Nat] /\ wire' \in Seq(Nat)
      BY <1>5 DEF ReceiverType, Capacity
    <2> QED BY <2>1, <2>2, <2>3, <2>4, <1>8, <1>14 DEF ReceiverType
  <1>16. UNCHANGED cursors
    BY <1>5 DEF cursors
  <1> QED BY <1>3, <1>12, <1>13, <1>14, <1>15, <1>16 DEF q

-----------------------------------------------------------------------------
(* EndRecv.                                                                *)

\* Less than one packet is left when OnRecv returns.
LEMMA LeftUnread ==
  ASSUME SenderInv, ReceiverType, InStream, ~Assembled
  PROVE  DataSize - processLen < MaxPacket
  <1> DEFINE l == DataSize - processLen
  <1>1. Len(Unread) = l /\ l \in Nat
    BY UnreadType, LenProperties
  <1>2. MaxPacket \in Nat /\ MaxPacket >= 1
    BY CapacityBound
  <1>3. ~(l >= 4) \/ ~(l >= HeaderAt(processLen).size)
    BY DEF Assembled, HeaderSize
  <1>4. PICK ps \in Seq(Sendable(receiver)) : Framed(Underway, ps)
    BY DEF InStream
  <1> HIDE DEF l
  <1>5. CASE l = 0
    BY <1>2, <1>5 DEF l
  <1>6. CASE l # 0
    <2> DEFINE n == FrameSize(Head(ps))
    <2>1. Len(Unread) > 0
      BY <1>1, <1>6
    <2>2. /\ n \in Nat /\ n >= 4 /\ n <= MaxPacket
          /\ Len(Unread) >= 4 => HeaderAt(processLen).size = n
      BY <1>4, <2>1, FirstPacket
    <2> HIDE DEF n
    <2>3. l < MaxPacket
      BY <1>1, <1>2, <1>3, <2>2
    <2> QED BY <2>3 DEF l
  <1> QED BY <1>5, <1>6

\* Clean leaves the unread bytes as they are, wherever it moves them.
LEMMA EndBytes ==
  ASSUME ReceiverType, EndRecv
  PROVE  Unread' = Unread /\ recvMemory' \in [1..Capacity -> Nat]
  <1> DEFINE r == readPos + processLen
             l == DataSize - processLen
             m == recvMemory
             a == readPos'
             z == writePos'
  <1>1. /\ readPos \in Nat /\ writePos \in Nat /\ processLen \in Nat /\ Capacity \in Nat
        /\ readPos <= writePos /\ writePos <= Capacity /\ processLen <= writePos - readPos
        /\ m \in [1..Capacity -> Nat]
    BY CapacityBound DEF ReceiverType, CursorsOrdered, DataSize
  <1>2. r \in Nat /\ l \in Nat /\ r + l = writePos
    BY <1>1 DEF DataSize
  <1>3. /\ Clean(r, writePos) /\ processLen' = 0
        /\ m' = IF Moves(r, writePos)
                THEN [i \in 1..Capacity |-> IF i <= l THEN m[r + i] ELSE m[i]]
                ELSE m
    BY DEF EndRecv, OnRead
  <1> HIDE DEF r, l
  <1>4. m' \in [1..Capacity -> Nat]
    <2>1. CASE Moves(r, writePos)
      <3>1. \A i \in 1..Capacity : i <= l => r + i \in 1..Capacity
        BY <1>1, <1>2
      <3>2. \A i \in 1..Capacity : (IF i <= l THEN m[r + i] ELSE m[i]) \in Nat
        BY <3>1, <1>1
      <3>3. m' = [i \in 1..Capacity |-> IF i <= l THEN m[r + i] ELSE m[i]]
        BY <2>1, <1>3
      <3> HIDE DEF m
      <3> QED BY <3>2, <3>3 DEF m
    <2>2. CASE ~Moves(r, writePos)
      BY <2>2, <1>1, <1>3
    <2> QED BY <2>1, <2>2
  <1>5. /\ a \in Nat /\ z \in Nat /\ a <= z /\ z <= Capacity /\ z - a = l
        /\ \A i \in 1..l : m'[a + i] = m[r + i]
    <2>1. CASE Moves(r, writePos)
      <3>1. a = 0 /\ z = writePos - r
        BY <2>1, <1>3 DEF Clean
      <3>2. a \in Nat /\ z \in Nat /\ a <= z /\ z <= Capacity /\ z - a = l
        BY <3>1, <1>1, <1>2
      <3>3. ASSUME NEW i \in 1..l PROVE m'[a + i] = m[r + i]
        <4>1. i \in 1..Capacity /\ i <= l /\ a + i = i
          BY <3>1, <1>1, <1>2
        <4> QED BY <4>1, <2>1, <1>3
      <3> QED BY <3>2, <3>3
    <2>2. CASE ~Moves(r, writePos) /\ Rewinds(r, writePos)
      <3>1. a = 0 /\ z = writePos - r /\ r = writePos
        BY <2>2, <1>3 DEF Clean, Rewinds
      <3>2. a \in Nat /\ z \in Nat /\ a <= z /\ z <= Capacity /\ z - a = l /\ l = 0
        BY <3>1, <1>1, <1>2
      <3>3. 1..l = {}
        BY <3>2
      <3> QED BY <3>2, <3>3
    <2>3. CASE ~Moves(r, writePos) /\ ~Rewinds(r, writePos)
      <3>1. a = r /\ z = writePos /\ m' = m
        BY <2>3, <1>3 DEF Clean
      <3>2. a \in Nat /\ z \in Nat /\ a <= z /\ z <= Capacity /\ z - a = l
        BY <3>1, <1>1, <1>2
      <3> QED BY <3>1, <3>2
    <2> QED BY <2>1, <2>2, <2>3
  <1>6. Unread = SubSeq(m, r + 1, writePos) /\ Unread' = SubSeq(m', a + 1, z)
    <2>1. readPos' + processLen' + 1 = a + 1
      BY <1>3, <1>5
    <2> QED BY <2>1 DEF Unread, r
  <1>7. r <= writePos /\ writePos - r = l
    BY <1>1, <1>2
  <1> DEFINE u == SubSeq(m, r + 1, writePos)
             v == SubSeq(m', a + 1, z)
             mm == m'
  <1>8. /\ u \in Seq(Nat) /\ Len(u) = writePos - r
        /\ \A i \in 1..writePos - r : u[i] = m[r + i]
    BY <1>1, <1>2, <1>7, Window
  <1>9. /\ v \in Seq(Nat) /\ Len(v) = z - a /\ \A i \in 1..z - a : v[i] = mm[a + i]
    <2>1. mm \in [1..Capacity -> Nat]
      BY <1>4
    <2> HIDE DEF mm, a, z
    <2>2. /\ SubSeq(mm, a + 1, z) \in Seq(Nat) /\ Len(SubSeq(mm, a + 1, z)) = z - a
          /\ \A i \in 1..z - a : SubSeq(mm, a + 1, z)[i] = mm[a + i]
      BY <2>1, <1>1, <1>5, Window
    <2>3. SubSeq(mm, a + 1, z) = v
      BY DEF mm
    <2> QED BY <2>2, <2>3
  <1> HIDE DEF u, v
  <1>10. Len(u) = Len(v)
    BY <1>5, <1>7, <1>8, <1>9
  <1>11. ASSUME NEW i \in 1..Len(v) PROVE v[i] = u[i]
    <2>1. i \in 1..l /\ i \in 1..z - a /\ i \in 1..writePos - r
      BY <1>5, <1>7, <1>9
    <2> QED BY <2>1, <1>5, <1>8, <1>9
  <1>12. v = u
    BY <1>8, <1>9, <1>10, <1>11, SeqEqual
  <1> QED BY <1>4, <1>6, <1>12 DEF u, v

\* The end of OnRecv is a step of the cursors and leaves what is underway.
LEMMA EndStep ==
  ASSUME SenderInv, ReceiverType, InStream, EndRecv
  PROVE  /\ CursorNext /\ ReceiverType' /\ (Unread \o wire)' = Unread \o wire
         /\ handled' = handled
  <1>1. ~Assembled /\ OnRead(processLen) /\ processLen' = 0 /\ handled' = handled /\ wire' = wire
    BY DEF EndRecv
  <1>2. DataSize - processLen < MaxPacket /\ processLen \in 0..DataSize
    <2>1. processLen \in Nat /\ processLen <= DataSize
      BY DEF ReceiverType
    <2>2. DataSize \in Nat
      <3>1. readPos \in Nat /\ writePos \in Nat /\ readPos <= writePos
        BY DEF ReceiverType, CursorsOrdered
      <3> QED BY <3>1 DEF DataSize
    <2> QED BY <1>1, <2>1, <2>2, LeftUnread
  <1>3. CursorNext
    BY <1>1, <1>2 DEF CursorNext
  <1>4. CursorsOrdered' /\ RoomToReceive'
    BY <1>3, CursorStep DEF ReceiverType
  <1>5. Unread' = Unread /\ recvMemory' \in [1..Capacity -> Nat]
    BY EndBytes
  <1>6. processLen' \in Nat /\ processLen' <= DataSize'
    <2>1. readPos' \in Nat /\ writePos' \in Nat /\ readPos' <= writePos'
      BY <1>4 DEF CursorsOrdered
    <2>2. DataSize' = writePos' - readPos'
      BY DEF DataSize
    <2>3. \A a, b \in Nat : a <= b => 0 <= b - a
      OBVIOUS
    <2>4. 0 <= DataSize'
      BY <2>1, <2>2, <2>3, Zenon
    <2> QED BY <2>4, <1>1
  <1>7. Capacity' = Capacity
    BY DEF Capacity
  <1>8. (Unread \o wire)' = Unread \o wire
    BY <1>1, <1>5
  <1>9. wire' \in Seq(Nat) /\ handled' \in Seq(Message)
    BY <1>1 DEF ReceiverType
  <1> QED BY <1>1, <1>3, <1>4, <1>5, <1>6, <1>7, <1>8, <1>9 DEF ReceiverType

-----------------------------------------------------------------------------
(* Every step.                                                             *)

\* The bytes underway, in two halves.
LEMMA UnderwayParts ==
  SenderInv /\ ReceiverType =>
    /\ Underway \in Seq(Nat) /\ Unread \o wire \in Seq(Nat)
    /\ Bytes(sending) \o Bytes(sendQueue) \in Seq(Nat)
    /\ Underway = (Unread \o wire) \o (Bytes(sending) \o Bytes(sendQueue))
  BY UnderwayType

\* And after a step.
LEMMA UnderwayNext ==
  ASSUME SenderInv', ReceiverType'
  PROVE  /\ Underway' \in Seq(Nat)
         /\ Underway' = (Unread \o wire)' \o (Bytes(sending) \o Bytes(sendQueue))'
  <1>1. (SenderInv /\ ReceiverType =>
           /\ Underway \in Seq(Nat) /\ Unread \o wire \in Seq(Nat)
           /\ Bytes(sending) \o Bytes(sendQueue) \in Seq(Nat)
           /\ Underway = (Unread \o wire) \o (Bytes(sending) \o Bytes(sendQueue)))'
    BY UnderwayParts, PTL
  <1> QED BY <1>1

\* What the receiver has is left alone by the sender.
LEMMA ReceiverKept ==
  ASSUME ReceiverType, UNCHANGED receiverVars, wire' \in Seq(Nat)
  PROVE  ReceiverType' /\ Unread' = Unread /\ Delivered' = Delivered /\ UNCHANGED cursors
  <1>1. UNCHANGED <<recvMemory, readPos, writePos, processing, processLen, handled>>
    BY DEF receiverVars
  <1>2. CursorsOrdered' /\ RoomToReceive' /\ DataSize' = DataSize /\ Capacity' = Capacity
    BY <1>1 DEF ReceiverType, CursorsOrdered, RoomToReceive, DataSize, FreeSize, Capacity
  <1>3. ReceiverType'
    BY <1>1, <1>2 DEF ReceiverType
  <1> QED BY <1>1, <1>3 DEF Unread, Delivered, cursors

\* A step leaves the packets underway, adds one that was planned, or takes
\* the first and hands it over if it is accepted.
Flows(ps, qs) ==
  \/ qs = ps /\ Delivered' = Delivered
  \/ \E q \in PlannedPackets : qs = Append(ps, q) /\ Delivered' = Delivered
  \/ /\ ps # <<>> /\ qs = Tail(ps)
     /\ Delivered' = IF Accepted(Head(ps)) THEN Append(Delivered, Head(ps)) ELSE Delivered

\* A step from the packets ps that keeps the invariant.
Keeps(ps) ==
  /\ SenderInv' /\ ReceiverType' /\ [CursorNext]_cursors
  /\ \E qs \in Seq(Sendable(receiver')) : Framed(Underway, qs)' /\ Flows(ps, qs)

\* A step that leaves the bytes and the handled packets keeps it.
LEMMA KeepsSame ==
  ASSUME NEW ps \in Seq(Sendable(receiver)), Framed(Underway, ps), SenderInv', ReceiverType',
         [CursorNext]_cursors, receiver' = receiver, Underway' = Underway, Delivered' = Delivered
  PROVE  Keeps(ps)
  <1>1. Framed(Underway, ps)'
    BY DEF Framed, Ends
  <1>2. ps \in Seq(Sendable(receiver'))
    OBVIOUS
  <1> QED BY <1>1, <1>2 DEF Keeps, Flows

\* MakeSendBuffer writes into no buffer that is on its way.
LEMMA MakeKeeps ==
  ASSUME SenderInv, ReceiverType, NEW t \in Threads, MakeSendBuffer(t),
         NEW ps \in Seq(Sendable(receiver)), Framed(Underway, ps)
  PROVE  Keeps(ps)
  <1>1. SenderInv' /\ receiver' = receiver /\ wire' = wire /\ UNCHANGED receiverVars
    BY MakeSender, MakeEffect
  <1>2. Bytes(sending)' = Bytes(sending) /\ Bytes(sendQueue)' = Bytes(sendQueue)
    BY MakeQueueBytes
  <1>3. ReceiverType' /\ Unread' = Unread /\ Delivered' = Delivered /\ UNCHANGED cursors
    BY <1>1, ReceiverKept DEF ReceiverType
  <1>4. Underway' = Underway
    BY <1>1, <1>2, <1>3 DEF Underway
  <1> QED BY <1>1, <1>3, <1>4, KeepsSame

\* Send adds its packet at the end.
LEMMA SendKeeps ==
  ASSUME SenderInv, ReceiverType, NEW t \in Threads, Send(t),
         NEW ps \in Seq(Sendable(receiver)), Framed(Underway, ps)
  PROVE  Keeps(ps)
  <1> DEFINE p == Head(todo[t])
             w == Packet(p)
             q == AsHandled(p)
             s == Bytes(sending) \o Bytes(sendQueue)
             u == Unread \o wire
  <1>1. SenderInv' /\ receiver' = receiver /\ wire' = wire /\ UNCHANGED receiverVars
    BY SendSender DEF Send
  <1>2. ReceiverType' /\ Unread' = Unread /\ Delivered' = Delivered /\ UNCHANGED cursors
    BY <1>1, ReceiverKept DEF ReceiverType
  <1>3. /\ p \in Planned(receiver) /\ receiver \in Receivers /\ w \in Seq(Nat)
        /\ (Bytes(sending) \o Bytes(sendQueue))' = s \o w
    BY SendQueueBytes
  <1>4. q \in Frames /\ w = FrameOf(q) /\ q \in Sendable(receiver)
    BY <1>3, PlannedPacket DEF Sendable
  <1>5. ps \in Seq(Frames)
    BY <1>3, SendableFrames
  <1>6. /\ Underway \in Seq(Nat) /\ u \in Seq(Nat) /\ s \in Seq(Nat) /\ Underway = u \o s
    BY UnderwayParts
  <1>7. Underway' = (Unread \o wire)' \o (Bytes(sending) \o Bytes(sendQueue))'
    BY <1>1, <1>2, UnderwayNext
  <1>8. Underway' = u \o (s \o w)
    BY <1>1, <1>2, <1>3, <1>7
  <1>r. q \in PlannedPackets
    BY <1>3 DEF PlannedPackets
  <1> HIDE DEF p, w, q, s, u
  <1>x. PICK x \in Sendable(receiver) : x = q
    BY <1>4
  <1>9. Underway' = Underway \o FrameOf(q)
    <2>1. (u \o s) \o w = u \o (s \o w)
      BY <1>3, <1>6, Associative, Zenon
    <2> QED BY <2>1, <1>4, <1>6, <1>8
  <1>10. Framed(Underway \o FrameOf(x), Append(ps, x))
    BY <1>4, <1>5, <1>6, <1>x, FramedAppend
  <1>11. Framed(Underway', Append(ps, x))
    BY <1>9, <1>10, <1>x
  <1>12. Framed(Underway, Append(ps, x))'
    BY <1>11 DEF Framed, Ends
  <1>13. Append(ps, x) \in Seq(Sendable(receiver'))
    BY <1>1, AppendProperties
  <1>14. Flows(ps, Append(ps, x))
    BY <1>2, <1>r, <1>x DEF Flows
  <1> QED BY <1>1, <1>2, <1>12, <1>13, <1>14 DEF Keeps

\* ProcessSend puts on the stream what was ahead of the queue.
LEMMA ProcessKeeps ==
  ASSUME SenderInv, ReceiverType, ProcessSend,
         NEW ps \in Seq(Sendable(receiver)), Framed(Underway, ps)
  PROVE  Keeps(ps)
  <1> DEFINE u == Unread
             w == wire
             s == Bytes(sending)
             q == Bytes(sendQueue)
  <1>1. SenderInv' /\ receiver' = receiver /\ wire' = w \o s /\ UNCHANGED receiverVars
    BY ProcessSender DEF ProcessSend
  <1>2. u \in Seq(Nat) /\ w \in Seq(Nat) /\ s \in Seq(Nat) /\ q \in Seq(Nat)
    BY UnderwayType
  <1>3. Bytes(sending)' = q /\ Bytes(sendQueue)' = <<>>
    BY ProcessQueueBytes
  <1>4. w \o s \in Seq(Nat)
    <2> HIDE DEF w, s
    <2> QED BY <1>2, ConcatProperties
  <1>5. ReceiverType' /\ Unread' = u /\ Delivered' = Delivered /\ UNCHANGED cursors
    BY <1>1, <1>4, ReceiverKept
  <1>6. Underway' = u \o (w \o s) \o q \o <<>> /\ Underway = u \o w \o s \o q
    BY <1>1, <1>3, <1>5 DEF Underway
  <1> HIDE DEF u, w, s, q
  <1>7. u \o (w \o s) \o q \o <<>> = u \o w \o s \o q
    <2>1. (u \o w) \o s = u \o (w \o s)
      BY <1>2, Associative, Zenon
    <2>2. u \o (w \o s) \in Seq(Nat)
      BY <1>2, <1>4, ConcatProperties
    <2>3. u \o (w \o s) \o q \in Seq(Nat)
      BY <1>2, <2>2, ConcatProperties
    <2>4. (u \o (w \o s) \o q) \o <<>> = u \o (w \o s) \o q
      BY <2>3, ConcatEmptySeq
    <2> QED BY <2>1, <2>4
  <1> QED BY <1>1, <1>5, <1>6, <1>7, KeepsSame

\* Steps of the receiver that only move bytes.
LEMMA BytesKeep ==
  ASSUME SenderInv, ReceiverType, ReceiverType', CursorNext,
         UNCHANGED <<receiver, senderVars, sending, handled>>,
         (Unread \o wire)' = Unread \o wire,
         NEW ps \in Seq(Sendable(receiver)), Framed(Underway, ps)
  PROVE  Keeps(ps)
  <1>1. SenderInv'
    BY SenderKept
  <1>2. Bytes(sending)' = Bytes(sending) /\ Bytes(sendQueue)' = Bytes(sendQueue)
    BY DEF senderVars, Bytes, BytesOf
  <1>3. Underway' = (Unread \o wire)' \o (Bytes(sending) \o Bytes(sendQueue))'
    BY <1>1, UnderwayNext
  <1>4. Underway' = Underway
    BY <1>2, <1>3, UnderwayParts
  <1>5. Delivered' = Delivered
    BY DEF Delivered
  <1> QED BY <1>1, <1>4, <1>5, KeepsSame

\* Every step does.
LEMMA StepKeeps ==
  ASSUME PipeIInv, [Next]_vars, NEW ps \in Seq(Sendable(receiver)), Framed(Underway, ps)
  PROVE  Keeps(ps)
  <1> USE DEF PipeIInv
  <1>1. ASSUME NEW t \in Threads, Sender(t) PROVE Keeps(ps)
    BY <1>1, MakeKeeps, SendKeeps DEF Sender
  <1>2. CASE ProcessSend
    BY <1>2, ProcessKeeps
  <1>3. ASSUME Receive PROVE Keeps(ps)
    <2>1. PICK n \in 1..Available : ProcessRecv(n)
      BY <1>3 DEF Receive
    <2>2. CursorNext /\ ReceiverType' /\ (Unread \o wire)' = Unread \o wire
      BY <2>1, RecvStep
    <2>3. UNCHANGED <<receiver, senderVars, sending, handled>>
      BY <2>1 DEF ProcessRecv
    <2> QED BY <2>2, <2>3, BytesKeep
  <1>4. CASE EndRecv
    <2>1. CursorNext /\ ReceiverType' /\ (Unread \o wire)' = Unread \o wire
      BY <1>4, EndStep
    <2>2. UNCHANGED <<receiver, senderVars, sending, handled>>
      BY <1>4 DEF EndRecv
    <2> QED BY <2>1, <2>2, BytesKeep
  <1>5. CASE OnRecvPacket
    <2>1. /\ ps # <<>> /\ Tail(ps) \in Seq(Sendable(receiver))
          /\ Framed(Underway, Tail(ps))' /\ ReceiverType' /\ UNCHANGED cursors
          /\ Delivered' = IF Accepted(Head(ps)) THEN Append(Delivered, Head(ps)) ELSE Delivered
      BY <1>5, PacketStep
    <2>2. UNCHANGED <<receiver, senderVars, sending>>
      BY <1>5 DEF OnRecvPacket
    <2>3. SenderInv'
      BY <2>2, SenderKept
    <2>4. Flows(ps, Tail(ps))
      BY <2>1 DEF Flows
    <2>5. Tail(ps) \in Seq(Sendable(receiver'))
      BY <2>1, <2>2
    <2> QED BY <2>1, <2>3, <2>4, <2>5 DEF Keeps
  <1>6. CASE UNCHANGED vars
    <2>1. UNCHANGED <<receiver, senderVars, sending, wire, receiverVars>>
      BY <1>6 DEF vars
    <2>2. SenderInv'
      BY <2>1, SenderKept
    <2>3. ReceiverType' /\ Unread' = Unread /\ Delivered' = Delivered /\ UNCHANGED cursors
      <3>1. wire' \in Seq(Nat)
        BY <2>1 DEF ReceiverType
      <3> QED BY <2>1, <3>1, ReceiverKept
    <2>4. Underway' = Underway
      BY <2>1, <2>3 DEF Underway, senderVars, Bytes, BytesOf
    <2> QED BY <2>1, <2>2, <2>3, <2>4, KeepsSame
  <1> QED BY <1>1, <1>2, <1>3, <1>4, <1>5, <1>6 DEF Next, Receiver

\* The invariant is inductive, and every step is one of RecvBuffer.
LEMMA PipeInvStep == PipeIInv /\ [Next]_vars => PipeIInv' /\ [CursorNext]_cursors
  <1> SUFFICES ASSUME PipeIInv, [Next]_vars PROVE PipeIInv' /\ [CursorNext]_cursors
    OBVIOUS
  <1>1. PICK ps \in Seq(Sendable(receiver)) : Framed(Underway, ps)
    BY DEF PipeIInv, InStream
  <1>2. Keeps(ps)
    BY <1>1, StepKeeps
  <1>3. InStream'
    BY <1>2 DEF Keeps, InStream
  <1> QED BY <1>2, <1>3 DEF Keeps, PipeIInv

\* At first nothing is underway and nothing delivered.
LEMMA PipeStart == Init => PipeIInv /\ CursorInit /\ Underway = <<>> /\ Delivered = <<>>
  <1> SUFFICES ASSUME Init
               PROVE  PipeIInv /\ CursorInit /\ Underway = <<>> /\ Delivered = <<>>
    OBVIOUS
  <1>1. SenderInv
    BY InitSender
  <1>2. /\ CursorInit /\ wire = <<>> /\ sending = <<>> /\ sendQueue = <<>> /\ handled = <<>>
        /\ processLen = 0 /\ recvMemory = [i \in 1..Capacity |-> 0]
    BY DEF Init
  <1>3. ReceiverType
    <2>1. CursorsOrdered /\ RoomToReceive
      BY <1>2, CursorStart
    <2>2. processLen \in Nat /\ processLen <= DataSize /\ (processing = FALSE => processLen = 0)
      <3>1. readPos = 0 /\ writePos = 0
        BY <1>2 DEF CursorInit
      <3>2. DataSize = 0
        BY <3>1 DEF DataSize
      <3> QED BY <3>2, <1>2
    <2>3. recvMemory \in [1..Capacity -> Nat]
      BY <1>2
    <2>4. wire \in Seq(Nat) /\ handled \in Seq(Message)
      BY <1>2, EmptySeq
    <2> QED BY <2>1, <2>2, <2>3, <2>4 DEF ReceiverType
  <1>4. Underway = <<>>
    <2>1. Len(Unread) = 0 /\ Unread \in Seq(Nat)
      <3>1. readPos = 0 /\ writePos = 0
        BY <1>2 DEF CursorInit
      <3>2. DataSize - processLen = 0
        BY <3>1, <1>2 DEF DataSize
      <3> QED BY <3>2, <1>3, UnreadType
    <2>2. Unread = <<>>
      BY <2>1, EmptySeq
    <2>3. Underway = <<>> \o <<>> \o <<>> \o <<>>
      BY <2>2, <1>2, BytesNone DEF Underway
    <2>4. <<>> \o <<>> = <<>>
      BY ConcatEmptySeq, EmptySeq
    <2> QED BY <2>3, <2>4
  <1>5. InStream
    <2>1. <<>> \in Seq(Sendable(receiver))
      BY EmptySeq
    <2>2. Framed(Underway, <<>>)
      BY <1>4, FramedEmpty
    <2> QED BY <2>1, <2>2 DEF InStream
  <1>6. Delivered = <<>>
    <2> DEFINE e == <<>>
    <2>1. Len(e) = 0
      OBVIOUS
    <2>2. [i \in 1..Len(e) |-> AsHandled(e[i])] = <<>>
      BY <2>1
    <2>3. handled = e
      BY <1>2
    <2> HIDE DEF e
    <2> QED BY <2>2, <2>3 DEF Delivered
  <1> QED BY <1>1, <1>2, <1>3, <1>4, <1>5, <1>6 DEF PipeIInv

\* What the run checks follows from the invariant.
LEMMA PipeSafe == PipeIInv => PipeInv
  <1> SUFFICES ASSUME PipeIInv PROVE PipeInv
    OBVIOUS
  <1>1. SenderInv /\ ReceiverType
    BY DEF PipeIInv
  <1>2. BuffersDisjoint
    BY <1>1, SenderSafe
  <1>3. CursorInv
    BY <1>1, CursorSafe DEF ReceiverType
  <1>4. TypeOK
    <2>1. Len(used) = Len(memory) /\ chunk \in [Threads -> 0..Len(memory)]
      BY <1>1 DEF SenderInv, SenderType
    <2>2. ToSet(pool) \subseteq 1..Len(memory)
      <3>1. pool \in Seq(1..Len(memory)) /\ DOMAIN pool = 1..Len(pool)
        BY <1>1, LenProperties DEF SenderInv, SenderType
      <3> QED BY <3>1, ElementOfSeq DEF ToSet
    <2>3. processLen <= DataSize
      BY <1>1 DEF ReceiverType
    <2>4. \A i \in 1..Len(handled) : handled[i].msg \in MsgOf(handled[i].id)
      <3> TAKE i \in 1..Len(handled)
      <3>1. handled[i] \in Message
        BY <1>1, ElementOfSeq DEF ReceiverType
      <3> QED BY <3>1 DEF Message
    <2> QED BY <2>1, <2>2, <2>3, <2>4 DEF TypeOK
  <1> QED BY <1>2, <1>3, <1>4 DEF PipeInv

\* The inductive invariant holds throughout.
THEOREM PipeIsInvariant == Spec => []PipeIInv
  BY PipeStart, PipeInvStep, PTL DEF Spec

\* No two live SendBuffers share a byte, recycled chunks have no user, no
\* assertion of MakeSendBuffer, Open and Close fails, and the receive cursors
\* stay sound (SendBuffer.cpp:17-111, RecvBuffer.cpp:18-54).
THEOREM PipeIsSafe == Spec => []PipeInv
  BY PipeIsInvariant, PipeSafe, PTL

\* OnRecv leaves less than one packet unread, so that PacketSession uses its
\* receive buffer as RecvBuffer says (Session.cpp:232-261, 311-335).
THEOREM PipeRefinesRecvBuffer == Spec => RefinesRecvBuffer
  BY PipeStart, PipeInvStep, PipeIsInvariant, PTL DEF Spec, RefinesRecvBuffer, CursorSpec

-----------------------------------------------------------------------------
(* The channel.                                                            *)

\* The channel starts empty.
LEMMA ChannelStart == Init => Channel!Init
  <1> SUFFICES ASSUME Init PROVE Channel!Init
    OBVIOUS
  <1>1. Underway = <<>> /\ Delivered = <<>>
    BY PipeStart
  <1> DEFINE e == <<>>
  <1>2. e \in Seq(Nat) /\ e \in Seq(Frames)
    BY EmptySeq
  <1>3. Framed(e, e)
    BY FramedEmpty
  <1> HIDE DEF e
  <1>4. PacketsIn(e) = e
    BY <1>2, <1>3, PacketsInFramed
  <1>5. PacketsIn(Underway) = <<>>
    BY <1>1, <1>4 DEF e
  <1> QED BY <1>1, <1>5 DEF Channel!Init, Delivered

\* Send submits, OnRecvPacket delivers, and every other step is a stutter.
LEMMA ChannelStep ==
  PipeIInv /\ [Next]_vars => [Channel!Next]_<<PacketsIn(Underway), Delivered>>
  <1> SUFFICES ASSUME PipeIInv, [Next]_vars
               PROVE  [Channel!Next]_<<PacketsIn(Underway), Delivered>>
    OBVIOUS
  <1>1. PICK ps \in Seq(Sendable(receiver)) : Framed(Underway, ps)
    BY DEF PipeIInv, InStream
  <1>2. Keeps(ps)
    BY <1>1, StepKeeps
  <1>3. PICK qs \in Seq(Sendable(receiver')) : Framed(Underway, qs)' /\ Flows(ps, qs)
    BY <1>2 DEF Keeps
  <1>4. PacketsIn(Underway) = ps
    <2>1. receiver \in Receivers /\ SenderInv /\ ReceiverType
      BY DEF PipeIInv, SenderInv, SenderType
    <2>2. ps \in Seq(Frames) /\ Underway \in Seq(Nat)
      BY <2>1, SendableFrames, UnderwayParts
    <2> QED BY <1>1, <2>2, PacketsInFramed
  <1>5. PacketsIn(Underway)' = qs
    <2> DEFINE u == Underway'
               r == receiver'
    <2>1. r \in Receivers /\ SenderInv' /\ ReceiverType'
      BY <1>2 DEF Keeps, SenderInv, SenderType
    <2>2. u \in Seq(Nat)
      BY <2>1, UnderwayNext
    <2>3. Framed(u, qs)
      BY <1>3 DEF Framed, Ends
    <2>4. PacketsIn(Underway)' = PacketsIn(u)
      BY DEF PacketsIn, WholeAt, PacketAt
    <2>5. qs \in Seq(Sendable(r))
      BY <1>3
    <2> HIDE DEF u, r
    <2>6. qs \in Seq(Frames)
      BY <2>1, <2>5, SendableFrames
    <2> QED BY <2>2, <2>3, <2>4, <2>6, PacketsInFramed
  <1>6. CASE qs = ps /\ Delivered' = Delivered
    BY <1>4, <1>5, <1>6
  <1>7. CASE \E q \in PlannedPackets : qs = Append(ps, q) /\ Delivered' = Delivered
    <2>1. Channel!Submit
      BY <1>4, <1>5, <1>7 DEF Channel!Submit, Delivered
    <2> QED BY <2>1 DEF Channel!Next
  <1>8. CASE /\ ps # <<>> /\ qs = Tail(ps)
             /\ Delivered' = IF Accepted(Head(ps)) THEN Append(Delivered, Head(ps)) ELSE Delivered
    <2>1. Channel!Deliver
      BY <1>4, <1>5, <1>8 DEF Channel!Deliver, Delivered
    <2> QED BY <2>1 DEF Channel!Next
  <1> QED BY <1>3, <1>6, <1>7, <1>8 DEF Flows

\* What the handlers get is what was handed to Send, each packet at most once, in
\* the order of Send and with its content, and one is skipped only if it does not
\* parse, however the stream cuts packets up and whatever chunks and buffers they
\* share (Session.cpp:20-39, 263-282, 311-335).
THEOREM PipeRefinesChannel == Spec => RefinesPacketChannel
  BY ChannelStart, ChannelStep, PipeIsInvariant, PTL
  DEF Spec, RefinesPacketChannel, Channel!Spec, Delivered
===============================================================================
