---------------------------- MODULE GameRoomProofs ----------------------------
(***************************************************************************)
(* Proofs about GameRoom, for every set of sessions and every bound: the   *)
(* inductive invariant RoomIInv, which gives RoomInv, and the refinement   *)
(* of ChatRoom.                                                            *)
(***************************************************************************)
EXTENDS GameRoom, SequenceTheorems, WellFoundedInduction, TLAPS

-----------------------------------------------------------------------------
(* A queue in two parts.                                                   *)

LEMMA ConcatAppend ==
  ASSUME NEW S, NEW p \in Seq(S), NEW q \in Seq(S), NEW e \in S
  PROVE  p \o Append(q, e) = Append(p \o q, e)
  <1>1. <<e>> \in Seq(S) /\ Append(q, e) = q \o <<e>> /\ p \o q \in Seq(S)
    BY AppendIsConcat, ConcatProperties
  <1>2. Append(p \o q, e) = (p \o q) \o <<e>>
    BY <1>1, AppendIsConcat
  <1> QED BY <1>1, <1>2, ConcatAssociative

LEMMA ConcatTail ==
  ASSUME NEW S, NEW p \in Seq(S), NEW q \in Seq(S), p # <<>>
  PROVE  Tail(p) \o q = Tail(p \o q)
  <1>1. /\ Tail(p) \in Seq(S) /\ Len(Tail(p)) = Len(p) - 1 /\ Len(p) \in Nat /\ Len(p) # 0
        /\ \A i \in 1..Len(p) - 1 : Tail(p)[i] = p[i + 1]
    BY HeadTailProperties, EmptySeq, LenProperties
  <1>2. /\ p \o q \in Seq(S) /\ Len(p \o q) = Len(p) + Len(q) /\ Len(q) \in Nat
        /\ \A i \in 1..Len(p) + Len(q) :
             (p \o q)[i] = IF i <= Len(p) THEN p[i] ELSE q[i - Len(p)]
    BY ConcatProperties, LenProperties
  <1>3. p \o q # <<>>
    BY <1>1, <1>2, EmptySeq
  <1>4. /\ Tail(p \o q) \in Seq(S) /\ Len(Tail(p \o q)) = Len(p) + Len(q) - 1
        /\ \A i \in 1..Len(p) + Len(q) - 1 : Tail(p \o q)[i] = (p \o q)[i + 1]
    BY <1>2, <1>3, HeadTailProperties
  <1> DEFINE t == Tail(p)
  <1> HIDE DEF t
  <1>5. /\ t \o q \in Seq(S) /\ Len(t \o q) = Len(t) + Len(q)
        /\ \A i \in 1..Len(t) + Len(q) :
             (t \o q)[i] = IF i <= Len(t) THEN t[i] ELSE q[i - Len(t)]
    BY <1>1, ConcatProperties DEF t
  <1> DEFINE u == Tail(p \o q)
             v == t \o q
  <1>6. /\ Len(u) = Len(v) /\ u \in Seq(S) /\ v \in Seq(S)
        /\ \A i \in 1..Len(v) : u[i] = v[i]
    BY <1>1, <1>2, <1>4, <1>5 DEF t
  <1> HIDE DEF u, v
  <1>7. u = v
    BY <1>6, SeqEqual
  <1> QED BY <1>7 DEF u, v, t

-----------------------------------------------------------------------------
(* Packets in a queue, by name.                                            *)

NamedTo(q, name, k) == \E i \in 1..k : q[i].name = name
Named(q, name) == NamedTo(q, name, Len(q))
Once(q, name) == \A i, k \in 1..Len(q) : q[i].name = name /\ q[k].name = name => i = k

LEMMA NamedAppend ==
  ASSUME NEW S, NEW q \in Seq(S), NEW e \in S, NEW name
  PROVE  /\ Named(Append(q, e), name) <=> Named(q, name) \/ e.name = name
         /\ \A k \in 0..Len(q) : NamedTo(Append(q, e), name, k) <=> NamedTo(q, name, k)
         /\ Once(q, name) /\ ~(Named(q, name) /\ e.name = name) => Once(Append(q, e), name)
  <1>1. /\ Len(Append(q, e)) = Len(q) + 1 /\ Len(q) \in Nat
        /\ \A i \in 1..Len(q) : Append(q, e)[i] = q[i]
        /\ Append(q, e)[Len(q) + 1] = e
    BY AppendProperties
  <1> DEFINE a == Append(q, e)
  <1> HIDE DEF a
  <1>2. Named(a, name) <=> Named(q, name) \/ e.name = name
    BY <1>1 DEF Named, NamedTo, a
  <1>3. ASSUME NEW k \in 0..Len(q)
        PROVE  NamedTo(a, name, k) <=> NamedTo(q, name, k)
    BY <1>1 DEF NamedTo, a
  <1>4. Once(q, name) /\ ~(Named(q, name) /\ e.name = name) => Once(a, name)
    BY <1>1 DEF Once, Named, NamedTo, a
  <1> QED BY <1>2, <1>3, <1>4 DEF a

LEMMA NamedTail ==
  ASSUME NEW S, NEW q \in Seq(S), q # <<>>, NEW name
  PROVE  /\ Named(q, name) <=> q[1].name = name \/ Named(Tail(q), name)
         /\ Once(q, name) => Once(Tail(q), name)
         /\ Once(q, name) /\ q[1].name = name => ~Named(Tail(q), name)
  <1>1. /\ Tail(q) \in Seq(S) /\ Len(Tail(q)) = Len(q) - 1 /\ Len(q) \in Nat /\ Len(q) > 0
        /\ \A i \in 1..Len(q) - 1 : Tail(q)[i] = q[i + 1]
    BY HeadTailProperties, EmptySeq, LenProperties
  <1> DEFINE t == Tail(q)
  <1> HIDE DEF t
  <1>2. \A i \in 1..Len(q) : i = 1 \/ (i - 1 \in 1..Len(t) /\ q[i] = t[i - 1])
    BY <1>1 DEF t
  <1>3. Named(q, name) <=> q[1].name = name \/ Named(t, name)
    <2>1. CASE Named(q, name)
      BY <1>1, <1>2, <2>1 DEF Named, NamedTo
    <2>2. CASE q[1].name = name
      BY <1>1, <2>2 DEF Named, NamedTo
    <2>3. CASE Named(t, name)
      BY <1>1, <2>3 DEF Named, NamedTo, t
    <2> QED BY <2>1, <2>2, <2>3
  <1>4. Once(q, name) => Once(t, name)
    <2> SUFFICES ASSUME Once(q, name), NEW i \in 1..Len(t), NEW k \in 1..Len(t),
                        t[i].name = name, t[k].name = name
                 PROVE  i = k
      BY DEF Once
    <2>1. i + 1 \in 1..Len(q) /\ k + 1 \in 1..Len(q) /\ q[i + 1] = t[i] /\ q[k + 1] = t[k]
      BY <1>1 DEF t
    <2>2. i + 1 = k + 1
      BY <2>1 DEF Once
    <2> QED BY <2>2
  <1>5. Once(q, name) /\ q[1].name = name => ~Named(t, name)
    <2> SUFFICES ASSUME Once(q, name), q[1].name = name, Named(t, name) PROVE FALSE
      OBVIOUS
    <2>1. PICK i \in 1..Len(t) : t[i].name = name
      BY DEF Named, NamedTo
    <2>2. i + 1 \in 1..Len(q) /\ q[i + 1].name = name /\ 1 \in 1..Len(q)
      BY <1>1, <2>1 DEF t
    <2>3. i + 1 = 1
      BY <2>2 DEF Once
    <2> QED BY <2>3
  <1> QED BY <1>3, <1>4, <1>5 DEF t

-----------------------------------------------------------------------------
(* The jobs of a session in a queue of jobs.                               *)

JobOf(j, do, s) == j.do = do /\ j.from = s
JobIn(q, do, s) == \E i \in 1..Len(q) : JobOf(q[i], do, s)
Has(q, j) == \E i \in 1..Len(q) : q[i] = j
OneEnter(q, s) ==
  \A i, k \in 1..Len(q) : JobOf(q[i], "Enter", s) /\ JobOf(q[k], "Enter", s) => i = k
\* Each Enter of the session is followed by the Leave that undoes it ...
EnterThenLeave(q, s) ==
  \A i \in 1..Len(q) : JobOf(q[i], "Enter", s) =>
    \E k \in i + 1..Len(q) : q[k] = LeaveJob(s, q[i].player)
\* ... and none is followed by a chat.
ChatsBeforeEnter(q, s) ==
  \A i, k \in 1..Len(q) :
    JobOf(q[i], "Enter", s) /\ JobOf(q[k], "Broadcast", s) => k < i

LEMMA JobAppend ==
  ASSUME NEW S, NEW q \in Seq(S), NEW e \in S, NEW s, NEW do
  PROVE  /\ JobIn(Append(q, e), do, s) <=> JobIn(q, do, s) \/ JobOf(e, do, s)
         /\ OneEnter(q, s) /\ ~(JobIn(q, "Enter", s) /\ JobOf(e, "Enter", s))
              => OneEnter(Append(q, e), s)
         /\ EnterThenLeave(q, s) /\ ~JobOf(e, "Enter", s) => EnterThenLeave(Append(q, e), s)
         /\ ChatsBeforeEnter(q, s) /\ ~JobOf(e, "Broadcast", s)
              => ChatsBeforeEnter(Append(q, e), s)
  <1>1. /\ Len(Append(q, e)) = Len(q) + 1 /\ Len(q) \in Nat
        /\ \A i \in 1..Len(q) : Append(q, e)[i] = q[i]
        /\ Append(q, e)[Len(q) + 1] = e
    BY AppendProperties
  <1> DEFINE a == Append(q, e)
  <1> HIDE DEF a
  <1>0. /\ \A i \in 1..Len(q) : i \in 1..Len(a) /\ a[i] = q[i]
        /\ Len(q) + 1 \in 1..Len(a) /\ a[Len(q) + 1] = e
        /\ \A i \in 1..Len(a) : i \in 1..Len(q) \/ i = Len(q) + 1
    BY <1>1 DEF a
  <1>2. JobIn(a, do, s) <=> JobIn(q, do, s) \/ JobOf(e, do, s)
    BY <1>0 DEF JobIn
  <1>3. ASSUME OneEnter(q, s), ~(JobIn(q, "Enter", s) /\ JobOf(e, "Enter", s))
        PROVE  OneEnter(a, s)
    BY <1>0, <1>3 DEF OneEnter, JobIn
  <1>4. ASSUME EnterThenLeave(q, s), ~JobOf(e, "Enter", s)
        PROVE  EnterThenLeave(a, s)
    <2> SUFFICES ASSUME NEW i \in 1..Len(a), JobOf(a[i], "Enter", s)
                 PROVE  \E k \in i + 1..Len(a) : a[k] = LeaveJob(s, a[i].player)
      BY DEF EnterThenLeave
    <2>1. i \in 1..Len(q) /\ a[i] = q[i]
      BY <1>0, <1>4
    <2>2. PICK k \in i + 1..Len(q) : q[k] = LeaveJob(s, q[i].player)
      BY <2>1, <1>4 DEF EnterThenLeave
    <2>3. k \in i + 1..Len(a) /\ a[k] = q[k]
      BY <1>1, <2>1 DEF a
    <2> QED BY <2>1, <2>2, <2>3
  <1>5. ASSUME ChatsBeforeEnter(q, s), ~JobOf(e, "Broadcast", s)
        PROVE  ChatsBeforeEnter(a, s)
    <2> SUFFICES ASSUME NEW i \in 1..Len(a), NEW k \in 1..Len(a),
                        JobOf(a[i], "Enter", s), JobOf(a[k], "Broadcast", s)
                 PROVE  k < i
      BY DEF ChatsBeforeEnter
    <2>1. k \in 1..Len(q) /\ a[k] = q[k]
      BY <1>0, <1>5
    <2>2. CASE i \in 1..Len(q)
      BY <1>0, <1>5, <2>1, <2>2 DEF ChatsBeforeEnter
    <2>3. CASE i = Len(q) + 1
      BY <1>1, <2>1, <2>3
    <2> QED BY <1>0, <2>2, <2>3
  <1> QED BY <1>2, <1>3, <1>4, <1>5 DEF a

LEMMA HasAppend ==
  ASSUME NEW S, NEW q \in Seq(S), NEW e \in S, NEW j
  PROVE  Has(Append(q, e), j) <=> Has(q, j) \/ e = j
  <1>1. /\ Len(Append(q, e)) = Len(q) + 1 /\ Len(q) \in Nat
        /\ \A i \in 1..Len(q) : Append(q, e)[i] = q[i]
        /\ Append(q, e)[Len(q) + 1] = e
    BY AppendProperties
  <1> QED BY <1>1 DEF Has

\* The Leave that is submitted last undoes an Enter before it.
LEMMA LeaveLast ==
  ASSUME NEW S, NEW q \in Seq(S), NEW s, NEW p, LeaveJob(s, p) \in S,
         \A i \in 1..Len(q) : JobOf(q[i], "Enter", s) => q[i].player = p
  PROVE  EnterThenLeave(Append(q, LeaveJob(s, p)), s)
  <1> DEFINE e == LeaveJob(s, p)
             a == Append(q, e)
  <1>1. /\ Len(a) = Len(q) + 1 /\ Len(q) \in Nat
        /\ \A i \in 1..Len(q) : a[i] = q[i]
        /\ a[Len(q) + 1] = e
    BY AppendProperties
  <1>2. ~JobOf(e, "Enter", s) /\ e \in S
    BY DEF JobOf, LeaveJob
  <1> HIDE DEF a, e
  <1> SUFFICES ASSUME NEW i \in 1..Len(a), JobOf(a[i], "Enter", s)
               PROVE  \E k \in i + 1..Len(a) : a[k] = LeaveJob(s, a[i].player)
    BY DEF EnterThenLeave, a, e
  <1>3. i \in 1..Len(q)
    BY <1>1, <1>2
  <1>4. Len(q) + 1 \in i + 1..Len(a) /\ a[Len(q) + 1] = LeaveJob(s, a[i].player)
    BY <1>1, <1>3 DEF e
  <1> QED BY <1>4

LEMMA JobTail ==
  ASSUME NEW S, NEW q \in Seq(S), q # <<>>, NEW s, NEW do, NEW j
  PROVE  /\ JobIn(q, do, s) <=> JobOf(q[1], do, s) \/ JobIn(Tail(q), do, s)
         /\ Has(q, j) <=> q[1] = j \/ Has(Tail(q), j)
         /\ OneEnter(q, s) => OneEnter(Tail(q), s)
         /\ OneEnter(q, s) /\ JobOf(q[1], "Enter", s) => ~JobIn(Tail(q), "Enter", s)
         /\ EnterThenLeave(q, s) => EnterThenLeave(Tail(q), s)
         /\ EnterThenLeave(q, s) /\ JobOf(q[1], "Enter", s)
              => Has(Tail(q), LeaveJob(s, q[1].player))
         /\ ChatsBeforeEnter(q, s) => ChatsBeforeEnter(Tail(q), s)
         /\ ChatsBeforeEnter(q, s) /\ JobOf(q[1], "Enter", s) => ~JobIn(q, "Broadcast", s)
  <1>1. /\ Tail(q) \in Seq(S) /\ Len(Tail(q)) = Len(q) - 1 /\ Len(q) \in Nat /\ Len(q) > 0
        /\ \A i \in 1..Len(q) - 1 : Tail(q)[i] = q[i + 1]
    BY HeadTailProperties, EmptySeq, LenProperties
  <1> DEFINE t == Tail(q)
  <1> HIDE DEF t
  <1>2. /\ 1 \in 1..Len(q)
        /\ \A i \in 1..Len(q) : i = 1 \/ (i - 1 \in 1..Len(t) /\ q[i] = t[i - 1])
        /\ \A i \in 1..Len(t) : i + 1 \in 1..Len(q) /\ i + 1 # 1 /\ t[i] = q[i + 1]
        /\ \A i, k \in 1..Len(t) : i + 1 = k + 1 => i = k
    BY <1>1 DEF t
  <1>3. JobIn(q, do, s) <=> JobOf(q[1], do, s) \/ JobIn(t, do, s)
    BY <1>2 DEF JobIn
  <1>4. Has(q, j) <=> q[1] = j \/ Has(t, j)
    <2>1. ASSUME Has(q, j), q[1] # j PROVE Has(t, j)
      <3>1. PICK i \in 1..Len(q) : q[i] = j
        BY <2>1 DEF Has
      <3>2. i - 1 \in 1..Len(t) /\ t[i - 1] = j
        BY <1>2, <2>1, <3>1
      <3> QED BY <3>2 DEF Has
    <2>2. ASSUME Has(t, j) PROVE Has(q, j)
      <3>1. PICK i \in 1..Len(t) : t[i] = j
        BY <2>2 DEF Has
      <3>2. i + 1 \in 1..Len(q) /\ q[i + 1] = j
        BY <1>2, <3>1
      <3> QED BY <3>2 DEF Has
    <2>3. q[1] = j => Has(q, j)
      BY <1>2 DEF Has
    <2> QED BY <2>1, <2>2, <2>3
  <1>5. OneEnter(q, s) => OneEnter(t, s)
    BY <1>2 DEF OneEnter
  <1>6. OneEnter(q, s) /\ JobOf(q[1], "Enter", s) => ~JobIn(t, "Enter", s)
    BY <1>2 DEF OneEnter, JobIn
  <1>7. ASSUME EnterThenLeave(q, s) PROVE EnterThenLeave(t, s)
    <2> SUFFICES ASSUME NEW i \in 1..Len(t), JobOf(t[i], "Enter", s)
                 PROVE  \E k \in i + 1..Len(t) : t[k] = LeaveJob(s, t[i].player)
      BY DEF EnterThenLeave
    <2>1. i + 1 \in 1..Len(q) /\ t[i] = q[i + 1]
      BY <1>2
    <2>2. PICK k \in i + 2..Len(q) : q[k] = LeaveJob(s, q[i + 1].player)
      BY <2>1, <1>7 DEF EnterThenLeave
    <2>3. k - 1 \in i + 1..Len(t) /\ t[k - 1] = q[k]
      BY <1>1, <2>1 DEF t
    <2> QED BY <2>1, <2>2, <2>3
  <1>8. ASSUME EnterThenLeave(q, s), JobOf(q[1], "Enter", s)
        PROVE  Has(t, LeaveJob(s, q[1].player))
    <2>1. PICK k \in 2..Len(q) : q[k] = LeaveJob(s, q[1].player)
      BY <1>2, <1>8 DEF EnterThenLeave
    <2>2. k - 1 \in 1..Len(t) /\ t[k - 1] = q[k]
      BY <1>1 DEF t
    <2> QED BY <2>1, <2>2 DEF Has
  <1>9. ASSUME ChatsBeforeEnter(q, s) PROVE ChatsBeforeEnter(t, s)
    <2> SUFFICES ASSUME NEW i \in 1..Len(t), NEW k \in 1..Len(t),
                        JobOf(t[i], "Enter", s), JobOf(t[k], "Broadcast", s)
                 PROVE  k < i
      BY DEF ChatsBeforeEnter
    <2>1. k + 1 < i + 1
      BY <1>2, <1>9 DEF ChatsBeforeEnter
    <2> QED BY <2>1, <1>1 DEF t
  <1>10. ASSUME ChatsBeforeEnter(q, s), JobOf(q[1], "Enter", s), JobIn(q, "Broadcast", s)
         PROVE  FALSE
    <2>1. PICK k \in 1..Len(q) : JobOf(q[k], "Broadcast", s)
      BY <1>10 DEF JobIn
    <2>2. k < 1
      BY <1>2, <1>10, <2>1 DEF ChatsBeforeEnter
    <2> QED BY <2>2
  <1> QED BY <1>3, <1>4, <1>5, <1>6, <1>7, <1>8, <1>9, <1>10 DEF t

\* Two Enters of a session with at most one are the same job.
LEMMA OneEnterSame ==
  ASSUME NEW S, NEW q \in Seq(S), NEW s, OneEnter(q, s), NEW p, Has(q, EnterJob(s, p))
  PROVE  /\ JobIn(q, "Enter", s)
         /\ \A i \in 1..Len(q) : JobOf(q[i], "Enter", s) => q[i] = EnterJob(s, p)
  <1>1. PICK k \in 1..Len(q) : q[k] = EnterJob(s, p)
    BY DEF Has
  <1>2. JobOf(q[k], "Enter", s)
    BY <1>1 DEF JobOf, EnterJob
  <1>3. \A i \in 1..Len(q) : JobOf(q[i], "Enter", s) => i = k
    BY <1>2 DEF OneEnter
  <1> QED BY <1>1, <1>2, <1>3 DEF JobIn

\* A client's own chats come after the answer that it entered.
OwnChat(q, s) ==
  \A i \in 1..Len(q) : q[i].name = "S_CHAT" /\ q[i].from = s =>
    NamedTo(q, "S_ENTER_GAME", i - 1)

LEMMA OwnChatAppend ==
  ASSUME NEW S, NEW q \in Seq(S), NEW e \in S, NEW s, OwnChat(q, s),
         e.name # "S_CHAT" \/ e.from # s \/ Named(q, "S_ENTER_GAME")
  PROVE  OwnChat(Append(q, e), s)
  <1> DEFINE a == Append(q, e)
  <1>1. /\ Len(a) = Len(q) + 1 /\ Len(q) \in Nat
        /\ \A i \in 1..Len(q) : a[i] = q[i]
        /\ a[Len(q) + 1] = e
    BY AppendProperties
  <1>2. \A k \in 0..Len(q) : NamedTo(a, "S_ENTER_GAME", k) <=> NamedTo(q, "S_ENTER_GAME", k)
    BY NamedAppend
  <1> HIDE DEF a
  <1> SUFFICES ASSUME NEW i \in 1..Len(a), a[i].name = "S_CHAT", a[i].from = s
               PROVE  NamedTo(a, "S_ENTER_GAME", i - 1)
    BY DEF OwnChat, a
  <1>3. CASE i \in 1..Len(q)
    <2>1. NamedTo(q, "S_ENTER_GAME", i - 1)
      BY <1>1, <1>3 DEF OwnChat
    <2>2. i - 1 \in 0..Len(q)
      BY <1>1, <1>3
    <2> QED BY <1>2, <2>1, <2>2
  <1>4. CASE i = Len(q) + 1
    <2>1. i - 1 = Len(q) /\ Len(q) \in 0..Len(q)
      BY <1>1, <1>4
    <2>2. Named(q, "S_ENTER_GAME")
      BY <1>1, <1>4
    <2>3. NamedTo(q, "S_ENTER_GAME", Len(q))
      BY <2>2 DEF Named
    <2> QED BY <1>2, <2>1, <2>3
  <1> QED BY <1>1, <1>3, <1>4

-----------------------------------------------------------------------------
(* The inductive invariant.                                                *)

FromClient == {Packet("C_LOGIN"), Packet("C_ENTER_GAME")} \cup Chats
Said == [name : {"S_CHAT"}, from : Sessions, n : 1..MaxChats]
FromServer == {Packet("S_LOGIN"), Packet("S_ENTER_GAME")} \cup Said
JobType == [do : {"Enter", "Leave", "Broadcast"}, player : Nat, from : Sessions, n : Nat]

TypeInv ==
  /\ client \in [Sessions -> {"connecting", "added", "in"}]
  /\ chats \in [Sessions -> 0..MaxChats] /\ seen \in [Sessions -> Nat]
  /\ toServer \in [Sessions -> Seq(FromClient)] /\ toClient \in [Sessions -> Seq(FromServer)]
  /\ connected \in [Sessions -> BOOLEAN] /\ posted \in [Sessions -> BOOLEAN]
  /\ batch \in [Sessions -> Seq(FromClient)] /\ step \in [Sessions -> 1..3]
  /\ closing \in [Sessions -> {"no", "leave", "clear", "done"}]
  /\ players \in [Sessions -> Seq(Nat)] /\ current \in [Sessions -> Nat]
  /\ inRoom \in [Sessions -> BOOLEAN] /\ raced \in [Sessions -> BOOLEAN]
  /\ owner \in Seq(Sessions)
  /\ pending \in [{RoomQueue} -> Seq(JobType)]
  /\ active \in [{RoomQueue} -> JobType \cup {NoJob}]

MemberInv ==
  /\ roomPlayers \subseteq 1..Len(owner) /\ targets \subseteq roomPlayers
  /\ ~Running("Broadcast") => targets = {}

\* The packets on their way to the handlers of a session, the one that is
\* being handled first.
Inbox(s) == batch[s] \o toServer[s]
InHandler(s, name) == batch[s] # <<>> /\ Head(batch[s]).name = name
LoggedIn(s) == NamedTo(toClient[s], "S_LOGIN", seen[s])

\* The jobs of the room that are not finished, the one that runs first.
Line == IF active[RoomQueue] = NoJob THEN pending[RoomQueue]
        ELSE <<active[RoomQueue]>> \o pending[RoomQueue]
Seated(s) == {p \in roomPlayers : owner[p] = s}
NoEntry(s) == Seated(s) = {} /\ ~JobIn(Line, "Enter", s)

JobOK(j, owners, races) ==
  /\ j.player # NoPlayer => j.player \in 1..Len(owners) /\ owners[j.player] = j.from
  /\ j.do = "Enter" /\ j.player = NoPlayer => races[j.from]
  /\ j.do = "Leave" => j.player # NoPlayer
  /\ j.do = "Broadcast" => j.n \in 1..MaxChats
JobInv == \A i \in 1..Len(Line) : JobOK(Line[i], owner, raced)

\* A session that is not accepted has nothing, one that is gone and that no
\* race touched has no handler any more.
FreshInv(s) ==
  /\ ~connected[s] /\ closing[s] = "no" =>
       batch[s] = <<>> /\ ~posted[s] /\ toClient[s] = <<>>
  /\ connected[s] => closing[s] = "no"
  /\ posted[s] => batch[s] = <<>>
  /\ batch[s] = <<>> \/ InHandler(s, "C_CHAT") => step[s] = 1
  /\ seen[s] <= Len(toClient[s])
  /\ ~raced[s] /\ closing[s] \in {"clear", "done"} => batch[s] = <<>>

\* A client logs in once and enters once, after it has read that it is
\* logged in.
OnceInv(s) ==
  /\ Once(Inbox(s), "C_LOGIN") /\ Once(Inbox(s), "C_ENTER_GAME")
  /\ Once(toClient[s], "S_LOGIN")
  /\ client[s] # "in" => ~Named(Inbox(s), "C_LOGIN") /\ ~Named(toClient[s], "S_LOGIN")
  /\ Named(Inbox(s), "C_LOGIN") => ~Named(toClient[s], "S_LOGIN")

\* Until its C_ENTER_GAME is handled a session has no player in the room.
EntryInv(s) ==
  /\ ~LoggedIn(s) =>
       ~Named(Inbox(s), "C_ENTER_GAME") /\ current[s] = NoPlayer /\ NoEntry(s)
  /\ Named(Inbox(s), "C_ENTER_GAME") =>
       /\ ~(InHandler(s, "C_ENTER_GAME") /\ step[s] # 1) => current[s] = NoPlayer
       /\ ~(InHandler(s, "C_ENTER_GAME") /\ step[s] = 3) => NoEntry(s)

PlayerInv(s) ==
  /\ \A i \in 1..Len(players[s]) : players[s][i] \in 1..Len(owner) /\ owner[players[s][i]] = s
  /\ current[s] # NoPlayer =>
       current[s] \in 1..Len(owner) /\ owner[current[s]] = s /\ inRoom[s]
  /\ closing[s] # "done" =>
       /\ Named(toClient[s], "S_LOGIN") \/ (InHandler(s, "C_LOGIN") /\ step[s] # 1)
            => players[s] # <<>>
       /\ InHandler(s, "C_ENTER_GAME") /\ step[s] # 1 => current[s] # NoPlayer

\* A session has one seat at most, and takes it once.
SeatInv(s) ==
  /\ \A p, q \in Seated(s) : p = q
  /\ OneEnter(Line, s)
  /\ Seated(s) # {} => ~JobIn(Line, "Enter", s)
  /\ closing[s] \in {"no", "leave"} => ~JobIn(Line, "Leave", s)

\* Where the player of a session that no race touched is.
Entered(s) ==
  current[s] # NoPlayer /\ ~(InHandler(s, "C_ENTER_GAME") /\ step[s] # 3)
PlaceInv(s) ==
  ~raced[s] =>
    /\ closing[s] \in {"no", "leave"} /\ Entered(s) =>
         Seated(s) = {current[s]} \/ Has(Line, EnterJob(s, current[s]))
    /\ closing[s] \in {"no", "leave"} /\ ~Entered(s) => NoEntry(s)
    /\ closing[s] \in {"clear", "done"} =>
         /\ \A p \in Seated(s) : Has(Line, LeaveJob(s, p))
         /\ EnterThenLeave(Line, s)

\* A session that has a seat, or will have one, was told or is being told.
ToldInv(s) ==
  /\ ~NoEntry(s) /\ closing[s] = "no" =>
       \/ Named(toClient[s], "S_ENTER_GAME")
       \/ InHandler(s, "C_ENTER_GAME") /\ step[s] = 3
  /\ InHandler(s, "C_ENTER_GAME") /\ step[s] = 3 /\ closing[s] = "no" =>
       /\ JobIn(Line, "Broadcast", s) => Seated(s) = {}
       /\ ChatsBeforeEnter(Line, s)

SessionInv(s) ==
  /\ FreshInv(s) /\ OnceInv(s) /\ EntryInv(s) /\ PlayerInv(s)
  /\ SeatInv(s) /\ PlaceInv(s) /\ ToldInv(s)

HeardInv == \A s \in Sessions : OwnChat(toClient[s], s)

RoomIInv ==
  TypeInv /\ MemberInv /\ JobInv /\ HeardInv /\ \A s \in Sessions : SessionInv(s)

-----------------------------------------------------------------------------
(* Types.                                                                  *)

LEMMA PacketTypes ==
  /\ Packet("C_LOGIN") \in FromClient /\ Packet("C_ENTER_GAME") \in FromClient
  /\ \A s \in Sessions, k \in 1..MaxChats : [name |-> "C_CHAT", from |-> s, n |-> k] \in FromClient
  /\ \A p \in FromClient : /\ p.name \in {"C_LOGIN", "C_ENTER_GAME", "C_CHAT"}
                           /\ p.name = "C_CHAT" => p.n \in 1..MaxChats
  /\ Packet("S_LOGIN") \in FromServer /\ Packet("S_ENTER_GAME") \in FromServer
  /\ \A s \in Sessions, k \in 1..MaxChats : [name |-> "S_CHAT", from |-> s, n |-> k] \in FromServer
  /\ \A p \in FromServer : p.name \in {"S_LOGIN", "S_ENTER_GAME", "S_CHAT"}
  /\ \A name : Packet(name).name = name
  BY DEF FromClient, FromServer, Said, Chats, Packet

LEMMA JobTypes ==
  /\ \A s \in Sessions, p \in Nat :
       EnterJob(s, p) \in JobType /\ LeaveJob(s, p) \in JobType /\ BroadcastJob(s, p) \in JobType
  /\ \A j \in JobType : /\ j.do \in {"Enter", "Leave", "Broadcast"} /\ j.player \in Nat
                        /\ j.from \in Sessions /\ j # NoJob
  /\ NoJob.do = "nothing"
  BY DEF JobType, EnterJob, LeaveJob, BroadcastJob, NoPlayer, NoJob

LEMMA LineType ==
  ASSUME TypeInv
  PROVE  /\ Line \in Seq(JobType)
         /\ active[RoomQueue] # NoJob =>
              /\ active[RoomQueue] \in JobType /\ Line # <<>> /\ Line[1] = active[RoomQueue]
              /\ Tail(Line) = pending[RoomQueue]
         /\ active[RoomQueue] = NoJob => Line = pending[RoomQueue]
  <1>1. pending[RoomQueue] \in Seq(JobType) /\ active[RoomQueue] \in JobType \cup {NoJob}
    BY DEF TypeInv
  <1>2. CASE active[RoomQueue] = NoJob
    BY <1>1, <1>2 DEF Line
  <1>3. CASE active[RoomQueue] # NoJob
    <2> DEFINE a == active[RoomQueue]
               p == pending[RoomQueue]
    <2>1. a \in JobType /\ p \in Seq(JobType) /\ Line = <<a>> \o p
      BY <1>1, <1>3 DEF Line
    <2> HIDE DEF a, p
    <2>2. /\ <<a>> \o p \in Seq(JobType) /\ <<a>> \o p # <<>> /\ (<<a>> \o p)[1] = a
          /\ Len(<<a>> \o p) = Len(p) + 1
          /\ \A i \in 1..Len(p) : (<<a>> \o p)[i + 1] = p[i]
      BY <2>1
    <2>3. Tail(<<a>> \o p) = p
      <3>1. /\ Tail(<<a>> \o p) \in Seq(JobType)
            /\ Len(Tail(<<a>> \o p)) = Len(p) /\ Len(p) \in Nat
            /\ \A i \in 1..Len(p) : Tail(<<a>> \o p)[i] = p[i]
        BY <2>1, <2>2, HeadTailProperties, LenProperties
      <3> QED BY <2>1, <3>1, SeqEqual
    <2> QED BY <1>3, <2>1, <2>2, <2>3 DEF a, p
  <1> QED BY <1>2, <1>3

\* A job that is submitted is the last one of the line, the one that starts
\* stays the first, the one that ends is gone.
LEMMA LineSubmit ==
  ASSUME TypeInv, NEW j \in JobType, DoAsync(j)
  PROVE  Line' = Append(Line, j) /\ active' = active
  <1>1. /\ active' = active
        /\ pending'[RoomQueue] = Append(pending[RoomQueue], j)
        /\ pending[RoomQueue] \in Seq(JobType)
    BY DEF DoAsync, Queue!Submit, TypeInv
  <1>2. CASE active[RoomQueue] = NoJob
    BY <1>1, <1>2 DEF Line
  <1>3. CASE active[RoomQueue] # NoJob
    <2> DEFINE a == active[RoomQueue]
               p == pending[RoomQueue]
    <2>1. a \in JobType /\ p \in Seq(JobType)
      BY <1>3 DEF TypeInv
    <2>2. Line = <<a>> \o p /\ Line' = <<a>> \o Append(p, j)
      BY <1>1, <1>3 DEF Line
    <2> HIDE DEF a, p
    <2>3. <<a>> \o Append(p, j) = Append(<<a>> \o p, j)
      BY <2>1, ConcatAppend
    <2> QED BY <1>1, <2>2, <2>3
  <1> QED BY <1>2, <1>3

LEMMA LineStart ==
  ASSUME TypeInv, Queue!Start(RoomQueue)
  PROVE  /\ Line' = Line /\ Line # <<>>
         /\ active[RoomQueue] = NoJob /\ active'[RoomQueue] = Line[1] /\ Line[1] \in JobType
  <1> DEFINE p == pending[RoomQueue]
  <1>1. /\ active[RoomQueue] = NoJob /\ p \in Seq(JobType) /\ p # <<>>
        /\ active'[RoomQueue] = Head(p) /\ pending'[RoomQueue] = Tail(p)
    BY DEF Queue!Start, TypeInv
  <1>2. Line = p
    BY <1>1 DEF Line
  <1> HIDE DEF p
  <1>3. Head(p) = p[1] /\ Head(p) \in JobType /\ p = <<Head(p)>> \o Tail(p)
    BY <1>1
  <1>4. Head(p) # NoJob
    BY <1>3, JobTypes
  <1>5. Line' = <<Head(p)>> \o Tail(p)
    BY <1>1, <1>4 DEF Line
  <1> QED BY <1>1, <1>2, <1>3, <1>5

LEMMA LineFinish ==
  ASSUME TypeInv, Queue!Finish(RoomQueue)
  PROVE  /\ Line # <<>> /\ Line' = Tail(Line)
         /\ active[RoomQueue] = Line[1] /\ active'[RoomQueue] = NoJob /\ Line[1] \in JobType
  <1>1. /\ active[RoomQueue] # NoJob /\ active'[RoomQueue] = NoJob
        /\ pending'[RoomQueue] = pending[RoomQueue]
    BY DEF Queue!Finish, TypeInv
  <1>2. Line' = pending[RoomQueue]
    BY <1>1 DEF Line
  <1> QED BY <1>1, <1>2, LineType

-----------------------------------------------------------------------------
(* The packets of a session are a queue too.                               *)

LEMMA InboxType ==
  ASSUME TypeInv, NEW s \in Sessions
  PROVE  /\ Inbox(s) \in Seq(FromClient)
         /\ batch[s] # <<>> => Inbox(s) # <<>> /\ Inbox(s)[1] = Head(batch[s])
  BY DEF TypeInv, Inbox

LEMMA InboxHandled ==
  ASSUME TypeInv, NEW s \in Sessions, NEW name, InHandler(s, name)
  PROVE  Named(Inbox(s), name)
  <1>1. Inbox(s) \in Seq(FromClient) /\ Inbox(s) # <<>> /\ Inbox(s)[1].name = name
    BY InboxType DEF InHandler
  <1> HIDE DEF Inbox
  <1> QED BY <1>1, NamedTail

\* A packet the client sends is the last one, unless the connection is broken.
LEMMA InboxAppend ==
  ASSUME TypeInv, NEW s \in Sessions, NEW p \in FromClient, ToServer(s, p), batch' = batch
  PROVE  /\ Inbox(s)' = Append(Inbox(s), p) \/ Inbox(s)' = Inbox(s)
         /\ \A r \in Sessions : r # s => Inbox(r)' = Inbox(r)
  <1>1. toServer'[s] = Append(toServer[s], p) \/ toServer'[s] = toServer[s]
    BY DEF ToServer, TypeInv
  <1>2. \A r \in Sessions : r # s => toServer'[r] = toServer[r]
    BY DEF ToServer, TypeInv
  <1>3. batch[s] \in Seq(FromClient) /\ toServer[s] \in Seq(FromClient)
    BY DEF TypeInv
  <1>4. batch[s] \o Append(toServer[s], p) = Append(batch[s] \o toServer[s], p)
    <2> DEFINE b == batch[s]
               t == toServer[s]
    <2>1. b \in Seq(FromClient) /\ t \in Seq(FromClient)
      BY <1>3
    <2> HIDE DEF b, t
    <2>2. b \o Append(t, p) = Append(b \o t, p)
      BY <2>1, ConcatAppend
    <2> QED BY <2>2 DEF b, t
  <1> QED BY <1>1, <1>2, <1>4 DEF Inbox

\* Either way the names in it are the old ones and that of the packet.
LEMMA InboxNames ==
  ASSUME NEW q \in Seq(FromClient), NEW e \in FromClient, NEW m, m = Append(q, e) \/ m = q
  PROVE  \A name :
           /\ Named(m, name) => Named(q, name) \/ e.name = name
           /\ Named(q, name) => Named(m, name)
           /\ Once(q, name) /\ ~(Named(q, name) /\ e.name = name) => Once(m, name)
  <1>1. CASE m = q
    BY <1>1
  <1>2. CASE m = Append(q, e)
    BY <1>2, NamedAppend
  <1> QED BY <1>1, <1>2

\* What is received moves on without a change of the order.
LEMMA InboxRecv ==
  ASSUME TypeInv, NEW s \in Sessions, batch[s] = <<>>, ProcessRecv(s)
  PROVE  \A r \in Sessions : Inbox(r)' = Inbox(r)
  <1>1. PICK k \in 1..Len(toServer[s]) :
           /\ batch' = [batch EXCEPT ![s] = SubSeq(toServer[s], 1, k)]
           /\ toServer' = [toServer EXCEPT ![s] = SubSeq(@, k + 1, Len(@))]
    BY DEF ProcessRecv
  <1>2. toServer[s] \in Seq(FromClient)
    BY DEF TypeInv
  <1>3. \A r \in Sessions : r # s => batch'[r] = batch[r] /\ toServer'[r] = toServer[r]
    BY <1>1 DEF TypeInv
  <1>4. /\ batch'[s] = SubSeq(toServer[s], 1, k)
        /\ toServer'[s] = SubSeq(toServer[s], k + 1, Len(toServer[s]))
    BY <1>1 DEF TypeInv
  <1> DEFINE q == toServer[s]
  <1>5. SubSeq(q, 1, k) \o SubSeq(q, k + 1, Len(q)) = <<>> \o q
    <2> HIDE DEF q
    <2> SUFFICES ASSUME q \in Seq(FromClient), k \in 1..Len(q)
                 PROVE  SubSeq(q, 1, k) \o SubSeq(q, k + 1, Len(q)) = <<>> \o q
      BY <1>2 DEF q
    <2> QED OBVIOUS
  <1> QED BY <1>3, <1>4, <1>5 DEF Inbox

LEMMA InboxReturn ==
  ASSUME TypeInv, NEW s \in Sessions, batch[s] # <<>>, Return(s)
  PROVE  /\ Inbox(s)' = Tail(Inbox(s)) /\ batch'[s] = Tail(batch[s]) /\ step'[s] = 1
         /\ posted'[s] => batch'[s] = <<>>
         /\ \A r \in Sessions : r # s =>
              Inbox(r)' = Inbox(r) /\ batch'[r] = batch[r] /\ step'[r] = step[r]
                /\ posted'[r] = posted[r]
  <1>1. batch[s] \in Seq(FromClient) /\ toServer[s] \in Seq(FromClient)
    BY DEF TypeInv
  <1>2. /\ batch'[s] = Tail(batch[s]) /\ toServer' = toServer /\ step'[s] = 1
        /\ posted'[s] => Tail(batch[s]) = <<>>
        /\ \A r \in Sessions : r # s =>
             batch'[r] = batch[r] /\ step'[r] = step[r] /\ posted'[r] = posted[r]
    BY DEF Return, TypeInv
  <1>3. Tail(batch[s]) \o toServer[s] = Tail(batch[s] \o toServer[s])
    BY <1>1, ConcatTail
  <1> QED BY <1>2, <1>3 DEF Inbox

-----------------------------------------------------------------------------
(* A step that leaves a session alone.                                     *)

SameSession(r) ==
  /\ client'[r] = client[r] /\ seen'[r] = seen[r]
  /\ Inbox(r)' = Inbox(r) /\ batch'[r] = batch[r] /\ step'[r] = step[r]
  /\ connected'[r] = connected[r] /\ posted'[r] = posted[r] /\ closing'[r] = closing[r]
  /\ players'[r] = players[r] /\ current'[r] = current[r] /\ inRoom'[r] = inRoom[r]
  /\ raced'[r] = raced[r]

\* A chat may be sent to it, jobs of others may come and go.
MayHear(r) ==
  \/ toClient'[r] = toClient[r]
  \/ connected[r] /\ \E e \in Said : toClient'[r] = Append(toClient[r], e)
LineKeeps(r) ==
  \/ Line' = Line
  \/ \E e \in JobType : e.from # r /\ Line' = Append(Line, e)
  \/ /\ Line # <<>> /\ Line' = Tail(Line)
     /\ ~JobOf(Line[1], "Enter", r) /\ ~JobOf(Line[1], "Leave", r)
OwnerGrows == owner' = owner \/ \E x \in Sessions : owner' = Append(owner, x)

LEMMA OwnerKept ==
  ASSUME TypeInv, OwnerGrows
  PROVE  \A p \in 1..Len(owner) : p \in 1..Len(owner') /\ owner'[p] = owner[p]
  <1>1. owner \in Seq(Sessions)
    BY DEF TypeInv
  <1>2. CASE owner' = owner
    BY <1>2
  <1>3. ASSUME NEW x \in Sessions, owner' = Append(owner, x)
        PROVE  \A p \in 1..Len(owner) : p \in 1..Len(owner') /\ owner'[p] = owner[p]
    BY <1>1, <1>3, AppendProperties, LenProperties
  <1> QED BY <1>2, <1>3 DEF OwnerGrows

LEMMA HeardFrame ==
  ASSUME TypeInv, NEW r \in Sessions, MayHear(r)
  PROVE  /\ \A name \in {"S_LOGIN", "S_ENTER_GAME"} :
              /\ Named(toClient[r], name)' <=> Named(toClient[r], name)
              /\ Once(toClient[r], name) => Once(toClient[r], name)'
         /\ \A k \in 0..Len(toClient[r]) :
              NamedTo(toClient'[r], "S_LOGIN", k) <=> NamedTo(toClient[r], "S_LOGIN", k)
         /\ Len(toClient[r]) <= Len(toClient'[r]) /\ Len(toClient[r]) \in Nat
         /\ ~connected[r] => toClient'[r] = toClient[r]
  <1>1. toClient[r] \in Seq(FromServer) /\ Len(toClient[r]) \in Nat
    BY LenProperties DEF TypeInv
  <1>2. CASE toClient'[r] = toClient[r]
    BY <1>1, <1>2
  <1>3. ASSUME NEW e \in Said, connected[r], toClient'[r] = Append(toClient[r], e)
        PROVE  /\ \A name \in {"S_LOGIN", "S_ENTER_GAME"} :
                    /\ Named(toClient[r], name)' <=> Named(toClient[r], name)
                    /\ Once(toClient[r], name) => Once(toClient[r], name)'
               /\ \A k \in 0..Len(toClient[r]) :
                    NamedTo(toClient'[r], "S_LOGIN", k) <=> NamedTo(toClient[r], "S_LOGIN", k)
               /\ Len(toClient[r]) <= Len(toClient'[r])
    <2> DEFINE q == toClient[r]
    <2>1. e \in FromServer /\ e.name = "S_CHAT"
      BY DEF FromServer, Said
    <2>2. q \in Seq(FromServer) /\ Len(q) \in Nat
      BY <1>1
    <2> HIDE DEF q
    <2>3. ASSUME NEW name \in {"S_LOGIN", "S_ENTER_GAME"}
          PROVE  /\ Named(Append(q, e), name) <=> Named(q, name)
                 /\ Once(q, name) => Once(Append(q, e), name)
      <3>1. e.name # name
        BY <2>1
      <3> QED BY <2>1, <2>2, <3>1, NamedAppend
    <2>4. \A k \in 0..Len(q) : NamedTo(Append(q, e), "S_LOGIN", k) <=> NamedTo(q, "S_LOGIN", k)
      BY <2>1, <2>2, NamedAppend
    <2>5. Len(q) <= Len(Append(q, e))
      BY <2>1, <2>2, AppendProperties
    <2> QED BY <1>3, <2>3, <2>4, <2>5 DEF q
  <1> QED BY <1>1, <1>2, <1>3 DEF MayHear

LEMMA LineFrame ==
  ASSUME TypeInv, NEW r \in Sessions, LineKeeps(r)
  PROVE  /\ JobIn(Line, "Enter", r)' <=> JobIn(Line, "Enter", r)
         /\ JobIn(Line, "Leave", r)' <=> JobIn(Line, "Leave", r)
         /\ JobIn(Line, "Broadcast", r)' => JobIn(Line, "Broadcast", r)
         /\ \A p : Has(Line, EnterJob(r, p)) => Has(Line', EnterJob(r, p))
         /\ \A p : Has(Line, LeaveJob(r, p)) => Has(Line', LeaveJob(r, p))
         /\ OneEnter(Line, r) => OneEnter(Line, r)'
         /\ EnterThenLeave(Line, r) => EnterThenLeave(Line, r)'
         /\ ChatsBeforeEnter(Line, r) => ChatsBeforeEnter(Line, r)'
  <1> DEFINE q == Line
             Keeps(n) ==
               /\ JobIn(n, "Enter", r) <=> JobIn(q, "Enter", r)
               /\ JobIn(n, "Leave", r) <=> JobIn(q, "Leave", r)
               /\ JobIn(n, "Broadcast", r) => JobIn(q, "Broadcast", r)
               /\ \A p : Has(q, EnterJob(r, p)) => Has(n, EnterJob(r, p))
               /\ \A p : Has(q, LeaveJob(r, p)) => Has(n, LeaveJob(r, p))
               /\ OneEnter(q, r) => OneEnter(n, r)
               /\ EnterThenLeave(q, r) => EnterThenLeave(n, r)
               /\ ChatsBeforeEnter(q, r) => ChatsBeforeEnter(n, r)
  <1>1. q \in Seq(JobType)
    BY LineType
  <1>2. ASSUME NEW e \in JobType, e.from # r PROVE Keeps(Append(q, e))
    <2> HIDE DEF q
    <2>1. \A do : ~JobOf(e, do, r)
      BY <1>2 DEF JobOf
    <2>2. \A do : JobIn(Append(q, e), do, r) <=> JobIn(q, do, r)
      BY <1>1, <2>1, JobAppend
    <2>3. /\ OneEnter(q, r) => OneEnter(Append(q, e), r)
          /\ EnterThenLeave(q, r) => EnterThenLeave(Append(q, e), r)
          /\ ChatsBeforeEnter(q, r) => ChatsBeforeEnter(Append(q, e), r)
      BY <1>1, <2>1, JobAppend
    <2>4. \A j : Has(q, j) => Has(Append(q, e), j)
      BY <1>1, HasAppend
    <2> QED BY <2>2, <2>3, <2>4
  <1>3. ASSUME q # <<>>, ~JobOf(q[1], "Enter", r), ~JobOf(q[1], "Leave", r) PROVE Keeps(Tail(q))
    <2> HIDE DEF q
    <2>1. /\ JobIn(Tail(q), "Enter", r) <=> JobIn(q, "Enter", r)
          /\ JobIn(Tail(q), "Leave", r) <=> JobIn(q, "Leave", r)
          /\ JobIn(Tail(q), "Broadcast", r) => JobIn(q, "Broadcast", r)
      BY <1>1, <1>3, JobTail
    <2>2. /\ OneEnter(q, r) => OneEnter(Tail(q), r)
          /\ EnterThenLeave(q, r) => EnterThenLeave(Tail(q), r)
          /\ ChatsBeforeEnter(q, r) => ChatsBeforeEnter(Tail(q), r)
      BY <1>1, <1>3, JobTail
    <2>3. \A p : q[1] # EnterJob(r, p) /\ q[1] # LeaveJob(r, p)
      BY <1>3 DEF JobOf, EnterJob, LeaveJob
    <2>4. \A j : Has(q, j) => q[1] = j \/ Has(Tail(q), j)
      BY <1>1, <1>3, JobTail
    <2> QED BY <2>1, <2>2, <2>3, <2>4
  <1>4. Keeps(q)
    OBVIOUS
  <1>5. Keeps(Line')
    <2>1. CASE Line' = Line
      BY <1>4, <2>1
    <2>2. ASSUME NEW e \in JobType, e.from # r, Line' = Append(Line, e) PROVE Keeps(Line')
      <3> HIDE DEF Keeps
      <3> QED BY <1>2, <2>2
    <2>3. CASE /\ Line # <<>> /\ Line' = Tail(Line)
               /\ ~JobOf(Line[1], "Enter", r) /\ ~JobOf(Line[1], "Leave", r)
      <3> HIDE DEF Keeps
      <3> QED BY <1>3, <2>3
    <2> HIDE DEF Keeps, q
    <2> QED BY <2>1, <2>2, <2>3 DEF LineKeeps
  <1> QED BY <1>5

LEMMA SessionFrame ==
  ASSUME TypeInv, NEW r \in Sessions, SessionInv(r),
         SameSession(r), MayHear(r), LineKeeps(r), OwnerGrows, Seated(r)' = Seated(r)
  PROVE  SessionInv(r)'
  <1>0. /\ FreshInv(r) /\ OnceInv(r) /\ EntryInv(r) /\ PlayerInv(r)
        /\ SeatInv(r) /\ PlaceInv(r) /\ ToldInv(r)
    BY DEF SessionInv
  <1>1. /\ InHandler(r, "C_LOGIN")' <=> InHandler(r, "C_LOGIN")
        /\ InHandler(r, "C_ENTER_GAME")' <=> InHandler(r, "C_ENTER_GAME")
        /\ InHandler(r, "C_CHAT")' <=> InHandler(r, "C_CHAT")
    BY DEF InHandler, SameSession
  <1>2. /\ Named(toClient[r], "S_LOGIN")' <=> Named(toClient[r], "S_LOGIN")
        /\ Named(toClient[r], "S_ENTER_GAME")' <=> Named(toClient[r], "S_ENTER_GAME")
        /\ Once(toClient[r], "S_LOGIN") => Once(toClient[r], "S_LOGIN")'
        /\ Len(toClient[r]) <= Len(toClient'[r]) /\ Len(toClient[r]) \in Nat
        /\ ~connected[r] => toClient'[r] = toClient[r]
        /\ seen[r] \in Nat
    BY HeardFrame DEF TypeInv
  <1>3. LoggedIn(r)' <=> LoggedIn(r)
    BY <1>0, <1>2, HeardFrame DEF LoggedIn, SameSession, FreshInv
  <1>4. NoEntry(r)' <=> NoEntry(r)
    BY LineFrame DEF NoEntry
  <1>5. Entered(r)' <=> Entered(r)
    BY <1>1 DEF Entered, SameSession
  <1> HIDE DEF Inbox, Seated, Line, MayHear, LineKeeps
  <1>6. Len(toClient'[r]) \in Nat
    BY HeardFrame DEF MayHear, TypeInv
  <1>7. FreshInv(r)'
    BY <1>0, <1>1, <1>2 DEF FreshInv, SameSession
  <1>8. OnceInv(r)'
    BY <1>0, <1>2 DEF OnceInv, SameSession
  <1>9. EntryInv(r)'
    BY <1>0, <1>1, <1>3, <1>4 DEF EntryInv, SameSession
  <1>10. PlayerInv(r)'
    BY <1>0, <1>1, <1>2, OwnerKept DEF PlayerInv, SameSession
  <1>11. SeatInv(r)'
    BY <1>0, LineFrame DEF SeatInv, SameSession
  <1>12. PlaceInv(r)'
    BY <1>0, <1>4, <1>5, LineFrame DEF PlaceInv, SameSession
  <1>13. ToldInv(r)'
    BY <1>0, <1>1, <1>2, <1>4, LineFrame DEF ToldInv, SameSession
  <1> QED BY <1>7, <1>8, <1>9, <1>10, <1>11, <1>12, <1>13 DEF SessionInv

-----------------------------------------------------------------------------
(* The types are kept by every step.                                       *)

LEMMA TypeInit == Init => TypeInv
  BY GameRoomAssumption, EmptySeq DEF Init, TypeInv, Queue!Init, NoPlayer

LEMMA TypeSubmit ==
  ASSUME TypeInv, NEW j \in JobType, DoAsync(j)
  PROVE  /\ pending' \in [{RoomQueue} -> Seq(JobType)]
         /\ active' \in [{RoomQueue} -> JobType \cup {NoJob}]
  <1>1. pending \in [{RoomQueue} -> Seq(JobType)] /\ active \in [{RoomQueue} -> JobType \cup {NoJob}]
    BY DEF TypeInv
  <1>2. Append(pending[RoomQueue], j) \in Seq(JobType)
    BY <1>1, AppendProperties
  <1> QED BY <1>1, <1>2 DEF DoAsync, Queue!Submit

LEMMA TypeSend ==
  ASSUME TypeInv, NEW x \in Sessions, NEW p \in FromServer, Send(x, p)
  PROVE  toClient' \in [Sessions -> Seq(FromServer)]
  BY DEF TypeInv, Send

LEMMA TypeToServer ==
  ASSUME TypeInv, NEW x \in Sessions, NEW p \in FromClient, ToServer(x, p)
  PROVE  toServer' \in [Sessions -> Seq(FromClient)]
  BY DEF TypeInv, ToServer

LEMMA TypeReturn ==
  ASSUME TypeInv, NEW s \in Sessions, batch[s] # <<>>, Return(s)
  PROVE  /\ batch' \in [Sessions -> Seq(FromClient)] /\ toServer' \in [Sessions -> Seq(FromClient)]
         /\ step' \in [Sessions -> 1..3] /\ posted' \in [Sessions -> BOOLEAN]
  <1>1. batch[s] \in Seq(FromClient) /\ Tail(batch[s]) \in Seq(FromClient)
    BY HeadTailProperties DEF TypeInv
  <1>2. batch' \in [Sessions -> Seq(FromClient)]
    BY <1>1 DEF TypeInv, Return
  <1>3. step' \in [Sessions -> 1..3] /\ toServer' \in [Sessions -> Seq(FromClient)]
    BY DEF TypeInv, Return
  <1>4. posted' \in [Sessions -> BOOLEAN]
    BY DEF TypeInv, Return
  <1> QED BY <1>2, <1>3, <1>4

LEMMA TypeClient ==
  ASSUME TypeInv, NEW s \in Sessions, Client(s) \/ Break(s)
  PROVE  TypeInv'
  <1> USE DEF clientFrame, sessionVars, serverVars, roomVars, queueVars, clientVars
  <1>1. CASE ClientConnect(s)
    BY <1>1 DEF TypeInv, ClientConnect
  <1>2. CASE ClientOnConnected(s)
    <2>1. toServer' \in [Sessions -> Seq(FromClient)]
      BY <1>2, TypeToServer, PacketTypes DEF ClientOnConnected
    <2> QED BY <1>2, <2>1 DEF TypeInv, ClientOnConnected
  <1>3. CASE ClientBroadcast(s)
    <2>1. chats' \in [Sessions -> 0..MaxChats] /\ chats'[s] \in 1..MaxChats
      BY <1>3, GameRoomAssumption DEF TypeInv, ClientBroadcast
    <2>2. toServer' \in [Sessions -> Seq(FromClient)]
      BY <1>3, <2>1, TypeToServer, PacketTypes DEF ClientBroadcast
    <2> QED BY <1>3, <2>1, <2>2 DEF TypeInv, ClientBroadcast
  <1>4. CASE ClientRecv(s)
    <2>1. toServer' \in [Sessions -> Seq(FromClient)]
      <3>1. CASE toServer' = toServer
        BY <3>1 DEF TypeInv
      <3>2. CASE ToServer(s, Packet("C_ENTER_GAME"))
        BY <3>2, TypeToServer, PacketTypes
      <3> QED BY <1>4, <3>1, <3>2 DEF ClientRecv
    <2>2. seen' \in [Sessions -> Nat]
      BY <1>4 DEF TypeInv, ClientRecv
    <2>3. UNCHANGED <<client, chats, clientFrame>>
      BY <1>4 DEF ClientRecv
    <2> QED BY <2>1, <2>2, <2>3 DEF TypeInv
  <1>5. CASE Break(s)
    BY <1>5 DEF TypeInv, Break
  <1> QED BY <1>1, <1>2, <1>3, <1>4, <1>5 DEF Client

LEMMA TypeWorker ==
  ASSUME TypeInv, NEW s \in Sessions, Worker(s),
         current[s] # NoPlayer => current[s] \in 1..Len(owner)
  PROVE  TypeInv'
  <1> USE DEF Unchanged, Others, sessionVars, serverVars, roomVars, queueVars, clientVars
  <1>1. CASE ProcessAccept(s)
    BY <1>1 DEF TypeInv, ProcessAccept
  <1>2. CASE ProcessRecv(s)
    <2>1. PICK k \in 1..Len(toServer[s]) :
             /\ batch' = [batch EXCEPT ![s] = SubSeq(toServer[s], 1, k)]
             /\ toServer' = [toServer EXCEPT ![s] = SubSeq(@, k + 1, Len(@))]
      BY <1>2 DEF ProcessRecv
    <2>2. toServer[s] \in Seq(FromClient)
      BY DEF TypeInv
    <2>3. SubSeq(toServer[s], 1, k) \in Seq(FromClient)
           /\ SubSeq(toServer[s], k + 1, Len(toServer[s])) \in Seq(FromClient)
      <3> DEFINE q == toServer[s]
      <3>1. q \in Seq(FromClient) /\ k \in 1..Len(q)
        BY <2>2
      <3> HIDE DEF q
      <3>2. SubSeq(q, 1, k) \in Seq(FromClient) /\ SubSeq(q, k + 1, Len(q)) \in Seq(FromClient)
        BY <3>1
      <3> QED BY <3>2 DEF q
    <2>4. batch' \in [Sessions -> Seq(FromClient)] /\ toServer' \in [Sessions -> Seq(FromClient)]
      BY <2>1, <2>3 DEF TypeInv
    <2>5. raced' \in [Sessions -> BOOLEAN] /\ posted' \in [Sessions -> BOOLEAN]
      BY <1>2 DEF TypeInv, ProcessRecv
    <2> QED BY <1>2, <2>4, <2>5 DEF TypeInv, ProcessRecv
  <1>3. CASE Disconnect(s)
    BY <1>3 DEF TypeInv, Disconnect
  <1>4. CASE Handle_C_LOGIN_AddPlayer(s)
    <2>1. owner' \in Seq(Sessions) /\ Len(owner') \in Nat
      BY <1>4, AppendProperties, LenProperties DEF TypeInv, Handle_C_LOGIN_AddPlayer
    <2>2. players' \in [Sessions -> Seq(Nat)]
      BY <1>4, <2>1 DEF TypeInv, Handle_C_LOGIN_AddPlayer
    <2>3. step' \in [Sessions -> 1..3]
      BY <1>4 DEF TypeInv, Handle_C_LOGIN_AddPlayer, NextStep, Handles
    <2> QED BY <1>4, <2>1, <2>2, <2>3 DEF TypeInv, Handle_C_LOGIN_AddPlayer, NextStep
  <1>5. CASE Handle_C_LOGIN_Answer(s)
    <2>1. toClient' \in [Sessions -> Seq(FromServer)]
      BY <1>5, TypeSend, PacketTypes DEF Handle_C_LOGIN_Answer
    <2> QED BY <1>5, <2>1, TypeReturn DEF TypeInv, Handle_C_LOGIN_Answer, Handles
  <1>6. CASE Handle_C_ENTER_GAME_Choose(s)
    <2>1. Head(players[s]) \in Nat
      BY <1>6 DEF TypeInv, Handle_C_ENTER_GAME_Choose
    <2>2. step' \in [Sessions -> 1..3]
      BY <1>6 DEF TypeInv, Handle_C_ENTER_GAME_Choose, NextStep, Handles
    <2> QED BY <1>6, <2>1, <2>2 DEF TypeInv, Handle_C_ENTER_GAME_Choose, NextStep
  <1>7. CASE Handle_C_ENTER_GAME_Enter(s)
    <2>1. EnterJob(s, current[s]) \in JobType
      BY JobTypes DEF TypeInv
    <2>2. /\ pending' \in [{RoomQueue} -> Seq(JobType)]
          /\ active' \in [{RoomQueue} -> JobType \cup {NoJob}]
      BY <1>7, <2>1, TypeSubmit DEF Handle_C_ENTER_GAME_Enter
    <2>3. step' \in [Sessions -> 1..3]
      BY <1>7 DEF TypeInv, Handle_C_ENTER_GAME_Enter, NextStep, Handles
    <2> QED BY <1>7, <2>2, <2>3 DEF TypeInv, Handle_C_ENTER_GAME_Enter, NextStep
  <1>8. CASE Handle_C_ENTER_GAME_Answer(s)
    <2>1. owner[current[s]] \in Sessions
      BY <1>8 DEF TypeInv, Handle_C_ENTER_GAME_Answer
    <2>2. toClient' \in [Sessions -> Seq(FromServer)]
      BY <1>8, <2>1, TypeSend, PacketTypes DEF Handle_C_ENTER_GAME_Answer
    <2> QED BY <1>8, <2>2, TypeReturn DEF TypeInv, Handle_C_ENTER_GAME_Answer, Handles
  <1>9. CASE Handle_C_CHAT(s)
    <2>1. Head(batch[s]).n \in Nat
      BY <1>9, PacketTypes DEF TypeInv, Handle_C_CHAT, Handles
    <2>2. BroadcastJob(s, Head(batch[s]).n) \in JobType
      BY <2>1, JobTypes
    <2>3. /\ pending' \in [{RoomQueue} -> Seq(JobType)]
          /\ active' \in [{RoomQueue} -> JobType \cup {NoJob}]
      BY <1>9, <2>2, TypeSubmit DEF Handle_C_CHAT
    <2> QED BY <1>9, <2>3, TypeReturn DEF TypeInv, Handle_C_CHAT, Handles
  <1>10. CASE OnDisconnected_Leave(s)
    <2>1. /\ pending' \in [{RoomQueue} -> Seq(JobType)]
          /\ active' \in [{RoomQueue} -> JobType \cup {NoJob}]
      <3>1. LeaveJob(s, current[s]) \in JobType
        BY JobTypes DEF TypeInv
      <3>2. CASE DoAsync(LeaveJob(s, current[s]))
        BY <3>1, <3>2, TypeSubmit
      <3>3. CASE UNCHANGED queueVars
        BY <3>3 DEF TypeInv
      <3> QED BY <1>10, <3>2, <3>3 DEF OnDisconnected_Leave
    <2>2. raced' \in [Sessions -> BOOLEAN]
      BY <1>10 DEF TypeInv, OnDisconnected_Leave
    <2> QED BY <1>10, <2>1, <2>2 DEF TypeInv, OnDisconnected_Leave
  <1>11. CASE OnDisconnected_Clear(s)
    BY <1>11, EmptySeq DEF TypeInv, OnDisconnected_Clear, NoPlayer
  <1> QED BY <1>1, <1>2, <1>3, <1>4, <1>5, <1>6, <1>7, <1>8, <1>9, <1>10, <1>11
      DEF Worker, Handler

LEMMA LeastNumber ==
  ASSUME NEW T \in SUBSET Nat, T # {}
  PROVE  \E n \in T : \A m \in T : n <= m
  <1> DEFINE R == {ss \in Nat \X Nat : ss[1] < ss[2]}
  <1>1. IsWellFoundedOn(R, Nat)
    BY NatLessThanWellFounded, Zenon DEF OpToRel
  <1>2. \A i, j \in Nat : i < j => <<i, j>> \in R
    OBVIOUS
  <1> HIDE DEF R
  <1>3. PICK n \in T : \A m \in T : ~(<<m, n>> \in R)
    BY <1>1, WFMin, Zenon
  <1>4. \A m \in T : n <= m
    <2> TAKE m \in T
    <2>1. m \in Nat /\ n \in Nat /\ ~(<<m, n>> \in R)
      BY <1>3
    <2>2. ~(m < n)
      BY <1>2, <2>1
    <2>3. QED
      BY <2>1, <2>2
  <1> QED BY <1>4

\* The member the broadcast sends to next.
Turn == CHOOSE q \in targets : \A r \in targets : q <= r

LEMMA BroadcastTurn ==
  ASSUME TypeInv, MemberInv, JobInv, BroadcastSend
  PROVE  /\ Turn \in targets /\ Turn \in roomPlayers /\ Turn \in 1..Len(owner)
         /\ owner[Turn] \in Sessions
         /\ Line # <<>> /\ Line[1] = Job /\ Line[1].do = "Broadcast" /\ Job \in JobType
         /\ Job.n \in 1..MaxChats
         /\ [name |-> "S_CHAT", from |-> Job.from, n |-> Job.n] \in Said
         /\ Send(owner[Turn], [name |-> "S_CHAT", from |-> Job.from, n |-> Job.n])
         /\ targets' = targets \ {Turn}
         /\ UNCHANGED <<roomFrame, queueVars, roomPlayers>>
  <1>1. targets \in SUBSET Nat /\ targets # {}
    <2>1. targets \subseteq 1..Len(owner) /\ Len(owner) \in Nat
      BY LenProperties DEF TypeInv, MemberInv
    <2>2. targets # {}
      BY DEF BroadcastSend
    <2> QED BY <2>1, <2>2
  <1>2. \E q \in targets : \A r \in targets : q <= r
    BY <1>1, LeastNumber
  <1>3. Turn \in targets
    BY <1>2 DEF Turn
  <1>4. Turn \in roomPlayers /\ Turn \in 1..Len(owner) /\ owner[Turn] \in Sessions
    BY <1>3 DEF MemberInv, TypeInv
  <1>5. active[RoomQueue].do = "Broadcast" /\ active[RoomQueue] # NoJob
    BY JobTypes DEF BroadcastSend, Running
  <1>6. Line # <<>> /\ Line[1] = Job /\ Job \in JobType /\ Line[1].do = "Broadcast"
    BY <1>5, LineType DEF Job
  <1>7. 1 \in 1..Len(Line)
    BY <1>6, LineType, LenProperties, EmptySeq
  <1>8. Job.n \in 1..MaxChats
    BY <1>6, <1>7 DEF JobInv, JobOK
  <1>9. [name |-> "S_CHAT", from |-> Job.from, n |-> Job.n] \in Said
    BY <1>6, <1>8, JobTypes DEF Said
  <1> QED BY <1>3, <1>4, <1>6, <1>8, <1>9 DEF BroadcastSend, Turn

LEMMA TypeRoom ==
  ASSUME TypeInv, MemberInv, JobInv, Room
  PROVE  TypeInv'
  <1> USE DEF roomFrame, sessionVars, serverVars, queueVars, clientVars
  <1>1. CASE StartJob
    <2>1. active'[RoomQueue] \in JobType
      BY <1>1, LineStart DEF StartJob
    <2>2. active' \in [{RoomQueue} -> JobType \cup {NoJob}]
      BY <1>1, <2>1 DEF TypeInv, StartJob, Queue!Start
    <2>3. pending' \in [{RoomQueue} -> Seq(JobType)]
      BY <1>1 DEF TypeInv, StartJob, Queue!Start
    <2> QED BY <1>1, <2>2, <2>3 DEF TypeInv, StartJob
  <1>2. CASE Enter
    BY <1>2 DEF TypeInv, Enter, Queue!Finish
  <1>3. CASE Leave
    BY <1>3 DEF TypeInv, Leave, Queue!Finish
  <1>4. CASE BroadcastSend
    <2>1. toClient' \in [Sessions -> Seq(FromServer)]
      BY <1>4, BroadcastTurn, TypeSend DEF FromServer
    <2> QED BY <1>4, <2>1 DEF TypeInv, BroadcastSend
  <1>5. CASE BroadcastEnd
    BY <1>5 DEF TypeInv, BroadcastEnd, Queue!Finish
  <1> QED BY <1>1, <1>2, <1>3, <1>4, <1>5 DEF Room

-----------------------------------------------------------------------------
(* A step of one session's client or workers.                              *)

LocalStep(s) ==
  /\ \A r \in Sessions : r # s => SameSession(r) /\ toClient'[r] = toClient[r]
  /\ OwnerGrows
  /\ roomPlayers' = roomPlayers /\ targets' = targets /\ active' = active
  /\ \A r \in Sessions : raced[r] => raced'[r]
  /\ Line' = Line \/ \E e \in JobType : e.from = s /\ Line' = Append(Line, e)

LEMMA LineSame ==
  ASSUME UNCHANGED queueVars
  PROVE  Line' = Line /\ active' = active
  BY DEF queueVars, Line

LEMMA InboxSame ==
  ASSUME NEW r, batch'[r] = batch[r], toServer'[r] = toServer[r]
  PROVE  Inbox(r)' = Inbox(r)
  BY DEF Inbox

LEMMA ClientLocal ==
  ASSUME TypeInv, NEW s \in Sessions, Client(s) \/ Break(s)
  PROVE  /\ LocalStep(s) /\ Line' = Line /\ owner' = owner
         /\ UNCHANGED <<toClient, sessionVars>>
  <1>1. UNCHANGED <<toClient, sessionVars, serverVars, roomVars>>
    BY DEF Client, Break, ClientConnect, ClientOnConnected, ClientBroadcast, ClientRecv, clientFrame
  <1>2. /\ UNCHANGED queueVars /\ roomPlayers' = roomPlayers /\ targets' = targets
        /\ owner' = owner
    BY <1>1 DEF roomVars, serverVars
  <1>3. Line' = Line /\ active' = active
    BY <1>2, LineSame
  <1>4. UNCHANGED <<connected, posted, batch, step, closing, players, current, inRoom, raced>>
    BY <1>1 DEF sessionVars
  <1>5. ASSUME NEW r \in Sessions, r # s
        PROVE  client'[r] = client[r] /\ seen'[r] = seen[r] /\ toServer'[r] = toServer[r]
    <2>1. CASE ClientConnect(s)
      BY <1>5, <2>1 DEF ClientConnect, TypeInv
    <2>2. CASE ClientOnConnected(s)
      BY <1>5, <2>2 DEF ClientOnConnected, ToServer, TypeInv
    <2>3. CASE ClientBroadcast(s)
      BY <1>5, <2>3 DEF ClientBroadcast, ToServer, TypeInv
    <2>4. CASE ClientRecv(s)
      BY <1>5, <2>4 DEF ClientRecv, ToServer, TypeInv
    <2>5. CASE Break(s)
      BY <2>5 DEF Break, clientVars
    <2> QED BY <2>1, <2>2, <2>3, <2>4, <2>5 DEF Client
  <1>6. ASSUME NEW r \in Sessions, r # s PROVE SameSession(r)
    BY <1>4, <1>5, <1>6, InboxSame DEF SameSession
  <1> QED BY <1>1, <1>2, <1>3, <1>4, <1>6 DEF LocalStep, OwnerGrows

LEMMA WorkerLocal ==
  ASSUME TypeInv, NEW s \in Sessions, Worker(s), FreshInv(s), PlayerInv(s)
  PROVE  LocalStep(s) /\ client' = client /\ seen' = seen
  <1> DEFINE Locals ==
               /\ client' = client /\ seen' = seen
               /\ roomPlayers' = roomPlayers /\ targets' = targets
               /\ \A r \in Sessions : r # s =>
                    /\ toServer'[r] = toServer[r] /\ batch'[r] = batch[r] /\ step'[r] = step[r]
                    /\ connected'[r] = connected[r] /\ posted'[r] = posted[r]
                    /\ closing'[r] = closing[r] /\ players'[r] = players[r]
                    /\ current'[r] = current[r] /\ inRoom'[r] = inRoom[r]
                    /\ raced'[r] = raced[r] /\ toClient'[r] = toClient[r]
             Jobs1 == /\ active' = active
                      /\ \/ Line' = Line
                         \/ \E e \in JobType : e.from = s /\ Line' = Append(Line, e)
  <1> USE DEF Unchanged, Others, sessionVars, serverVars, roomVars, clientVars
  <1>1. CASE ProcessAccept(s)
    <2>1. Locals /\ UNCHANGED queueVars /\ owner' = owner /\ raced' = raced
      BY <1>1 DEF ProcessAccept, TypeInv
    <2> QED BY <2>1, LineSame, InboxSame DEF LocalStep, OwnerGrows, SameSession
  <1>2. CASE ProcessRecv(s)
    <2>1. Locals /\ UNCHANGED queueVars /\ owner' = owner
      BY <1>2 DEF ProcessRecv, TypeInv
    <2>2. \A r \in Sessions : raced[r] => raced'[r]
      BY <1>2 DEF ProcessRecv, TypeInv
    <2> QED BY <2>1, <2>2, LineSame, InboxSame DEF LocalStep, OwnerGrows, SameSession
  <1>3. CASE Disconnect(s)
    <2>1. Locals /\ UNCHANGED queueVars /\ owner' = owner /\ raced' = raced
      BY <1>3 DEF Disconnect, TypeInv
    <2> QED BY <2>1, LineSame, InboxSame DEF LocalStep, OwnerGrows, SameSession
  <1>4. CASE Handle_C_LOGIN_AddPlayer(s)
    <2>1. Locals /\ UNCHANGED queueVars /\ owner' = Append(owner, s) /\ raced' = raced
      BY <1>4 DEF Handle_C_LOGIN_AddPlayer, NextStep, TypeInv
    <2> QED BY <2>1, LineSame, InboxSame DEF LocalStep, OwnerGrows, SameSession
  <1>5. CASE Handle_C_LOGIN_Answer(s)
    <2>1. Locals /\ UNCHANGED queueVars /\ owner' = owner /\ raced' = raced
      BY <1>5 DEF Handle_C_LOGIN_Answer, Return, Send, TypeInv
    <2> QED BY <2>1, LineSame, InboxSame DEF LocalStep, OwnerGrows, SameSession
  <1>6. CASE Handle_C_ENTER_GAME_Choose(s)
    <2>1. Locals /\ UNCHANGED queueVars /\ owner' = owner /\ raced' = raced
      BY <1>6 DEF Handle_C_ENTER_GAME_Choose, NextStep, TypeInv
    <2> QED BY <2>1, LineSame, InboxSame DEF LocalStep, OwnerGrows, SameSession
  <1>7. CASE Handle_C_ENTER_GAME_Enter(s)
    <2>1. Locals /\ DoAsync(EnterJob(s, current[s])) /\ owner' = owner /\ raced' = raced
      BY <1>7 DEF Handle_C_ENTER_GAME_Enter, NextStep, TypeInv
    <2>2. EnterJob(s, current[s]) \in JobType /\ EnterJob(s, current[s]).from = s
      BY JobTypes DEF TypeInv, EnterJob
    <2> QED BY <2>1, <2>2, LineSubmit, InboxSame DEF LocalStep, OwnerGrows, SameSession
  <1>8. CASE Handle_C_ENTER_GAME_Answer(s)
    <2>1. owner[current[s]] = s
      BY <1>8 DEF Handle_C_ENTER_GAME_Answer, PlayerInv
    <2>2. Locals /\ UNCHANGED queueVars /\ owner' = owner /\ raced' = raced
      BY <1>8, <2>1 DEF Handle_C_ENTER_GAME_Answer, Return, Send, TypeInv
    <2> QED BY <2>2, LineSame, InboxSame DEF LocalStep, OwnerGrows, SameSession
  <1>9. CASE Handle_C_CHAT(s)
    <2> DEFINE e == BroadcastJob(s, Head(batch[s]).n)
    <2>1. Locals /\ DoAsync(e) /\ owner' = owner /\ raced' = raced
      BY <1>9 DEF Handle_C_CHAT, Return, TypeInv
    <2>2. Head(batch[s]).n \in Nat
      BY <1>9, PacketTypes DEF TypeInv, Handle_C_CHAT, Handles
    <2>3. e \in JobType /\ e.from = s
      BY <2>2, JobTypes DEF BroadcastJob
    <2> QED BY <2>1, <2>3, LineSubmit, InboxSame DEF LocalStep, OwnerGrows, SameSession
  <1>10. CASE OnDisconnected_Leave(s)
    <2> DEFINE e == LeaveJob(s, current[s])
    <2>1. Locals /\ owner' = owner /\ (DoAsync(e) \/ UNCHANGED queueVars)
      BY <1>10 DEF OnDisconnected_Leave, TypeInv
    <2>2. \A r \in Sessions : raced[r] => raced'[r]
      BY <1>10 DEF OnDisconnected_Leave, TypeInv
    <2>3. e \in JobType /\ e.from = s
      BY JobTypes DEF LeaveJob, TypeInv
    <2> QED BY <2>1, <2>2, <2>3, LineSubmit, LineSame, InboxSame
            DEF LocalStep, OwnerGrows, SameSession
  <1>11. CASE OnDisconnected_Clear(s)
    <2>1. Locals /\ UNCHANGED queueVars /\ owner' = owner /\ raced' = raced
      BY <1>11 DEF OnDisconnected_Clear, TypeInv
    <2> QED BY <2>1, LineSame, InboxSame DEF LocalStep, OwnerGrows, SameSession
  <1> QED BY <1>1, <1>2, <1>3, <1>4, <1>5, <1>6, <1>7, <1>8, <1>9, <1>10, <1>11
      DEF Worker, Handler

\* Who sits in the room is a matter of the room alone.
LEMMA SeatedKept ==
  ASSUME TypeInv, MemberInv, OwnerGrows, roomPlayers' = roomPlayers, NEW r
  PROVE  Seated(r)' = Seated(r)
  <1>1. \A p \in roomPlayers : owner'[p] = owner[p]
    BY OwnerKept DEF MemberInv
  <1> QED BY <1>1 DEF Seated

LEMMA LocalOthers ==
  ASSUME TypeInv, MemberInv, NEW s \in Sessions, LocalStep(s),
         \A r \in Sessions : SessionInv(r), SessionInv(s)'
  PROVE  MemberInv' /\ \A r \in Sessions : SessionInv(r)'
  <1>1. ASSUME NEW r \in Sessions, r # s PROVE SessionInv(r)'
    <2>1. SameSession(r) /\ MayHear(r) /\ OwnerGrows
      BY <1>1 DEF LocalStep, MayHear
    <2>2. LineKeeps(r)
      BY <1>1 DEF LocalStep, LineKeeps
    <2>3. Seated(r)' = Seated(r)
      BY <2>1, SeatedKept DEF LocalStep
    <2> QED BY <2>1, <2>2, <2>3, SessionFrame
  <1>2. MemberInv'
    <2>1. \A p \in roomPlayers : p \in 1..Len(owner')
      BY OwnerKept DEF MemberInv, LocalStep
    <2> QED BY <2>1 DEF MemberInv, LocalStep, Running
  <1> QED BY <1>1, <1>2

\* The jobs in the line stay good when players are added and sessions race.
LEMMA JobsKept ==
  ASSUME TypeInv, JobInv, OwnerGrows, \A r \in Sessions : raced[r] => raced'[r]
  PROVE  /\ Line' = Line => JobInv'
         /\ \A e \in JobType : Line' = Append(Line, e) /\ JobOK(e, owner', raced') => JobInv'
         /\ Line # <<>> /\ Line' = Tail(Line) => JobInv'
  <1> DEFINE q == Line
  <1>1. q \in Seq(JobType) /\ Len(q) \in Nat
    BY LineType, LenProperties
  <1>2. ASSUME NEW i \in 1..Len(q) PROVE JobOK(q[i], owner', raced')
    <2> DEFINE j == q[i]
    <2>1. JobOK(j, owner, raced) /\ j \in JobType
      BY <1>1 DEF JobInv
    <2> HIDE DEF j
    <2>2. j.from \in Sessions
      BY <2>1, JobTypes
    <2>3. JobOK(j, owner', raced')
      BY <2>1, <2>2, OwnerKept DEF JobOK
    <2> QED BY <2>3 DEF j
  <1>3. JobInv' <=> \A i \in 1..Len(Line') : JobOK(Line'[i], owner', raced')
    BY DEF JobInv
  <1>4. ASSUME NEW e \in JobType, Line' = Append(Line, e), JobOK(e, owner', raced') PROVE JobInv'
    <2>1. \A i \in 1..Len(Line') : Line'[i] = e \/ (i \in 1..Len(q) /\ Line'[i] = q[i])
      BY <1>1, <1>4, AppendProperties
    <2> QED BY <1>2, <1>3, <1>4, <2>1
  <1>5. ASSUME q # <<>>, Line' = Tail(q) PROVE JobInv'
    <2>1. \A i \in 1..Len(Line') : i + 1 \in 1..Len(q) /\ Line'[i] = q[i + 1]
      <3> HIDE DEF q
      <3> QED BY <1>1, <1>5, HeadTailProperties, EmptySeq
    <2> QED BY <1>2, <1>3, <2>1
  <1> QED BY <1>2, <1>3, <1>4, <1>5

-----------------------------------------------------------------------------
(* The client's steps.                                                     *)

\* What a step of the client leaves of the session's invariant.
LEMMA ClientKeeps ==
  ASSUME TypeInv, MemberInv, NEW s \in Sessions, SessionInv(s), Client(s)
  PROVE  /\ NoEntry(s)' <=> NoEntry(s)
         /\ \A name : InHandler(s, name)' <=> InHandler(s, name)
         /\ toClient' = toClient /\ current' = current /\ step' = step
         /\ PlayerInv(s)' /\ SeatInv(s)' /\ PlaceInv(s)' /\ ToldInv(s)'
         /\ seen'[s] <= Len(toClient[s]) => FreshInv(s)'
  <1>1. /\ Line' = Line /\ Seated(s)' = Seated(s) /\ owner' = owner /\ toClient' = toClient
        /\ UNCHANGED <<connected, posted, batch, step, closing, players, current, inRoom, raced>>
    BY ClientLocal, SeatedKept DEF LocalStep, sessionVars
  <1> HIDE DEF Line, Seated
  <1>2. NoEntry(s)' <=> NoEntry(s)
    BY <1>1 DEF NoEntry
  <1>3. /\ InHandler(s, "C_LOGIN")' <=> InHandler(s, "C_LOGIN")
        /\ \A name : InHandler(s, name)' <=> InHandler(s, name)
        /\ Entered(s)' <=> Entered(s)
    BY <1>1 DEF InHandler, Entered
  <1>4. PlayerInv(s)'
    BY <1>1, <1>3 DEF PlayerInv, SessionInv
  <1>5. SeatInv(s)'
    BY <1>1 DEF SeatInv, SessionInv
  <1>6. PlaceInv(s)'
    BY <1>1, <1>2, <1>3 DEF PlaceInv, SessionInv
  <1>7. ToldInv(s)'
    BY <1>1, <1>2, <1>3 DEF ToldInv, SessionInv
  <1>8. seen'[s] <= Len(toClient[s]) => FreshInv(s)'
    BY <1>1, <1>3 DEF FreshInv, SessionInv
  <1> QED BY <1>1, <1>2, <1>3, <1>4, <1>5, <1>6, <1>7, <1>8

LEMMA ClientSession ==
  ASSUME TypeInv, MemberInv, NEW s \in Sessions, SessionInv(s), Client(s)
  PROVE  SessionInv(s)'
  <1>0. FreshInv(s) /\ OnceInv(s) /\ EntryInv(s)
    BY DEF SessionInv
  <1> USE ClientKeeps
  <1>1. Inbox(s) \in Seq(FromClient)
    BY InboxType
  <1>2. batch' = batch
    BY ClientLocal DEF sessionVars
  <1> HIDE DEF Inbox, NoEntry
  <1>3. CASE ClientConnect(s)
    <2>1. client[s] = "connecting" /\ client'[s] = "added" /\ seen' = seen /\ toServer' = toServer
      BY <1>3 DEF ClientConnect, TypeInv
    <2>2. Inbox(s)' = Inbox(s)
      BY <1>2, <2>1, InboxSame
    <2>3. LoggedIn(s)' <=> LoggedIn(s)
      BY <2>1 DEF LoggedIn
    <2>4. FreshInv(s)'
      BY <1>0, <2>1 DEF FreshInv
    <2>5. OnceInv(s)'
      BY <1>0, <2>1, <2>2 DEF OnceInv
    <2>6. EntryInv(s)'
      BY <1>0, <2>2, <2>3 DEF EntryInv
    <2> QED BY <2>4, <2>5, <2>6 DEF SessionInv
  <1>4. CASE ClientOnConnected(s)
    <2>1. client[s] # "in" /\ client'[s] = "in" /\ seen' = seen /\ ToServer(s, Packet("C_LOGIN"))
      BY <1>4 DEF ClientOnConnected, TypeInv
    <2>2. Inbox(s)' = Append(Inbox(s), Packet("C_LOGIN")) \/ Inbox(s)' = Inbox(s)
      BY <1>2, <2>1, InboxAppend, PacketTypes
    <2>3. LoggedIn(s)' <=> LoggedIn(s)
      BY <2>1 DEF LoggedIn
    <2>4. FreshInv(s)'
      BY <1>0, <2>1 DEF FreshInv
    <2>5. ~Named(Inbox(s), "C_LOGIN") /\ ~Named(toClient[s], "S_LOGIN")
      BY <1>0, <2>1 DEF OnceInv
    <2>6. /\ Once(Inbox(s)', "C_LOGIN") /\ Once(Inbox(s)', "C_ENTER_GAME")
          /\ Named(Inbox(s)', "C_ENTER_GAME") <=> Named(Inbox(s), "C_ENTER_GAME")
      BY <1>0, <1>1, <2>2, <2>5, InboxNames, PacketTypes DEF OnceInv
    <2>7. OnceInv(s)'
      BY <1>0, <2>1, <2>5, <2>6 DEF OnceInv
    <2>8. EntryInv(s)'
      BY <1>0, <2>3, <2>6 DEF EntryInv
    <2> QED BY <2>4, <2>7, <2>8 DEF SessionInv
  <1>5. CASE ClientBroadcast(s)
    <2> DEFINE p == [name |-> "C_CHAT", from |-> s, n |-> chats'[s]]
    <2>1. client' = client /\ seen' = seen /\ ToServer(s, p) /\ chats'[s] \in 1..MaxChats
      BY <1>5, GameRoomAssumption DEF ClientBroadcast, TypeInv
    <2>2. p \in FromClient /\ p.name = "C_CHAT"
      BY <2>1, PacketTypes
    <2> HIDE DEF p
    <2>3. Inbox(s)' = Append(Inbox(s), p) \/ Inbox(s)' = Inbox(s)
      <3> SUFFICES ASSUME NEW e \in FromClient, e = p
                   PROVE  Inbox(s)' = Append(Inbox(s), e) \/ Inbox(s)' = Inbox(s)
        BY <2>2
      <3> QED BY <1>2, <2>1, InboxAppend
    <2>4. LoggedIn(s)' <=> LoggedIn(s)
      BY <2>1 DEF LoggedIn
    <2>5. FreshInv(s)'
      BY <1>0, <2>1 DEF FreshInv
    <2>6. /\ Once(Inbox(s)', "C_LOGIN") /\ Once(Inbox(s)', "C_ENTER_GAME")
          /\ Named(Inbox(s)', "C_LOGIN") <=> Named(Inbox(s), "C_LOGIN")
          /\ Named(Inbox(s)', "C_ENTER_GAME") <=> Named(Inbox(s), "C_ENTER_GAME")
      BY <1>0, <1>1, <2>2, <2>3, InboxNames DEF OnceInv
    <2>7. OnceInv(s)'
      BY <1>0, <2>1, <2>6 DEF OnceInv
    <2>8. EntryInv(s)'
      BY <1>0, <2>4, <2>6 DEF EntryInv
    <2> QED BY <2>5, <2>7, <2>8 DEF SessionInv
  <1>6. CASE ClientRecv(s)
    <2> DEFINE q == toClient[s]
    <2>1. /\ client' = client /\ client[s] = "in"
          /\ seen[s] \in Nat /\ seen[s] < Len(q) /\ seen'[s] = seen[s] + 1 /\ q \in Seq(FromServer)
          /\ \/ q[seen[s] + 1].name = "S_LOGIN" /\ ToServer(s, Packet("C_ENTER_GAME"))
             \/ q[seen[s] + 1].name # "S_LOGIN" /\ toServer' = toServer
      BY <1>6 DEF ClientRecv, TypeInv
    <2>2. FreshInv(s)'
      BY <2>1, LenProperties DEF FreshInv
    <2>3. LoggedIn(s)' <=> LoggedIn(s) \/ q[seen[s] + 1].name = "S_LOGIN"
      <3>1. LoggedIn(s)' <=> NamedTo(q, "S_LOGIN", seen[s] + 1)
        BY <2>1 DEF LoggedIn
      <3>2. LoggedIn(s) <=> NamedTo(q, "S_LOGIN", seen[s])
        BY DEF LoggedIn
      <3> HIDE DEF q
      <3> QED BY <2>1, <3>1, <3>2 DEF NamedTo
    <2>4. CASE q[seen[s] + 1].name = "S_LOGIN" /\ ToServer(s, Packet("C_ENTER_GAME"))
      <3>1. Inbox(s)' = Append(Inbox(s), Packet("C_ENTER_GAME")) \/ Inbox(s)' = Inbox(s)
        BY <1>2, <2>4, InboxAppend, PacketTypes
      <3>2. ~LoggedIn(s)
        <4> SUFFICES ASSUME NEW i \in 1..seen[s], q[i].name = "S_LOGIN" PROVE FALSE
          BY DEF LoggedIn, NamedTo
        <4>1. i \in 1..Len(q) /\ seen[s] + 1 \in 1..Len(q) /\ i # seen[s] + 1
          BY <2>1, LenProperties
        <4>2. Once(q, "S_LOGIN")
          BY <1>0 DEF OnceInv
        <4> QED BY <2>4, <4>1, <4>2 DEF Once
      <3>3. ~Named(Inbox(s), "C_ENTER_GAME") /\ current[s] = NoPlayer /\ NoEntry(s)
        BY <1>0, <3>2 DEF EntryInv
      <3>4. /\ Once(Inbox(s)', "C_LOGIN") /\ Once(Inbox(s)', "C_ENTER_GAME")
            /\ Named(Inbox(s)', "C_LOGIN") <=> Named(Inbox(s), "C_LOGIN")
        BY <1>0, <1>1, <3>1, <3>3, InboxNames, PacketTypes DEF OnceInv
      <3>5. OnceInv(s)'
        BY <1>0, <2>1, <3>4 DEF OnceInv
      <3>6. EntryInv(s)'
        BY <1>0, <2>3, <2>4, <3>3 DEF EntryInv
      <3> QED BY <2>2, <3>5, <3>6 DEF SessionInv
    <2>5. CASE q[seen[s] + 1].name # "S_LOGIN" /\ toServer' = toServer
      <3>1. Inbox(s)' = Inbox(s)
        BY <1>2, <2>5, InboxSame
      <3>2. OnceInv(s)'
        BY <1>0, <2>1, <3>1 DEF OnceInv
      <3>3. EntryInv(s)'
        BY <1>0, <2>3, <2>5, <3>1 DEF EntryInv
      <3> QED BY <2>2, <3>2, <3>3 DEF SessionInv
    <2> QED BY <2>1, <2>4, <2>5
  <1> QED BY <1>3, <1>4, <1>5, <1>6 DEF Client

-----------------------------------------------------------------------------
(* The workers' steps.                                                     *)

LEMMA HandledNamed ==
  ASSUME NEW b \in Seq(FromClient), NEW t \in Seq(FromClient), b # <<>>
  PROVE  Named(b \o t, Head(b).name)
  <1>1. b \o t \in Seq(FromClient) /\ b \o t # <<>> /\ (b \o t)[1] = Head(b)
    BY ConcatProperties
  <1> QED BY <1>1, NamedTail

LEMMA HandlerNext ==
  ASSUME TypeInv', NEW s \in Sessions
  PROVE  \A name : InHandler(s, name)' => Named(Inbox(s)', name)
  <1>1. batch'[s] \in Seq(FromClient) /\ toServer'[s] \in Seq(FromClient)
    BY DEF TypeInv
  <1> QED BY <1>1, HandledNamed DEF InHandler, Inbox

\* The worker's steps that do not submit a job leave the room's view of the
\* session as it was.
LEMMA WorkerKeeps ==
  ASSUME TypeInv, MemberInv, NEW s \in Sessions, SessionInv(s), Worker(s)
  PROVE  /\ client' = client /\ seen' = seen /\ Seated(s)' = Seated(s)
         /\ \A p \in 1..Len(owner) : p \in 1..Len(owner') /\ owner'[p] = owner[p]
         /\ UNCHANGED queueVars => Line' = Line /\ (NoEntry(s)' <=> NoEntry(s))
  <1>1. LocalStep(s) /\ client' = client /\ seen' = seen
    BY WorkerLocal DEF SessionInv
  <1>2. OwnerGrows /\ roomPlayers' = roomPlayers
    BY <1>1 DEF LocalStep
  <1>3. Seated(s)' = Seated(s)
    BY <1>2, SeatedKept
  <1> HIDE DEF Seated
  <1>4. UNCHANGED queueVars => Line' = Line /\ (NoEntry(s)' <=> NoEntry(s))
    BY <1>3, LineSame DEF NoEntry
  <1> QED BY <1>1, <1>2, <1>3, <1>4, OwnerKept

LEMMA AcceptSession ==
  ASSUME TypeInv, MemberInv, NEW s \in Sessions, SessionInv(s), ProcessAccept(s)
  PROVE  SessionInv(s)'
  <1>0. /\ FreshInv(s) /\ OnceInv(s) /\ EntryInv(s) /\ PlayerInv(s)
        /\ SeatInv(s) /\ PlaceInv(s) /\ ToldInv(s)
    BY DEF SessionInv
  <1>1. /\ ~connected[s] /\ closing[s] = "no" /\ connected'[s] /\ posted'[s]
        /\ closing' = closing /\ raced' = raced /\ inRoom' = inRoom /\ players' = players
        /\ current' = current /\ toClient' = toClient /\ batch' = batch /\ step' = step
        /\ toServer' = toServer /\ owner' = owner /\ UNCHANGED queueVars
    BY DEF ProcessAccept, Unchanged, clientVars, roomVars, TypeInv
  <1>2. /\ client' = client /\ seen' = seen /\ Line' = Line /\ Seated(s)' = Seated(s)
        /\ NoEntry(s)' <=> NoEntry(s)
    BY <1>1, WorkerKeeps DEF Worker
  <1>3. Inbox(s)' = Inbox(s)
    BY <1>1, InboxSame
  <1>4. /\ \A name : InHandler(s, name)' <=> InHandler(s, name)
        /\ Entered(s)' <=> Entered(s)
        /\ LoggedIn(s)' <=> LoggedIn(s)
    BY <1>1, <1>2 DEF InHandler, Entered, LoggedIn
  <1> HIDE DEF Inbox, Line, Seated, NoEntry, InHandler
  <1>5. batch[s] = <<>>
    BY <1>0, <1>1 DEF FreshInv
  <1>6. FreshInv(s)'
    BY <1>0, <1>1, <1>2, <1>4, <1>5 DEF FreshInv
  <1>7. OnceInv(s)'
    BY <1>0, <1>1, <1>2, <1>3 DEF OnceInv
  <1>8. EntryInv(s)'
    BY <1>0, <1>1, <1>2, <1>3, <1>4 DEF EntryInv
  <1>9. PlayerInv(s)'
    BY <1>0, <1>1, <1>4 DEF PlayerInv
  <1>10. SeatInv(s)'
    BY <1>0, <1>1, <1>2 DEF SeatInv
  <1>11. PlaceInv(s)'
    BY <1>0, <1>1, <1>2, <1>4 DEF PlaceInv
  <1>12. ToldInv(s)'
    BY <1>0, <1>1, <1>2, <1>4 DEF ToldInv
  <1> QED BY <1>6, <1>7, <1>8, <1>9, <1>10, <1>11, <1>12 DEF SessionInv

LEMMA RecvSession ==
  ASSUME TypeInv, TypeInv', MemberInv, NEW s \in Sessions, SessionInv(s), ProcessRecv(s)
  PROVE  SessionInv(s)'
  <1>0. /\ FreshInv(s) /\ OnceInv(s) /\ EntryInv(s) /\ PlayerInv(s)
        /\ SeatInv(s) /\ PlaceInv(s) /\ ToldInv(s)
    BY DEF SessionInv
  <1>1. /\ posted[s] /\ ~posted'[s] /\ (raced'[s] <=> raced[s] \/ closing[s] # "no")
        /\ connected' = connected
        /\ closing' = closing /\ inRoom' = inRoom /\ players' = players
        /\ current' = current /\ toClient' = toClient /\ step' = step
        /\ owner' = owner /\ UNCHANGED queueVars
    BY DEF ProcessRecv, Unchanged, serverVars, roomVars, TypeInv
  <1>2. batch[s] = <<>> /\ step[s] = 1 /\ (connected[s] \/ closing[s] # "no")
    BY <1>0, <1>1 DEF FreshInv
  <1>3. /\ client' = client /\ seen' = seen /\ Line' = Line /\ Seated(s)' = Seated(s)
        /\ NoEntry(s)' <=> NoEntry(s)
    BY <1>1, WorkerKeeps DEF Worker
  <1>4. Inbox(s)' = Inbox(s)
    BY <1>2, InboxRecv
  <1>5. LoggedIn(s)' <=> LoggedIn(s)
    BY <1>1, <1>3 DEF LoggedIn
  <1>6. \A name : ~InHandler(s, name)
    BY <1>2 DEF InHandler
  <1>7. InHandler(s, "C_ENTER_GAME")' => Named(Inbox(s), "C_ENTER_GAME")
    BY <1>4, HandlerNext
  <1> HIDE DEF Inbox, Line, Seated, NoEntry, InHandler
  <1>8. Entered(s)' <=> Entered(s)
    BY <1>0, <1>1, <1>6, <1>7 DEF Entered, EntryInv
  <1>9. FreshInv(s)'
    BY <1>0, <1>1, <1>2, <1>3 DEF FreshInv
  <1>10. OnceInv(s)'
    BY <1>0, <1>1, <1>3, <1>4 DEF OnceInv
  <1>11. EntryInv(s)'
    BY <1>0, <1>1, <1>2, <1>3, <1>4, <1>5, <1>6 DEF EntryInv
  <1>12. PlayerInv(s)'
    BY <1>0, <1>1, <1>2 DEF PlayerInv
  <1>13. SeatInv(s)'
    BY <1>0, <1>1, <1>3 DEF SeatInv
  <1>14. PlaceInv(s)'
    BY <1>0, <1>1, <1>3, <1>8 DEF PlaceInv
  <1>15. ToldInv(s)'
    BY <1>0, <1>1, <1>2, <1>3, <1>6 DEF ToldInv
  <1> QED BY <1>9, <1>10, <1>11, <1>12, <1>13, <1>14, <1>15 DEF SessionInv

LEMMA DisconnectSession ==
  ASSUME TypeInv, MemberInv, NEW s \in Sessions, SessionInv(s), Disconnect(s)
  PROVE  SessionInv(s)'
  <1>0. /\ FreshInv(s) /\ OnceInv(s) /\ EntryInv(s) /\ PlayerInv(s)
        /\ SeatInv(s) /\ PlaceInv(s) /\ ToldInv(s)
    BY DEF SessionInv
  <1>1. /\ connected[s] /\ ~connected'[s] /\ closing'[s] = "leave"
        /\ posted' = posted /\ raced' = raced /\ inRoom' = inRoom /\ players' = players
        /\ current' = current /\ toClient' = toClient /\ batch' = batch /\ step' = step
        /\ toServer' = toServer /\ owner' = owner /\ UNCHANGED queueVars
    BY DEF Disconnect, Unchanged, serverVars, roomVars, TypeInv
  <1>2. /\ client' = client /\ seen' = seen /\ Line' = Line /\ Seated(s)' = Seated(s)
        /\ NoEntry(s)' <=> NoEntry(s)
    BY <1>1, WorkerKeeps DEF Worker
  <1>3. Inbox(s)' = Inbox(s)
    BY <1>1, InboxSame
  <1>4. /\ \A name : InHandler(s, name)' <=> InHandler(s, name)
        /\ Entered(s)' <=> Entered(s)
        /\ LoggedIn(s)' <=> LoggedIn(s)
    BY <1>1, <1>2 DEF InHandler, Entered, LoggedIn
  <1> HIDE DEF Inbox, Line, Seated, NoEntry, InHandler
  <1>5. closing[s] = "no"
    BY <1>0, <1>1 DEF FreshInv
  <1>6. FreshInv(s)'
    BY <1>0, <1>1, <1>2, <1>4 DEF FreshInv
  <1>7. OnceInv(s)'
    BY <1>0, <1>1, <1>2, <1>3 DEF OnceInv
  <1>8. EntryInv(s)'
    BY <1>0, <1>1, <1>2, <1>3, <1>4 DEF EntryInv
  <1>9. PlayerInv(s)'
    BY <1>0, <1>1, <1>4, <1>5 DEF PlayerInv
  <1>10. SeatInv(s)'
    BY <1>0, <1>2, <1>5 DEF SeatInv
  <1>11. PlaceInv(s)'
    BY <1>0, <1>1, <1>2, <1>4, <1>5 DEF PlaceInv
  <1>12. ToldInv(s)'
    BY <1>1 DEF ToldInv
  <1> QED BY <1>6, <1>7, <1>8, <1>9, <1>10, <1>11, <1>12 DEF SessionInv

LEMMA AddPlayerSession ==
  ASSUME TypeInv, MemberInv, NEW s \in Sessions, SessionInv(s), Handle_C_LOGIN_AddPlayer(s)
  PROVE  SessionInv(s)'
  <1>0. /\ FreshInv(s) /\ OnceInv(s) /\ EntryInv(s) /\ PlayerInv(s)
        /\ SeatInv(s) /\ PlaceInv(s) /\ ToldInv(s)
    BY DEF SessionInv
  <1>1. /\ InHandler(s, "C_LOGIN") /\ step'[s] # 1
        /\ owner' = Append(owner, s) /\ players'[s] = Append(players[s], Len(owner'))
        /\ connected' = connected /\ posted' = posted /\ closing' = closing /\ raced' = raced
        /\ inRoom' = inRoom /\ current' = current /\ toClient' = toClient /\ batch' = batch
        /\ toServer' = toServer /\ UNCHANGED queueVars
    BY DEF Handle_C_LOGIN_AddPlayer, Handles, NextStep, Unchanged, Others, InHandler, TypeInv
  <1>2. /\ client' = client /\ seen' = seen /\ Line' = Line /\ Seated(s)' = Seated(s)
        /\ NoEntry(s)' <=> NoEntry(s)
        /\ \A p \in 1..Len(owner) : p \in 1..Len(owner') /\ owner'[p] = owner[p]
    BY <1>1, WorkerKeeps DEF Worker, Handler
  <1>3. Inbox(s)' = Inbox(s)
    BY <1>1, InboxSame
  <1>4. /\ \A name : InHandler(s, name)' <=> InHandler(s, name)
        /\ ~InHandler(s, "C_ENTER_GAME") /\ ~InHandler(s, "C_CHAT") /\ batch[s] # <<>>
    BY <1>1 DEF InHandler
  <1>5. Entered(s)' <=> Entered(s)
    BY <1>1, <1>4 DEF Entered
  <1>6. LoggedIn(s)' <=> LoggedIn(s)
    BY <1>1, <1>2 DEF LoggedIn
  <1> HIDE DEF Inbox, Line, Seated, NoEntry, InHandler
  <1>7. FreshInv(s)'
    BY <1>0, <1>1, <1>2, <1>4 DEF FreshInv
  <1>8. OnceInv(s)'
    BY <1>0, <1>1, <1>2, <1>3 DEF OnceInv
  <1>9. EntryInv(s)'
    BY <1>0, <1>1, <1>2, <1>3, <1>4, <1>6 DEF EntryInv
  <1>10. \A i \in 1..Len(players'[s]) :
           players'[s][i] \in 1..Len(owner') /\ owner'[players'[s][i]] = s
    <2>1. players[s] \in Seq(Nat) /\ owner \in Seq(Sessions)
      BY DEF TypeInv
    <2>2. Len(owner') \in 1..Len(owner') /\ owner'[Len(owner')] = s /\ Len(owner') \in Nat
      BY <1>1, <2>1, AppendProperties, LenProperties
    <2>3. \A i \in 1..Len(players'[s]) :
            players'[s][i] = Len(owner') \/ (i \in 1..Len(players[s]) /\ players'[s][i] = players[s][i])
      BY <1>1, <2>1, <2>2, AppendProperties
    <2>4. \A i \in 1..Len(players[s]) : players[s][i] \in 1..Len(owner) /\ owner[players[s][i]] = s
      BY <1>0 DEF PlayerInv
    <2> TAKE i \in 1..Len(players'[s])
    <2>5. CASE players'[s][i] = Len(owner')
      BY <2>2, <2>5
    <2>6. CASE i \in 1..Len(players[s]) /\ players'[s][i] = players[s][i]
      <3>1. players[s][i] \in 1..Len(owner) /\ owner[players[s][i]] = s
        BY <2>4, <2>6
      <3>2. players[s][i] \in 1..Len(owner') /\ owner'[players[s][i]] = owner[players[s][i]]
        BY <1>2, <3>1
      <3> QED BY <2>6, <3>1, <3>2
    <2> QED BY <2>3, <2>5, <2>6
  <1>11. players'[s] # <<>>
    <2>1. players[s] \in Seq(Nat) /\ Len(owner') \in Nat
      BY <1>1, AppendProperties, LenProperties DEF TypeInv
    <2>2. Len(players'[s]) = Len(players[s]) + 1 /\ Len(players[s]) \in Nat
      BY <1>1, <2>1, AppendProperties, LenProperties
    <2> QED BY <2>2
  <1>12. PlayerInv(s)'
    BY <1>0, <1>1, <1>2, <1>4, <1>10, <1>11 DEF PlayerInv
  <1>13. SeatInv(s)'
    BY <1>0, <1>1, <1>2 DEF SeatInv
  <1>14. PlaceInv(s)'
    BY <1>0, <1>1, <1>2, <1>5 DEF PlaceInv
  <1>15. ToldInv(s)'
    BY <1>0, <1>1, <1>2, <1>4 DEF ToldInv
  <1> QED BY <1>7, <1>8, <1>9, <1>12, <1>13, <1>14, <1>15 DEF SessionInv

\* The names in the inbox after the first packet is handled.
LEMMA ReturnNames ==
  ASSUME TypeInv, NEW s \in Sessions, batch[s] # <<>>, Return(s)
  PROVE  /\ \A name : Once(Inbox(s), name) => Once(Inbox(s)', name)
         /\ \A name : Once(Inbox(s), name) /\ InHandler(s, name) => ~Named(Inbox(s)', name)
         /\ \A name : ~InHandler(s, name) => (Named(Inbox(s)', name) <=> Named(Inbox(s), name))
  <1>1. /\ Inbox(s) \in Seq(FromClient) /\ Inbox(s) # <<>> /\ Inbox(s)[1] = Head(batch[s])
        /\ Inbox(s)' = Tail(Inbox(s))
    BY InboxType, InboxReturn
  <1>2. \A name : InHandler(s, name) <=> Inbox(s)[1].name = name
    BY <1>1 DEF InHandler
  <1> HIDE DEF Inbox
  <1> DEFINE q == Inbox(s)
  <1>3. q \in Seq(FromClient) /\ q # <<>>
    BY <1>1
  <1>4. \A name : /\ Named(q, name) <=> q[1].name = name \/ Named(Tail(q), name)
                  /\ Once(q, name) => Once(Tail(q), name)
                  /\ Once(q, name) /\ q[1].name = name => ~Named(Tail(q), name)
    <2> HIDE DEF q
    <2> TAKE name
    <2>1. Named(q, name) <=> q[1].name = name \/ Named(Tail(q), name)
      BY <1>3, NamedTail
    <2>2. Once(q, name) => Once(Tail(q), name)
      BY <1>3, NamedTail
    <2>3. Once(q, name) /\ q[1].name = name => ~Named(Tail(q), name)
      BY <1>3, NamedTail
    <2> QED BY <2>1, <2>2, <2>3
  <1> QED BY <1>1, <1>2, <1>4

\* A packet the session sends.
LEMMA SentNames ==
  ASSUME TypeInv, NEW s \in Sessions, NEW p \in FromServer, Send(s, p)
  PROVE  /\ connected[s] => toClient'[s] = Append(toClient[s], p)
         /\ ~connected[s] => toClient'[s] = toClient[s]
         /\ Len(toClient[s]) <= Len(toClient'[s])
         /\ \A name : /\ Named(toClient'[s], name) => Named(toClient[s], name) \/ p.name = name
                      /\ Named(toClient[s], name) => Named(toClient'[s], name)
                      /\ connected[s] /\ p.name = name => Named(toClient'[s], name)
                      /\ Once(toClient[s], name) /\ ~(Named(toClient[s], name) /\ p.name = name)
                           => Once(toClient'[s], name)
         /\ \A k \in 0..Len(toClient[s]) :
              NamedTo(toClient'[s], "S_LOGIN", k) <=> NamedTo(toClient[s], "S_LOGIN", k)
  <1> DEFINE q == toClient[s]
  <1>1. q \in Seq(FromServer)
    BY DEF TypeInv
  <1>2. /\ connected[s] => toClient'[s] = Append(q, p)
        /\ ~connected[s] => toClient'[s] = q
    BY DEF Send, TypeInv
  <1> HIDE DEF q
  <1>3. \A name : /\ Named(Append(q, p), name) <=> Named(q, name) \/ p.name = name
                  /\ \A k \in 0..Len(q) : NamedTo(Append(q, p), name, k) <=> NamedTo(q, name, k)
                  /\ Once(q, name) /\ ~(Named(q, name) /\ p.name = name) => Once(Append(q, p), name)
    BY <1>1, NamedAppend
  <1>4. Len(q) <= Len(Append(q, p)) /\ Len(q) \in Nat
    BY <1>1, AppendProperties, LenProperties
  <1> DEFINE m == toClient'[s]
  <1>5. CASE connected[s]
    <2>1. m = Append(q, p)
      BY <1>2, <1>5
    <2> HIDE DEF m
    <2> QED BY <1>2, <1>3, <1>4, <1>5, <2>1 DEF m, q
  <1>6. CASE ~connected[s]
    <2>1. m = q
      BY <1>2, <1>6
    <2> HIDE DEF m
    <2> QED BY <1>2, <1>3, <1>4, <1>6, <2>1 DEF m, q
  <1> QED BY <1>5, <1>6

LEMMA AnswerLoginSession ==
  ASSUME TypeInv, TypeInv', MemberInv, NEW s \in Sessions, SessionInv(s),
         Handle_C_LOGIN_Answer(s)
  PROVE  SessionInv(s)'
  <1>0. /\ FreshInv(s) /\ OnceInv(s) /\ EntryInv(s) /\ PlayerInv(s)
        /\ SeatInv(s) /\ PlaceInv(s) /\ ToldInv(s)
    BY DEF SessionInv
  <1>1. /\ InHandler(s, "C_LOGIN") /\ batch[s] # <<>> /\ step[s] = 3
        /\ Return(s) /\ Send(s, Packet("S_LOGIN"))
        /\ connected' = connected /\ closing' = closing /\ raced' = raced
        /\ inRoom' = inRoom /\ current' = current /\ players' = players /\ owner' = owner
        /\ UNCHANGED queueVars
    BY DEF Handle_C_LOGIN_Answer, Handles, Unchanged, Others, InHandler
  <1>2. /\ client' = client /\ seen' = seen /\ Line' = Line /\ Seated(s)' = Seated(s)
        /\ NoEntry(s)' <=> NoEntry(s)
    BY <1>1, WorkerKeeps DEF Worker, Handler
  <1>3. /\ step'[s] = 1 /\ (posted'[s] => batch'[s] = <<>>)
        /\ \A name : InHandler(s, name)' => Named(Inbox(s)', name)
    BY <1>1, InboxReturn, HandlerNext
  <1>4. ~InHandler(s, "C_ENTER_GAME") /\ ~InHandler(s, "C_CHAT")
    BY <1>1 DEF InHandler
  <1>5. /\ Once(Inbox(s)', "C_LOGIN") /\ Once(Inbox(s)', "C_ENTER_GAME")
        /\ ~Named(Inbox(s)', "C_LOGIN") /\ Named(Inbox(s), "C_LOGIN")
        /\ Named(Inbox(s)', "C_ENTER_GAME") <=> Named(Inbox(s), "C_ENTER_GAME")
    <2>1. Once(Inbox(s), "C_LOGIN") /\ Once(Inbox(s), "C_ENTER_GAME")
      BY <1>0 DEF OnceInv
    <2> HIDE DEF Inbox, InHandler
    <2>2. Once(Inbox(s)', "C_LOGIN") /\ Once(Inbox(s)', "C_ENTER_GAME")
      BY <1>1, <2>1, ReturnNames
    <2>3. ~Named(Inbox(s)', "C_LOGIN") /\ Named(Inbox(s), "C_LOGIN")
      BY <1>1, <2>1, ReturnNames, InboxHandled
    <2>4. Named(Inbox(s)', "C_ENTER_GAME") <=> Named(Inbox(s), "C_ENTER_GAME")
      BY <1>1, <1>4, ReturnNames
    <2> QED BY <2>2, <2>3, <2>4
  <1>6. ~Named(toClient[s], "S_LOGIN") /\ client[s] = "in"
    BY <1>0, <1>5 DEF OnceInv
  <1>7. /\ Once(toClient'[s], "S_LOGIN") /\ Len(toClient[s]) <= Len(toClient'[s])
        /\ Named(toClient[s], "S_ENTER_GAME") => Named(toClient'[s], "S_ENTER_GAME")
        /\ \A k \in 0..Len(toClient[s]) :
             NamedTo(toClient'[s], "S_LOGIN", k) <=> NamedTo(toClient[s], "S_LOGIN", k)
    BY <1>0, <1>1, <1>6, SentNames, PacketTypes DEF OnceInv
  <1>8. /\ seen[s] \in 0..Len(toClient[s]) /\ seen[s] <= Len(toClient'[s])
    <2>1. Len(toClient[s]) \in Nat /\ Len(toClient'[s]) \in Nat /\ seen[s] \in Nat
      BY LenProperties DEF TypeInv
    <2> QED BY <1>0, <1>7, <2>1 DEF FreshInv
  <1>9. LoggedIn(s)' <=> LoggedIn(s)
    BY <1>2, <1>7, <1>8 DEF LoggedIn
  <1> HIDE DEF Inbox, Line, Seated, NoEntry, InHandler
  <1>10. Entered(s)' <=> Entered(s)
    BY <1>0, <1>1, <1>3, <1>4, <1>5 DEF Entered, EntryInv
  <1>11. FreshInv(s)'
    BY <1>0, <1>1, <1>2, <1>3, <1>8 DEF FreshInv
  <1>12. OnceInv(s)'
    BY <1>2, <1>5, <1>6, <1>7 DEF OnceInv
  <1>13. EntryInv(s)'
    BY <1>0, <1>1, <1>2, <1>3, <1>4, <1>5, <1>9 DEF EntryInv
  <1>14. PlayerInv(s)'
    BY <1>0, <1>1, <1>3 DEF PlayerInv
  <1>15. SeatInv(s)'
    BY <1>0, <1>1, <1>2 DEF SeatInv
  <1>16. PlaceInv(s)'
    BY <1>0, <1>1, <1>2, <1>10 DEF PlaceInv
  <1>17. ToldInv(s)'
    BY <1>0, <1>1, <1>2, <1>3, <1>4, <1>7 DEF ToldInv
  <1> QED BY <1>11, <1>12, <1>13, <1>14, <1>15, <1>16, <1>17 DEF SessionInv

LEMMA ChooseSession ==
  ASSUME TypeInv, MemberInv, NEW s \in Sessions, SessionInv(s), Handle_C_ENTER_GAME_Choose(s)
  PROVE  SessionInv(s)'
  <1>0. /\ FreshInv(s) /\ OnceInv(s) /\ EntryInv(s) /\ PlayerInv(s)
        /\ SeatInv(s) /\ PlaceInv(s) /\ ToldInv(s)
    BY DEF SessionInv
  <1>1. /\ InHandler(s, "C_ENTER_GAME") /\ batch[s] # <<>> /\ step[s] = 1 /\ step'[s] = 2
        /\ players[s] # <<>> /\ current'[s] = Head(players[s]) /\ inRoom'[s]
        /\ connected' = connected /\ posted' = posted /\ closing' = closing /\ raced' = raced
        /\ players' = players /\ toClient' = toClient /\ batch' = batch
        /\ toServer' = toServer /\ owner' = owner /\ UNCHANGED queueVars
    BY DEF Handle_C_ENTER_GAME_Choose, Handles, NextStep, Unchanged, Others, InHandler, TypeInv
  <1>2. /\ client' = client /\ seen' = seen /\ Line' = Line /\ Seated(s)' = Seated(s)
        /\ NoEntry(s)' <=> NoEntry(s)
    BY <1>1, WorkerKeeps DEF Worker, Handler
  <1>3. Inbox(s)' = Inbox(s)
    BY <1>1, InboxSame
  <1>4. /\ \A name : InHandler(s, name)' <=> InHandler(s, name)
        /\ ~InHandler(s, "C_LOGIN") /\ ~InHandler(s, "C_CHAT")
    BY <1>1 DEF InHandler
  <1>5. LoggedIn(s)' <=> LoggedIn(s)
    BY <1>1, <1>2 DEF LoggedIn
  <1>6. Named(Inbox(s), "C_ENTER_GAME")
    BY <1>1, InboxHandled
  <1> HIDE DEF Inbox, Line, Seated, NoEntry, InHandler
  <1>7. NoEntry(s) /\ LoggedIn(s)
    BY <1>0, <1>1, <1>6 DEF EntryInv
  <1>8. /\ current'[s] \in 1..Len(owner) /\ owner[current'[s]] = s /\ current'[s] # NoPlayer
    <2>1. players[s] \in Seq(Nat) /\ Len(players[s]) \in Nat /\ Len(players[s]) # 0
      BY <1>1, LenProperties, EmptySeq DEF TypeInv
    <2>2. 1 \in 1..Len(players[s]) /\ current'[s] = players[s][1]
      BY <1>1, <2>1
    <2> QED BY <1>0, <2>2 DEF PlayerInv, NoPlayer
  <1>9. ~Entered(s)'
    BY <1>1, <1>4 DEF Entered
  <1>10. FreshInv(s)'
    BY <1>0, <1>1, <1>2, <1>4 DEF FreshInv
  <1>11. OnceInv(s)'
    BY <1>0, <1>1, <1>2, <1>3 DEF OnceInv
  <1>12. EntryInv(s)'
    BY <1>1, <1>2, <1>3, <1>4, <1>5, <1>7 DEF EntryInv
  <1>13. PlayerInv(s)'
    BY <1>0, <1>1, <1>4, <1>8 DEF PlayerInv
  <1>14. SeatInv(s)'
    BY <1>0, <1>1, <1>2 DEF SeatInv
  <1>15. PlaceInv(s)'
    BY <1>0, <1>1, <1>2, <1>7, <1>9 DEF PlaceInv, FreshInv
  <1>16. ToldInv(s)'
    BY <1>1, <1>2, <1>7 DEF ToldInv
  <1> QED BY <1>10, <1>11, <1>12, <1>13, <1>14, <1>15, <1>16 DEF SessionInv

LEMMA EnterSession ==
  ASSUME TypeInv, MemberInv, NEW s \in Sessions, SessionInv(s), Handle_C_ENTER_GAME_Enter(s)
  PROVE  /\ SessionInv(s)'
         /\ EnterJob(s, current[s]) \in JobType /\ Line' = Append(Line, EnterJob(s, current[s]))
         /\ JobOK(EnterJob(s, current[s]), owner', raced')
  <1>0. /\ FreshInv(s) /\ OnceInv(s) /\ EntryInv(s) /\ PlayerInv(s)
        /\ SeatInv(s) /\ PlaceInv(s) /\ ToldInv(s)
    BY DEF SessionInv
  <1>1. /\ InHandler(s, "C_ENTER_GAME") /\ batch[s] # <<>> /\ step[s] = 2 /\ step'[s] = 3
        /\ DoAsync(EnterJob(s, current[s])) /\ current' = current /\ inRoom' = inRoom
        /\ connected' = connected /\ posted' = posted /\ closing' = closing /\ raced' = raced
        /\ players' = players /\ toClient' = toClient /\ batch' = batch
        /\ toServer' = toServer /\ owner' = owner
    BY DEF Handle_C_ENTER_GAME_Enter, Handles, NextStep, Unchanged, Others, InHandler, TypeInv
  <1>2. client' = client /\ seen' = seen /\ Seated(s)' = Seated(s)
    BY <1>1, WorkerKeeps DEF Worker, Handler
  <1>3. Inbox(s)' = Inbox(s)
    BY <1>1, InboxSame
  <1>4. /\ \A name : InHandler(s, name)' <=> InHandler(s, name)
        /\ ~InHandler(s, "C_LOGIN") /\ ~InHandler(s, "C_CHAT")
    BY <1>1 DEF InHandler
  <1>5. LoggedIn(s)' <=> LoggedIn(s)
    BY <1>1, <1>2 DEF LoggedIn
  <1>6. Named(Inbox(s), "C_ENTER_GAME")
    BY <1>1, InboxHandled
  <1> DEFINE e == EnterJob(s, current[s])
  <1>7. /\ e \in JobType /\ e.do = "Enter" /\ e.from = s /\ e.player = current[s]
        /\ e = EnterJob(s, current[s])
    BY JobTypes DEF EnterJob, TypeInv
  <1>8. Line' = Append(Line, e) /\ Line \in Seq(JobType)
    BY <1>1, <1>7, LineSubmit, LineType
  <1> HIDE DEF e
  <1>9. Seated(s) = {} /\ ~JobIn(Line, "Enter", s) /\ LoggedIn(s)
    BY <1>0, <1>1, <1>6 DEF EntryInv, NoEntry
  <1> HIDE DEF Inbox, Line, Seated, InHandler
  <1>10. /\ OneEnter(Line', s) /\ ChatsBeforeEnter(Line', s)
         /\ \A do : JobIn(Line', do, s) <=> JobIn(Line, do, s) \/ do = "Enter"
         /\ Has(Line', EnterJob(s, current[s]))
    <2> DEFINE q == Line
    <2>1. q \in Seq(JobType) /\ ~JobIn(q, "Enter", s)
      BY <1>8, <1>9
    <2> HIDE DEF q
    <2>2. OneEnter(q, s) /\ ChatsBeforeEnter(q, s)
      BY <2>1 DEF OneEnter, ChatsBeforeEnter, JobIn
    <2>3. /\ ~JobOf(e, "Broadcast", s) /\ \A do : JobOf(e, do, s) <=> do = "Enter"
      BY <1>7 DEF JobOf
    <2>4. OneEnter(Append(q, e), s) /\ ChatsBeforeEnter(Append(q, e), s)
      BY <1>7, <2>1, <2>2, <2>3, JobAppend
    <2>5. \A do : JobIn(Append(q, e), do, s) <=> JobIn(q, do, s) \/ do = "Enter"
      BY <1>7, <2>1, <2>3, JobAppend
    <2>6. Has(Append(q, e), EnterJob(s, current[s]))
      BY <1>7, <2>1, HasAppend
    <2> QED BY <1>8, <2>4, <2>5, <2>6 DEF q
  <1>11. FreshInv(s)'
    BY <1>0, <1>1, <1>2, <1>4 DEF FreshInv
  <1>12. OnceInv(s)'
    BY <1>0, <1>1, <1>2, <1>3 DEF OnceInv
  <1>13. EntryInv(s)'
    BY <1>1, <1>4, <1>5, <1>9 DEF EntryInv
  <1>14. PlayerInv(s)'
    BY <1>0, <1>1, <1>4 DEF PlayerInv
  <1>15. SeatInv(s)'
    BY <1>0, <1>1, <1>2, <1>9, <1>10 DEF SeatInv
  <1>16. PlaceInv(s)'
    BY <1>0, <1>1, <1>4, <1>10 DEF PlaceInv, FreshInv, Entered, PlayerInv
  <1>17. ToldInv(s)'
    BY <1>1, <1>2, <1>4, <1>9, <1>10 DEF ToldInv
  <1>18. JobOK(e, owner', raced')
    BY <1>0, <1>1, <1>7 DEF JobOK, PlayerInv, FreshInv
  <1> QED BY <1>7, <1>8, <1>11, <1>12, <1>13, <1>14, <1>15, <1>16, <1>17, <1>18
      DEF SessionInv, e

LEMMA AnswerEnterSession ==
  ASSUME TypeInv, TypeInv', MemberInv, NEW s \in Sessions, SessionInv(s),
         Handle_C_ENTER_GAME_Answer(s)
  PROVE  SessionInv(s)'
  <1>0. /\ FreshInv(s) /\ OnceInv(s) /\ EntryInv(s) /\ PlayerInv(s)
        /\ SeatInv(s) /\ PlaceInv(s) /\ ToldInv(s)
    BY DEF SessionInv
  <1>1. /\ InHandler(s, "C_ENTER_GAME") /\ batch[s] # <<>> /\ step[s] = 3
        /\ current[s] # NoPlayer /\ Return(s) /\ Send(owner[current[s]], Packet("S_ENTER_GAME"))
        /\ connected' = connected /\ closing' = closing /\ raced' = raced
        /\ inRoom' = inRoom /\ current' = current /\ players' = players /\ owner' = owner
        /\ UNCHANGED queueVars
    BY DEF Handle_C_ENTER_GAME_Answer, Handles, Unchanged, Others, InHandler
  <1>2. Send(s, Packet("S_ENTER_GAME"))
    BY <1>0, <1>1 DEF PlayerInv
  <1>3. /\ client' = client /\ seen' = seen /\ Line' = Line /\ Seated(s)' = Seated(s)
        /\ NoEntry(s)' <=> NoEntry(s)
    BY <1>1, WorkerKeeps DEF Worker, Handler
  <1>4. /\ step'[s] = 1 /\ (posted'[s] => batch'[s] = <<>>)
        /\ \A name : InHandler(s, name)' => Named(Inbox(s)', name)
    BY <1>1, InboxReturn, HandlerNext
  <1>5. ~InHandler(s, "C_LOGIN") /\ ~InHandler(s, "C_CHAT")
    BY <1>1 DEF InHandler
  <1>6. /\ Once(Inbox(s)', "C_LOGIN") /\ Once(Inbox(s)', "C_ENTER_GAME")
        /\ ~Named(Inbox(s)', "C_ENTER_GAME") /\ Named(Inbox(s), "C_ENTER_GAME")
        /\ Named(Inbox(s)', "C_LOGIN") <=> Named(Inbox(s), "C_LOGIN")
    <2>1. Once(Inbox(s), "C_LOGIN") /\ Once(Inbox(s), "C_ENTER_GAME")
      BY <1>0 DEF OnceInv
    <2> HIDE DEF Inbox, InHandler
    <2>2. Once(Inbox(s)', "C_LOGIN") /\ Once(Inbox(s)', "C_ENTER_GAME")
      BY <1>1, <2>1, ReturnNames
    <2>3. ~Named(Inbox(s)', "C_ENTER_GAME") /\ Named(Inbox(s), "C_ENTER_GAME")
      BY <1>1, <2>1, ReturnNames, InboxHandled
    <2>4. Named(Inbox(s)', "C_LOGIN") <=> Named(Inbox(s), "C_LOGIN")
      BY <1>1, <1>5, ReturnNames
    <2> QED BY <2>2, <2>3, <2>4
  <1>7. /\ Once(toClient'[s], "S_LOGIN") /\ Len(toClient[s]) <= Len(toClient'[s])
        /\ Named(toClient[s], "S_LOGIN") <=> Named(toClient'[s], "S_LOGIN")
        /\ connected[s] => Named(toClient'[s], "S_ENTER_GAME")
        /\ \A k \in 0..Len(toClient[s]) :
             NamedTo(toClient'[s], "S_LOGIN", k) <=> NamedTo(toClient[s], "S_LOGIN", k)
    <2> DEFINE answer == Packet("S_ENTER_GAME")
    <2>1. /\ answer \in FromServer /\ Send(s, answer)
          /\ answer.name = "S_ENTER_GAME" /\ answer.name # "S_LOGIN"
      BY <1>2, PacketTypes
    <2>2. Once(toClient[s], "S_LOGIN")
      BY <1>0 DEF OnceInv
    <2> HIDE DEF answer
    <2> QED BY <2>1, <2>2, SentNames
  <1>8. /\ seen[s] \in 0..Len(toClient[s]) /\ seen[s] <= Len(toClient'[s])
    <2>1. Len(toClient[s]) \in Nat /\ Len(toClient'[s]) \in Nat /\ seen[s] \in Nat
      BY LenProperties DEF TypeInv
    <2> QED BY <1>0, <1>7, <2>1 DEF FreshInv
  <1>9. LoggedIn(s)' <=> LoggedIn(s)
    BY <1>3, <1>7, <1>8 DEF LoggedIn
  <1> HIDE DEF Inbox, Line, Seated, NoEntry, InHandler
  <1>10. Entered(s)' /\ Entered(s)
    BY <1>1, <1>4, <1>6 DEF Entered
  <1>11. FreshInv(s)'
    BY <1>0, <1>1, <1>3, <1>4, <1>8 DEF FreshInv
  <1>12. OnceInv(s)'
    BY <1>0, <1>3, <1>6, <1>7 DEF OnceInv
  <1>13. EntryInv(s)'
    BY <1>0, <1>1, <1>3, <1>6, <1>9 DEF EntryInv
  <1>14. PlayerInv(s)'
    BY <1>0, <1>1, <1>4, <1>7 DEF PlayerInv
  <1>15. SeatInv(s)'
    BY <1>0, <1>1, <1>3 DEF SeatInv
  <1>16. PlaceInv(s)'
    BY <1>0, <1>1, <1>3, <1>10 DEF PlaceInv
  <1>17. ToldInv(s)'
    BY <1>0, <1>1, <1>4, <1>7 DEF ToldInv, FreshInv
  <1> QED BY <1>11, <1>12, <1>13, <1>14, <1>15, <1>16, <1>17 DEF SessionInv

LEMMA ChatSession ==
  ASSUME TypeInv, TypeInv', MemberInv, NEW s \in Sessions, SessionInv(s), Handle_C_CHAT(s)
  PROVE  /\ SessionInv(s)'
         /\ \E e \in JobType : Line' = Append(Line, e) /\ JobOK(e, owner', raced')
  <1>0. /\ FreshInv(s) /\ OnceInv(s) /\ EntryInv(s) /\ PlayerInv(s)
        /\ SeatInv(s) /\ PlaceInv(s) /\ ToldInv(s)
    BY DEF SessionInv
  <1> DEFINE e == BroadcastJob(s, Head(batch[s]).n)
  <1>1. /\ InHandler(s, "C_CHAT") /\ batch[s] # <<>> /\ DoAsync(e) /\ Return(s)
        /\ connected' = connected /\ closing' = closing /\ raced' = raced
        /\ inRoom' = inRoom /\ current' = current /\ players' = players /\ owner' = owner
        /\ toClient' = toClient
    BY DEF Handle_C_CHAT, Handles, Unchanged, Others, InHandler
  <1>2. client' = client /\ seen' = seen /\ Seated(s)' = Seated(s)
    BY WorkerKeeps DEF Worker, Handler
  <1>3. /\ step'[s] = 1 /\ (posted'[s] => batch'[s] = <<>>)
        /\ \A name : InHandler(s, name)' => Named(Inbox(s)', name)
    BY <1>1, InboxReturn, HandlerNext
  <1>4. ~InHandler(s, "C_ENTER_GAME") /\ ~InHandler(s, "C_LOGIN")
    BY <1>1 DEF InHandler
  <1>5. /\ Once(Inbox(s)', "C_LOGIN") /\ Once(Inbox(s)', "C_ENTER_GAME")
        /\ Named(Inbox(s)', "C_LOGIN") <=> Named(Inbox(s), "C_LOGIN")
        /\ Named(Inbox(s)', "C_ENTER_GAME") <=> Named(Inbox(s), "C_ENTER_GAME")
    <2>1. Once(Inbox(s), "C_LOGIN") /\ Once(Inbox(s), "C_ENTER_GAME")
      BY <1>0 DEF OnceInv
    <2> HIDE DEF Inbox, InHandler, e
    <2>2. Once(Inbox(s)', "C_LOGIN") /\ Once(Inbox(s)', "C_ENTER_GAME")
      BY <1>1, <2>1, ReturnNames
    <2>3. /\ Named(Inbox(s)', "C_LOGIN") <=> Named(Inbox(s), "C_LOGIN")
          /\ Named(Inbox(s)', "C_ENTER_GAME") <=> Named(Inbox(s), "C_ENTER_GAME")
      BY <1>1, <1>4, ReturnNames
    <2> QED BY <2>2, <2>3
  <1>6. LoggedIn(s)' <=> LoggedIn(s)
    BY <1>1, <1>2 DEF LoggedIn
  <1>7. Head(batch[s]).n \in 1..MaxChats
    BY <1>1, PacketTypes DEF InHandler, TypeInv
  <1>8. /\ e \in JobType /\ e.do = "Broadcast" /\ e.from = s /\ e.player = NoPlayer
        /\ e.n \in 1..MaxChats
    BY <1>7, JobTypes DEF BroadcastJob
  <1>9. JobOK(e, owner', raced')
    BY <1>8 DEF JobOK
  <1> HIDE DEF e
  <1>10. Line' = Append(Line, e) /\ Line \in Seq(JobType)
    <2> SUFFICES ASSUME NEW j \in JobType, j = e PROVE Line' = Append(Line, j)
      BY <1>8, LineType
    <2> QED BY <1>1, LineSubmit
  <1> HIDE DEF Inbox, Line, Seated, InHandler
  <1>11. /\ JobIn(Line', "Enter", s) <=> JobIn(Line, "Enter", s)
         /\ JobIn(Line', "Leave", s) <=> JobIn(Line, "Leave", s)
         /\ OneEnter(Line, s) => OneEnter(Line', s)
         /\ EnterThenLeave(Line, s) => EnterThenLeave(Line', s)
         /\ \A j : Has(Line, j) => Has(Line', j)
    <2> DEFINE q == Line
    <2>1. q \in Seq(JobType)
      BY <1>10
    <2> HIDE DEF q
    <2>2. ~JobOf(e, "Enter", s) /\ ~JobOf(e, "Leave", s)
      BY <1>8 DEF JobOf
    <2>3. /\ JobIn(Append(q, e), "Enter", s) <=> JobIn(q, "Enter", s)
          /\ JobIn(Append(q, e), "Leave", s) <=> JobIn(q, "Leave", s)
          /\ OneEnter(q, s) => OneEnter(Append(q, e), s)
          /\ EnterThenLeave(q, s) => EnterThenLeave(Append(q, e), s)
      BY <1>8, <2>1, <2>2, JobAppend
    <2>4. \A j : Has(q, j) => Has(Append(q, e), j)
      BY <1>8, <2>1, HasAppend
    <2> QED BY <1>10, <2>3, <2>4 DEF q
  <1>12. NoEntry(s)' <=> NoEntry(s)
    BY <1>2, <1>11 DEF NoEntry
  <1>13. Entered(s)' <=> Entered(s)
    BY <1>0, <1>1, <1>3, <1>4, <1>5 DEF Entered, EntryInv
  <1>14. FreshInv(s)'
    BY <1>0, <1>1, <1>2, <1>3 DEF FreshInv
  <1>15. OnceInv(s)'
    BY <1>0, <1>1, <1>2, <1>5 DEF OnceInv
  <1>16. EntryInv(s)'
    BY <1>0, <1>1, <1>3, <1>4, <1>5, <1>6, <1>12 DEF EntryInv
  <1>17. PlayerInv(s)'
    BY <1>0, <1>1, <1>3 DEF PlayerInv
  <1>18. SeatInv(s)'
    BY <1>0, <1>1, <1>2, <1>11 DEF SeatInv
  <1>19. PlaceInv(s)'
    BY <1>0, <1>1, <1>2, <1>11, <1>12, <1>13 DEF PlaceInv
  <1>20. ToldInv(s)'
    BY <1>0, <1>1, <1>3, <1>4, <1>12 DEF ToldInv
  <1> QED BY <1>8, <1>9, <1>10, <1>14, <1>15, <1>16, <1>17, <1>18, <1>19, <1>20 DEF SessionInv

LEMMA LeaveSession ==
  ASSUME TypeInv, MemberInv, NEW s \in Sessions, SessionInv(s), OnDisconnected_Leave(s)
  PROVE  /\ SessionInv(s)'
         /\ \/ Line' = Line
            \/ \E e \in JobType : Line' = Append(Line, e) /\ JobOK(e, owner', raced')
  <1>0. /\ FreshInv(s) /\ OnceInv(s) /\ EntryInv(s) /\ PlayerInv(s)
        /\ SeatInv(s) /\ PlaceInv(s) /\ ToldInv(s)
    BY DEF SessionInv
  <1> DEFINE e == LeaveJob(s, current[s])
  <1>1. /\ closing[s] = "leave" /\ closing'[s] = "clear"
        /\ raced'[s] <=> raced[s] \/ batch[s] # <<>>
        /\ connected' = connected /\ posted' = posted /\ inRoom' = inRoom /\ players' = players
        /\ current' = current /\ toClient' = toClient /\ batch' = batch /\ step' = step
        /\ toServer' = toServer /\ owner' = owner
        /\ IF current[s] # NoPlayer /\ inRoom[s] THEN DoAsync(e) ELSE UNCHANGED queueVars
    BY DEF OnDisconnected_Leave, Unchanged, TypeInv
  <1>2. client' = client /\ seen' = seen /\ Seated(s)' = Seated(s)
    BY WorkerKeeps DEF Worker
  <1>3. Inbox(s)' = Inbox(s)
    BY <1>1, InboxSame
  <1>4. /\ \A name : InHandler(s, name)' <=> InHandler(s, name)
        /\ LoggedIn(s)' <=> LoggedIn(s)
    BY <1>1, <1>2 DEF InHandler, LoggedIn
  <1>5. ~connected[s]
    BY <1>0, <1>1 DEF FreshInv
  <1>6. e \in JobType /\ e.do = "Leave" /\ e.from = s /\ e.player = current[s]
    BY JobTypes DEF LeaveJob, TypeInv
  <1>7. Line \in Seq(JobType)
    BY LineType
  <1>8. \/ current[s] # NoPlayer /\ Line' = Append(Line, e)
        \/ current[s] = NoPlayer /\ Line' = Line
    <2>1. CASE current[s] # NoPlayer
      <3>1. DoAsync(e)
        BY <1>0, <1>1, <2>1 DEF PlayerInv
      <3> QED BY <1>6, <2>1, <3>1, LineSubmit
    <2>2. CASE current[s] = NoPlayer
      BY <1>1, <2>2, LineSame
    <2> QED BY <2>1, <2>2
  <1>9. current[s] # NoPlayer => JobOK(e, owner', raced')
    BY <1>0, <1>1, <1>6 DEF JobOK, PlayerInv
  <1> HIDE DEF Inbox, Line, Seated, InHandler
  <1>10. /\ JobIn(Line', "Enter", s) <=> JobIn(Line, "Enter", s)
         /\ OneEnter(Line', s)
         /\ \A j : Has(Line, j) => Has(Line', j)
         /\ current[s] # NoPlayer => Has(Line', LeaveJob(s, current[s]))
    <2> DEFINE q == Line
    <2>1. q \in Seq(JobType) /\ OneEnter(q, s) /\ e = LeaveJob(s, current[s])
      BY <1>0, <1>7 DEF SeatInv
    <2> HIDE DEF q, e
    <2>2. ~JobOf(e, "Enter", s)
      BY <1>6 DEF JobOf
    <2>3. /\ JobIn(Append(q, e), "Enter", s) <=> JobIn(q, "Enter", s)
          /\ OneEnter(Append(q, e), s)
      BY <1>6, <2>1, <2>2, JobAppend
    <2>4. \A j : Has(Append(q, e), j) <=> Has(q, j) \/ e = j
      BY <1>6, <2>1, HasAppend
    <2> QED BY <1>8, <2>1, <2>3, <2>4 DEF q
  <1>11. NoEntry(s)' <=> NoEntry(s)
    BY <1>2, <1>10 DEF NoEntry
  <1>12. FreshInv(s)'
    BY <1>0, <1>1, <1>2, <1>4, <1>5 DEF FreshInv
  <1>13. OnceInv(s)'
    BY <1>0, <1>1, <1>2, <1>3 DEF OnceInv
  <1>14. EntryInv(s)'
    BY <1>0, <1>1, <1>3, <1>4, <1>11 DEF EntryInv
  <1>15. PlayerInv(s)'
    BY <1>0, <1>1, <1>4 DEF PlayerInv
  <1>16. SeatInv(s)'
    BY <1>0, <1>1, <1>2, <1>10 DEF SeatInv
  <1>17. PlaceInv(s)'
    <2> SUFFICES ASSUME ~raced'[s]
                 PROVE  /\ \A p \in Seated(s) : Has(Line', LeaveJob(s, p))
                        /\ EnterThenLeave(Line', s)
      BY <1>1, <1>2 DEF PlaceInv
    <2>1. ~raced[s] /\ batch[s] = <<>>
      BY <1>1
    <2>2. CASE current[s] = NoPlayer
      <3>1. Seated(s) = {} /\ ~JobIn(Line, "Enter", s) /\ Line' = Line
        BY <1>0, <1>1, <1>8, <2>1, <2>2 DEF PlaceInv, Entered, NoEntry
      <3>2. EnterThenLeave(Line, s)
        BY <3>1 DEF EnterThenLeave, JobIn
      <3> QED BY <3>1, <3>2
    <2>3. CASE current[s] # NoPlayer
      <3>1. Seated(s) = {current[s]} \/ Has(Line, EnterJob(s, current[s]))
        BY <1>0, <1>1, <2>1, <2>3 DEF PlaceInv, Entered, InHandler
      <3>2. Line' = Append(Line, LeaveJob(s, current[s])) /\ LeaveJob(s, current[s]) \in JobType
        BY <1>6, <1>8, <2>3
      <3>3. CASE Seated(s) = {current[s]}
        <4>1. ~JobIn(Line, "Enter", s)
          BY <1>0, <3>3 DEF SeatInv
        <4>2. \A i \in 1..Len(Line) :
                JobOf(Line[i], "Enter", s) => Line[i].player = current[s]
          BY <4>1 DEF JobIn
        <4>3. EnterThenLeave(Line', s)
          BY <1>7, <3>2, <4>2, LeaveLast
        <4> QED BY <1>10, <2>3, <3>3, <4>3
      <3>4. CASE Has(Line, EnterJob(s, current[s]))
        <4>1. /\ JobIn(Line, "Enter", s)
              /\ \A i \in 1..Len(Line) :
                   JobOf(Line[i], "Enter", s) => Line[i] = EnterJob(s, current[s])
          BY <1>0, <1>7, <3>4, OneEnterSame DEF SeatInv
        <4>2. \A i \in 1..Len(Line) :
                JobOf(Line[i], "Enter", s) => Line[i].player = current[s]
          BY <4>1 DEF EnterJob
        <4>3. EnterThenLeave(Line', s)
          BY <1>7, <3>2, <4>2, LeaveLast
        <4>4. Seated(s) = {}
          BY <1>0, <4>1 DEF SeatInv
        <4> QED BY <4>3, <4>4
      <3> QED BY <3>1, <3>3, <3>4
    <2> QED BY <2>2, <2>3
  <1>18. ToldInv(s)'
    BY <1>1 DEF ToldInv
  <1> QED BY <1>6, <1>8, <1>9, <1>12, <1>13, <1>14, <1>15, <1>16, <1>17, <1>18 DEF SessionInv

LEMMA ClearSession ==
  ASSUME TypeInv, MemberInv, NEW s \in Sessions, SessionInv(s), OnDisconnected_Clear(s)
  PROVE  SessionInv(s)'
  <1>0. /\ FreshInv(s) /\ OnceInv(s) /\ EntryInv(s) /\ PlayerInv(s)
        /\ SeatInv(s) /\ PlaceInv(s) /\ ToldInv(s)
    BY DEF SessionInv
  <1>1. /\ closing[s] = "clear" /\ closing'[s] = "done"
        /\ current'[s] = NoPlayer /\ players'[s] = <<>>
        /\ connected' = connected /\ posted' = posted /\ raced' = raced /\ inRoom' = inRoom
        /\ toClient' = toClient /\ batch' = batch /\ step' = step
        /\ toServer' = toServer /\ owner' = owner /\ UNCHANGED queueVars
    BY DEF OnDisconnected_Clear, Unchanged, roomVars, TypeInv
  <1>2. /\ client' = client /\ seen' = seen /\ Line' = Line /\ Seated(s)' = Seated(s)
        /\ NoEntry(s)' <=> NoEntry(s)
    BY <1>1, WorkerKeeps DEF Worker
  <1>3. Inbox(s)' = Inbox(s)
    BY <1>1, InboxSame
  <1>4. /\ \A name : InHandler(s, name)' <=> InHandler(s, name)
        /\ LoggedIn(s)' <=> LoggedIn(s)
    BY <1>1, <1>2 DEF InHandler, LoggedIn
  <1> HIDE DEF Inbox, Line, Seated, NoEntry, InHandler
  <1>5. FreshInv(s)'
    BY <1>0, <1>1, <1>2, <1>4 DEF FreshInv
  <1>6. OnceInv(s)'
    BY <1>0, <1>1, <1>2, <1>3 DEF OnceInv
  <1>7. EntryInv(s)'
    BY <1>0, <1>1, <1>2, <1>3, <1>4 DEF EntryInv
  <1>8. PlayerInv(s)'
    BY <1>1, EmptySeq DEF PlayerInv
  <1>9. SeatInv(s)'
    BY <1>0, <1>1, <1>2 DEF SeatInv
  <1>10. PlaceInv(s)'
    BY <1>0, <1>1, <1>2 DEF PlaceInv
  <1>11. ToldInv(s)'
    BY <1>1 DEF ToldInv
  <1> QED BY <1>5, <1>6, <1>7, <1>8, <1>9, <1>10, <1>11 DEF SessionInv

\* A step of a session's worker, and of its client, keeps the invariant.
\* A worker sends a client nothing but the two answers.
LEMMA WorkerSends ==
  ASSUME TypeInv, NEW s \in Sessions, Worker(s), NEW r \in Sessions
  PROVE  \E p \in {Packet("S_LOGIN"), Packet("S_ENTER_GAME")} :
           toClient'[r] = toClient[r] \/ toClient'[r] = Append(toClient[r], p)
  <1>1. \/ toClient' = toClient
        \/ \E p \in {Packet("S_LOGIN"), Packet("S_ENTER_GAME")} : \E x : Send(x, p)
    BY DEF Worker, Handler, ProcessAccept, ProcessRecv, Disconnect,
      Handle_C_LOGIN_AddPlayer, Handle_C_LOGIN_Answer, Handle_C_ENTER_GAME_Choose,
      Handle_C_ENTER_GAME_Enter, Handle_C_ENTER_GAME_Answer, Handle_C_CHAT,
      OnDisconnected_Leave, OnDisconnected_Clear
  <1>2. ASSUME NEW p, NEW x, Send(x, p)
        PROVE  toClient'[r] = toClient[r] \/ toClient'[r] = Append(toClient[r], p)
    BY <1>2 DEF Send, TypeInv
  <1> QED BY <1>1, <1>2

LEMMA WorkerStep ==
  ASSUME RoomIInv, NEW s \in Sessions, Worker(s)
  PROVE  RoomIInv'
  <1>0. TypeInv /\ MemberInv /\ JobInv /\ HeardInv /\ SessionInv(s)
    BY DEF RoomIInv
  <1>1. TypeInv'
    BY <1>0, TypeWorker DEF SessionInv, PlayerInv
  <1>2. LocalStep(s) /\ client' = client /\ seen' = seen
    BY <1>0, WorkerLocal DEF SessionInv
  <1>3. /\ SessionInv(s)'
        /\ \/ Line' = Line
           \/ \E e \in JobType : Line' = Append(Line, e) /\ JobOK(e, owner', raced')
    <2> USE <1>0, <1>1 DEF roomVars, Others, Unchanged
    <2>1. CASE ProcessAccept(s)
      BY <2>1, AcceptSession, LineSame DEF ProcessAccept
    <2>2. CASE ProcessRecv(s)
      BY <2>2, RecvSession, LineSame DEF ProcessRecv
    <2>3. CASE Disconnect(s)
      BY <2>3, DisconnectSession, LineSame DEF Disconnect
    <2>4. CASE Handle_C_LOGIN_AddPlayer(s)
      BY <2>4, AddPlayerSession, LineSame DEF Handle_C_LOGIN_AddPlayer
    <2>5. CASE Handle_C_LOGIN_Answer(s)
      BY <2>5, AnswerLoginSession, LineSame DEF Handle_C_LOGIN_Answer
    <2>6. CASE Handle_C_ENTER_GAME_Choose(s)
      BY <2>6, ChooseSession, LineSame DEF Handle_C_ENTER_GAME_Choose
    <2>7. CASE Handle_C_ENTER_GAME_Enter(s)
      BY <2>7, EnterSession
    <2>8. CASE Handle_C_ENTER_GAME_Answer(s)
      BY <2>8, AnswerEnterSession, LineSame DEF Handle_C_ENTER_GAME_Answer
    <2>9. CASE Handle_C_CHAT(s)
      BY <2>9, ChatSession
    <2>10. CASE OnDisconnected_Leave(s)
      BY <2>10, LeaveSession
    <2>11. CASE OnDisconnected_Clear(s)
      BY <2>11, ClearSession, LineSame DEF OnDisconnected_Clear
    <2> QED BY <2>1, <2>2, <2>3, <2>4, <2>5, <2>6, <2>7, <2>8, <2>9, <2>10, <2>11
            DEF Worker, Handler
  <1>4. MemberInv' /\ \A r \in Sessions : SessionInv(r)'
    BY <1>0, <1>2, <1>3, LocalOthers DEF RoomIInv
  <1>5. JobInv'
    BY <1>0, <1>2, <1>3, JobsKept DEF LocalStep
  <1>6. HeardInv'
    <2> SUFFICES ASSUME NEW r \in Sessions PROVE OwnChat(toClient'[r], r)
      BY DEF HeardInv
    <2>1. OwnChat(toClient[r], r) /\ toClient[r] \in Seq(FromServer)
      BY <1>0 DEF HeardInv, TypeInv
    <2>2. PICK p \in {Packet("S_LOGIN"), Packet("S_ENTER_GAME")} :
            toClient'[r] = toClient[r] \/ toClient'[r] = Append(toClient[r], p)
      BY <1>0, WorkerSends
    <2>3. OwnChat(Append(toClient[r], p), r)
      <3>1. p \in FromServer /\ p.name # "S_CHAT"
        BY PacketTypes
      <3> QED BY <2>1, <3>1, OwnChatAppend
    <2> QED BY <2>1, <2>2, <2>3
  <1> QED BY <1>1, <1>4, <1>5, <1>6 DEF RoomIInv

LEMMA ClientStep ==
  ASSUME RoomIInv, NEW s \in Sessions, Client(s) \/ Break(s)
  PROVE  RoomIInv'
  <1>0. TypeInv /\ MemberInv /\ JobInv /\ HeardInv /\ SessionInv(s)
    BY DEF RoomIInv
  <1>1. TypeInv'
    BY <1>0, TypeClient
  <1>2. LocalStep(s) /\ Line' = Line /\ owner' = owner /\ toClient' = toClient
    BY <1>0, ClientLocal
  <1>3. SessionInv(s)'
    <2>1. CASE Client(s)
      BY <1>0, <2>1, ClientSession
    <2>2. CASE Break(s)
      <3>1. /\ client' = client /\ seen' = seen /\ toServer' = toServer
            /\ UNCHANGED <<connected, posted, batch, step, closing, players, current, inRoom, raced>>
        BY <2>2 DEF Break, clientVars, sessionVars
      <3>2. SameSession(s) /\ MayHear(s) /\ LineKeeps(s)
        BY <1>2, <3>1, InboxSame DEF SameSession, MayHear, LineKeeps
      <3>3. OwnerGrows /\ Seated(s)' = Seated(s)
        BY <1>0, <1>2, SeatedKept DEF LocalStep
      <3> QED BY <1>0, <3>2, <3>3, SessionFrame
    <2> QED BY <2>1, <2>2
  <1>4. MemberInv' /\ \A r \in Sessions : SessionInv(r)'
    BY <1>0, <1>2, <1>3, LocalOthers DEF RoomIInv
  <1>5. JobInv'
    BY <1>0, <1>2, JobsKept DEF LocalStep
  <1>6. HeardInv'
    BY <1>0, <1>2 DEF HeardInv
  <1> QED BY <1>1, <1>4, <1>5, <1>6 DEF RoomIInv

-----------------------------------------------------------------------------
(* The room's steps.                                                       *)

LEMMA RoomSame ==
  ASSUME UNCHANGED roomFrame
  PROVE  /\ owner' = owner /\ raced' = raced /\ OwnerGrows
         /\ \A r \in Sessions : SameSession(r)
  <1>1. /\ client' = client /\ seen' = seen /\ toServer' = toServer /\ owner' = owner
        /\ UNCHANGED <<connected, posted, batch, step, closing, players, current, inRoom, raced>>
    BY DEF roomFrame, clientVars, sessionVars, serverVars
  <1> QED BY <1>1, InboxSame DEF SameSession, OwnerGrows

LEMMA StartStep ==
  ASSUME RoomIInv, StartJob
  PROVE  RoomIInv'
  <1>0. TypeInv /\ MemberInv /\ JobInv /\ HeardInv /\ \A r \in Sessions : SessionInv(r)
    BY DEF RoomIInv
  <1>1. TypeInv'
    BY <1>0, TypeRoom DEF Room
  <1>2. /\ UNCHANGED roomFrame /\ toClient' = toClient /\ roomPlayers' = roomPlayers
        /\ Queue!Start(RoomQueue)
        /\ targets' = IF active'[RoomQueue].do = "Broadcast" THEN roomPlayers ELSE {}
    BY DEF StartJob
  <1>3. /\ owner' = owner /\ raced' = raced /\ OwnerGrows
        /\ \A r \in Sessions : SameSession(r)
    BY <1>2, RoomSame
  <1>4. Line' = Line
    BY <1>0, <1>2, LineStart
  <1>5. MemberInv'
    BY <1>0, <1>2, <1>3 DEF MemberInv, Running
  <1>6. JobInv'
    BY <1>0, <1>3, <1>4, JobsKept
  <1>7. HeardInv'
    BY <1>0, <1>2 DEF HeardInv
  <1>8. ASSUME NEW r \in Sessions PROVE SessionInv(r)'
    <2>1. MayHear(r) /\ LineKeeps(r) /\ Seated(r)' = Seated(r)
      BY <1>0, <1>2, <1>3, <1>4, SeatedKept DEF MayHear, LineKeeps
    <2> QED BY <1>0, <1>3, <2>1, SessionFrame
  <1> QED BY <1>1, <1>5, <1>6, <1>7, <1>8 DEF RoomIInv

LEMMA BroadcastEndStep ==
  ASSUME RoomIInv, BroadcastEnd
  PROVE  RoomIInv'
  <1>0. TypeInv /\ MemberInv /\ JobInv /\ HeardInv /\ \A r \in Sessions : SessionInv(r)
    BY DEF RoomIInv
  <1>1. TypeInv'
    BY <1>0, TypeRoom DEF Room
  <1>2. /\ UNCHANGED roomFrame /\ toClient' = toClient /\ roomPlayers' = roomPlayers
        /\ Queue!Finish(RoomQueue) /\ targets = {} /\ targets' = targets
        /\ active[RoomQueue].do = "Broadcast"
    BY DEF BroadcastEnd, Running
  <1>3. /\ owner' = owner /\ raced' = raced /\ OwnerGrows
        /\ \A r \in Sessions : SameSession(r)
    BY <1>2, RoomSame
  <1>4. Line # <<>> /\ Line' = Tail(Line) /\ Line[1].do = "Broadcast"
    BY <1>0, <1>2, LineFinish
  <1>5. MemberInv'
    BY <1>0, <1>2, <1>3 DEF MemberInv
  <1>6. JobInv'
    BY <1>0, <1>3, <1>4, JobsKept
  <1>7. HeardInv'
    BY <1>0, <1>2 DEF HeardInv
  <1>8. ASSUME NEW r \in Sessions PROVE SessionInv(r)'
    <2>1. MayHear(r) /\ LineKeeps(r) /\ Seated(r)' = Seated(r)
      BY <1>0, <1>2, <1>3, <1>4, SeatedKept DEF MayHear, LineKeeps, JobOf
    <2> QED BY <1>0, <1>3, <2>1, SessionFrame
  <1> QED BY <1>1, <1>5, <1>6, <1>7, <1>8 DEF RoomIInv

LEMMA BroadcastSendStep ==
  ASSUME RoomIInv, BroadcastSend
  PROVE  RoomIInv'
  <1>0. TypeInv /\ MemberInv /\ JobInv /\ HeardInv /\ \A r \in Sessions : SessionInv(r)
    BY DEF RoomIInv
  <1>1. TypeInv'
    BY <1>0, TypeRoom DEF Room
  <1> DEFINE x == owner[Turn]
             p == [name |-> "S_CHAT", from |-> Job.from, n |-> Job.n]
  <1>2. /\ UNCHANGED roomFrame /\ roomPlayers' = roomPlayers /\ UNCHANGED queueVars
        /\ Turn \in roomPlayers /\ x \in Sessions /\ p \in Said /\ Send(x, p)
        /\ targets' = targets \ {Turn}
        /\ Line # <<>> /\ Line[1] = Job /\ Line[1].do = "Broadcast"
    BY <1>0, BroadcastTurn
  <1>3. /\ owner' = owner /\ raced' = raced /\ OwnerGrows
        /\ \A r \in Sessions : SameSession(r)
    BY <1>2, RoomSame
  <1>4. Line' = Line /\ active' = active
    BY <1>2, LineSame
  <1>5. MemberInv'
    BY <1>0, <1>2, <1>3, <1>4 DEF MemberInv, Running
  <1>6. JobInv'
    BY <1>0, <1>3, <1>4, JobsKept
  <1>7. ASSUME NEW r \in Sessions
        PROVE  /\ MayHear(r)
               /\ toClient'[r] = toClient[r] \/ (r = x /\ connected[r] /\ toClient'[r] = Append(toClient[r], p))
    <2> HIDE DEF x, p
    <2>1. toClient'[r] = toClient[r] \/ (r = x /\ connected[r] /\ toClient'[r] = Append(toClient[r], p))
      BY <1>0, <1>2 DEF Send, TypeInv
    <2> QED BY <1>2, <2>1 DEF MayHear
  <1>8. HeardInv'
    <2> SUFFICES ASSUME NEW r \in Sessions PROVE OwnChat(toClient'[r], r)
      BY DEF HeardInv
    <2>1. OwnChat(toClient[r], r) /\ toClient[r] \in Seq(FromServer)
      BY <1>0 DEF HeardInv, TypeInv
    <2>2. CASE toClient'[r] = toClient[r]
      BY <2>1, <2>2
    <2>3. CASE r = x /\ connected[r] /\ toClient'[r] = Append(toClient[r], p)
      <3>1. ASSUME p.from = r PROVE Named(toClient[r], "S_ENTER_GAME")
        <4>1. Turn \in Seated(r) /\ closing[r] = "no"
          BY <1>0, <1>2, <2>3 DEF Seated, SessionInv, FreshInv
        <4>2. 1 \in 1..Len(Line) /\ JobOf(Line[1], "Broadcast", r)
          BY <1>0, <1>2, <3>1, LineType, LenProperties, EmptySeq DEF JobOf
        <4>3. JobIn(Line, "Broadcast", r)
          BY <4>2 DEF JobIn
        <4> HIDE DEF Line, Seated
        <4>4. Seated(r) # {} /\ ~NoEntry(r)
          BY <4>1 DEF NoEntry
        <4>5. ToldInv(r)
          BY <1>0 DEF SessionInv
        <4> QED BY <4>1, <4>3, <4>4, <4>5 DEF ToldInv
      <3>2. p \in FromServer
        BY <1>2 DEF FromServer
      <3> HIDE DEF p
      <3>3. OwnChat(Append(toClient[r], p), r)
        BY <2>1, <3>1, <3>2, OwnChatAppend
      <3> QED BY <2>3, <3>3
    <2> QED BY <1>7, <2>2, <2>3
  <1>9. ASSUME NEW r \in Sessions PROVE SessionInv(r)'
    <2>1. LineKeeps(r) /\ Seated(r)' = Seated(r)
      BY <1>0, <1>2, <1>3, <1>4, SeatedKept DEF LineKeeps
    <2> QED BY <1>0, <1>3, <1>7, <2>1, SessionFrame
  <1> QED BY <1>1, <1>5, <1>6, <1>8, <1>9 DEF RoomIInv

LEMMA EnterStep ==
  ASSUME RoomIInv, Enter
  PROVE  RoomIInv'
  <1>0. TypeInv /\ MemberInv /\ JobInv /\ HeardInv /\ \A r \in Sessions : SessionInv(r)
    BY DEF RoomIInv
  <1>1. TypeInv'
    BY <1>0, TypeRoom DEF Room
  <1> DEFINE j == Line[1]
             s == j.from
             p == j.player
  <1>2. /\ UNCHANGED roomFrame /\ toClient' = toClient /\ Queue!Finish(RoomQueue)
        /\ targets' = targets /\ ~Running("Broadcast")
        /\ active[RoomQueue].do = "Enter" /\ active[RoomQueue].player # NoPlayer
        /\ roomPlayers' = roomPlayers \cup {active[RoomQueue].player}
    BY DEF Enter, Running, Job
  <1>3. /\ owner' = owner /\ raced' = raced /\ OwnerGrows
        /\ \A r \in Sessions : SameSession(r)
    BY <1>2, RoomSame
  <1>4. /\ Line # <<>> /\ Line' = Tail(Line) /\ Line \in Seq(JobType)
        /\ j \in JobType /\ j.do = "Enter" /\ p # NoPlayer /\ roomPlayers' = roomPlayers \cup {p}
    BY <1>0, <1>2, LineFinish, LineType
  <1>5. s \in Sessions /\ p \in 1..Len(owner) /\ owner[p] = s
    <2>1. 1 \in 1..Len(Line)
      BY <1>4, LenProperties, EmptySeq
    <2>2. JobOK(j, owner, raced)
      BY <1>0, <2>1 DEF JobInv
    <2> QED BY <1>4, <2>2, JobTypes DEF JobOK
  <1> HIDE DEF j, s, p
  <1>6. MemberInv'
    BY <1>0, <1>2, <1>3, <1>4, <1>5 DEF MemberInv, Running
  <1>7. JobInv'
    BY <1>0, <1>3, <1>4, JobsKept
  <1>8. HeardInv'
    BY <1>0, <1>2 DEF HeardInv
  <1>9. ASSUME NEW r \in Sessions, r # s PROVE SessionInv(r)'
    <2>1. MayHear(r) /\ LineKeeps(r)
      BY <1>2, <1>4, <1>9 DEF MayHear, LineKeeps, JobOf, j, s
    <2>2. Seated(r)' = Seated(r)
      BY <1>3, <1>4, <1>5, <1>9 DEF Seated
    <2> QED BY <1>0, <1>3, <2>1, <2>2, SessionFrame
  <1>10. ASSUME NEW r \in Sessions, r = s PROVE SessionInv(r)'
    <2>0. /\ FreshInv(r) /\ OnceInv(r) /\ EntryInv(r) /\ PlayerInv(r)
          /\ SeatInv(r) /\ PlaceInv(r) /\ ToldInv(r)
      BY <1>0 DEF SessionInv
    <2>1. SameSession(r) /\ toClient' = toClient
      BY <1>2, <1>3
    <2>2. JobOf(Line[1], "Enter", r) /\ Line[1].player = p /\ r \in Sessions
      BY <1>4, <1>5, <1>10 DEF JobOf, j, s, p
    <2>3. /\ JobIn(Line, "Enter", r) /\ ~JobIn(Line', "Enter", r) /\ OneEnter(Line', r)
          /\ JobIn(Line', "Leave", r) => JobIn(Line, "Leave", r)
          /\ EnterThenLeave(Line, r) => EnterThenLeave(Line', r) /\ Has(Line', LeaveJob(r, p))
          /\ ~JobIn(Line, "Broadcast", r) \/ ~ChatsBeforeEnter(Line, r)
          /\ JobIn(Line', "Broadcast", r) => JobIn(Line, "Broadcast", r)
          /\ ChatsBeforeEnter(Line, r) => ChatsBeforeEnter(Line', r)
      <3> DEFINE q == Line
      <3>1. /\ q \in Seq(JobType) /\ q # <<>> /\ OneEnter(q, r) /\ JobOf(q[1], "Enter", r)
            /\ q[1].player = p
        BY <1>4, <2>0, <2>2 DEF SeatInv
      <3> HIDE DEF q
      <3>2. /\ JobIn(q, "Enter", r) /\ ~JobIn(Tail(q), "Enter", r) /\ OneEnter(Tail(q), r)
        BY <3>1, JobTail
      <3>3. /\ JobIn(Tail(q), "Leave", r) => JobIn(q, "Leave", r)
            /\ JobIn(Tail(q), "Broadcast", r) => JobIn(q, "Broadcast", r)
        BY <3>1, JobTail
      <3>4. /\ EnterThenLeave(q, r) => EnterThenLeave(Tail(q), r) /\ Has(Tail(q), LeaveJob(r, p))
            /\ ~JobIn(q, "Broadcast", r) \/ ~ChatsBeforeEnter(q, r)
            /\ ChatsBeforeEnter(q, r) => ChatsBeforeEnter(Tail(q), r)
        BY <3>1, JobTail
      <3> QED BY <1>4, <3>2, <3>3, <3>4 DEF q
    <2>4. \A c : Has(Line, EnterJob(r, c)) => c = p
      <3> SUFFICES ASSUME NEW c, Has(Line, EnterJob(r, c)) PROVE c = p
        OBVIOUS
      <3>1. Line[1] = EnterJob(r, c)
        <4>1. 1 \in 1..Len(Line)
          BY <1>4, LenProperties, EmptySeq
        <4>2. OneEnter(Line, r)
          BY <2>0 DEF SeatInv
        <4> HIDE DEF Line
        <4> QED BY <1>4, <2>2, <4>1, <4>2, OneEnterSame
      <3> QED BY <2>2, <3>1 DEF EnterJob
    <2>5. Seated(r) = {} /\ Seated(r)' = {p}
      <3>1. Seated(r) = {}
        BY <2>0, <2>3 DEF SeatInv
      <3> QED BY <1>3, <1>4, <1>5, <1>10, <3>1 DEF Seated
    <2> HIDE DEF Inbox, Line, Seated
    <2>6. ~NoEntry(r)
      BY <2>3 DEF NoEntry
    <2>7. /\ \A name : InHandler(r, name)' <=> InHandler(r, name)
          /\ Entered(r)' <=> Entered(r)
          /\ LoggedIn(r)' <=> LoggedIn(r)
      BY <2>1 DEF SameSession, InHandler, Entered, LoggedIn
    <2> HIDE DEF InHandler
    <2>8. FreshInv(r)'
      BY <2>0, <2>1, <2>7 DEF FreshInv, SameSession
    <2>9. OnceInv(r)'
      BY <2>0, <2>1 DEF OnceInv, SameSession
    <2>10. EntryInv(r)'
      BY <2>0, <2>1, <2>6, <2>7 DEF EntryInv, SameSession
    <2>11. PlayerInv(r)'
      BY <1>3, <2>0, <2>1, <2>7 DEF PlayerInv, SameSession
    <2>12. SeatInv(r)'
      BY <2>0, <2>1, <2>3, <2>5 DEF SeatInv, SameSession
    <2>13. PlaceInv(r)'
      <3> SUFFICES ASSUME ~raced[r]
                   PROVE  /\ closing[r] \in {"no", "leave"} => Entered(r) /\ Seated(r)' = {current[r]}
                          /\ closing[r] \in {"clear", "done"} =>
                               Has(Line', LeaveJob(r, p)) /\ EnterThenLeave(Line', r)
        BY <2>1, <2>5, <2>7 DEF PlaceInv, SameSession
      <3> QED BY <2>0, <2>3, <2>4, <2>5, <2>6 DEF PlaceInv
    <2>14. ToldInv(r)'
      BY <2>0, <2>1, <2>3, <2>6, <2>7 DEF ToldInv, SameSession
    <2> QED BY <2>8, <2>9, <2>10, <2>11, <2>12, <2>13, <2>14 DEF SessionInv
  <1>11. \A r \in Sessions : SessionInv(r)'
    BY <1>9, <1>10
  <1> QED BY <1>1, <1>6, <1>7, <1>8, <1>11 DEF RoomIInv

LEMMA LeaveStep ==
  ASSUME RoomIInv, Leave
  PROVE  RoomIInv'
  <1>0. TypeInv /\ MemberInv /\ JobInv /\ HeardInv /\ \A r \in Sessions : SessionInv(r)
    BY DEF RoomIInv
  <1>1. TypeInv'
    BY <1>0, TypeRoom DEF Room
  <1> DEFINE j == Line[1]
             s == j.from
             p == j.player
  <1>2. /\ UNCHANGED roomFrame /\ toClient' = toClient /\ Queue!Finish(RoomQueue)
        /\ targets' = targets /\ ~Running("Broadcast")
        /\ active[RoomQueue].do = "Leave"
        /\ roomPlayers' = roomPlayers \ {active[RoomQueue].player}
    BY DEF Leave, Running, Job
  <1>3. /\ owner' = owner /\ raced' = raced /\ OwnerGrows
        /\ \A r \in Sessions : SameSession(r)
    BY <1>2, RoomSame
  <1>4. /\ Line # <<>> /\ Line' = Tail(Line) /\ Line \in Seq(JobType)
        /\ j \in JobType /\ j.do = "Leave" /\ roomPlayers' = roomPlayers \ {p}
    BY <1>0, <1>2, LineFinish, LineType
  <1>5. s \in Sessions /\ owner[p] = s
    <2>1. 1 \in 1..Len(Line)
      BY <1>4, LenProperties, EmptySeq
    <2>2. JobOK(j, owner, raced)
      BY <1>0, <2>1 DEF JobInv
    <2> QED BY <1>4, <2>2, JobTypes DEF JobOK
  <1> HIDE DEF j, s, p
  <1>6. MemberInv'
    BY <1>0, <1>2, <1>3, <1>4 DEF MemberInv, Running
  <1>7. JobInv'
    BY <1>0, <1>3, <1>4, JobsKept
  <1>8. HeardInv'
    BY <1>0, <1>2 DEF HeardInv
  <1>9. ASSUME NEW r \in Sessions, r # s PROVE SessionInv(r)'
    <2>1. MayHear(r) /\ LineKeeps(r)
      BY <1>2, <1>4, <1>9 DEF MayHear, LineKeeps, JobOf, j, s
    <2>2. Seated(r)' = Seated(r)
      BY <1>3, <1>4, <1>5, <1>9 DEF Seated
    <2> QED BY <1>0, <1>3, <2>1, <2>2, SessionFrame
  <1>10. ASSUME NEW r \in Sessions, r = s PROVE SessionInv(r)'
    <2>0. /\ FreshInv(r) /\ OnceInv(r) /\ EntryInv(r) /\ PlayerInv(r)
          /\ SeatInv(r) /\ PlaceInv(r) /\ ToldInv(r)
      BY <1>0 DEF SessionInv
    <2>1. SameSession(r) /\ toClient' = toClient
      BY <1>2, <1>3
    <2>2. JobOf(Line[1], "Leave", r) /\ Line[1].player = p
      BY <1>4, <1>10 DEF JobOf, j, s, p
    <2>3. /\ JobIn(Line, "Leave", r) /\ OneEnter(Line', r)
          /\ JobIn(Line', "Enter", r) <=> JobIn(Line, "Enter", r)
          /\ EnterThenLeave(Line, r) => EnterThenLeave(Line', r)
          /\ \A c : c # p /\ Has(Line, LeaveJob(r, c)) => Has(Line', LeaveJob(r, c))
          /\ JobIn(Line', "Broadcast", r) => JobIn(Line, "Broadcast", r)
          /\ ChatsBeforeEnter(Line, r) => ChatsBeforeEnter(Line', r)
      <3> DEFINE q == Line
      <3>1. /\ q \in Seq(JobType) /\ q # <<>> /\ OneEnter(q, r) /\ JobOf(q[1], "Leave", r)
            /\ q[1].player = p /\ ~JobOf(q[1], "Enter", r)
        BY <1>4, <2>0, <2>2 DEF SeatInv, JobOf
      <3> HIDE DEF q
      <3>2. /\ JobIn(q, "Leave", r)
            /\ JobIn(Tail(q), "Enter", r) <=> JobIn(q, "Enter", r)
        BY <3>1, JobTail
      <3>3. /\ OneEnter(Tail(q), r)
            /\ EnterThenLeave(q, r) => EnterThenLeave(Tail(q), r)
            /\ JobIn(Tail(q), "Broadcast", r) => JobIn(q, "Broadcast", r)
            /\ ChatsBeforeEnter(q, r) => ChatsBeforeEnter(Tail(q), r)
        BY <3>1, JobTail
      <3>4. ASSUME NEW c, c # p, Has(q, LeaveJob(r, c)) PROVE Has(Tail(q), LeaveJob(r, c))
        <4>1. q[1] # LeaveJob(r, c)
          BY <3>1, <3>4 DEF LeaveJob
        <4> QED BY <3>1, <3>4, <4>1, JobTail
      <3> QED BY <1>4, <3>2, <3>3, <3>4 DEF q
    <2>4. Seated(r)' = Seated(r) \ {p}
      BY <1>3, <1>4 DEF Seated
    <2> HIDE DEF Inbox, Line, Seated
    <2>5. NoEntry(r) => NoEntry(r)'
      BY <2>3, <2>4 DEF NoEntry
    <2>6. /\ \A name : InHandler(r, name)' <=> InHandler(r, name)
          /\ Entered(r)' <=> Entered(r)
          /\ LoggedIn(r)' <=> LoggedIn(r)
      BY <2>1 DEF SameSession, InHandler, Entered, LoggedIn
    <2> HIDE DEF InHandler
    <2>7. closing[r] \in {"clear", "done"}
      BY <1>0, <2>0, <2>3 DEF SeatInv, TypeInv
    <2>8. FreshInv(r)'
      BY <2>0, <2>1, <2>6 DEF FreshInv, SameSession
    <2>9. OnceInv(r)'
      BY <2>0, <2>1 DEF OnceInv, SameSession
    <2>10. EntryInv(r)'
      BY <2>0, <2>1, <2>5, <2>6 DEF EntryInv, SameSession
    <2>11. PlayerInv(r)'
      BY <1>3, <2>0, <2>1, <2>6 DEF PlayerInv, SameSession
    <2>12. SeatInv(r)'
      BY <2>0, <2>1, <2>3, <2>4, <2>7 DEF SeatInv, SameSession
    <2>13. PlaceInv(r)'
      BY <2>0, <2>1, <2>3, <2>4, <2>7 DEF PlaceInv, SameSession
    <2>14. ToldInv(r)'
      BY <2>1, <2>7 DEF ToldInv, SameSession
    <2> QED BY <2>8, <2>9, <2>10, <2>11, <2>12, <2>13, <2>14 DEF SessionInv
  <1>11. \A r \in Sessions : SessionInv(r)'
    BY <1>9, <1>10
  <1> QED BY <1>1, <1>6, <1>7, <1>8, <1>11 DEF RoomIInv

-----------------------------------------------------------------------------
(* The theorems.                                                           *)

LEMMA RoomInit == Init => RoomIInv
  <1> SUFFICES ASSUME Init PROVE RoomIInv
    OBVIOUS
  <1>1. TypeInv
    BY TypeInit
  <1>2. /\ active[RoomQueue] = NoJob /\ pending[RoomQueue] = <<>> /\ roomPlayers = {}
        /\ targets = {}
    BY DEF Init, Queue!Init
  <1>3. Line = <<>>
    BY <1>2 DEF Line
  <1>4. \A do, r : ~JobIn(Line, do, r)
    BY <1>3 DEF JobIn
  <1>5. MemberInv
    BY <1>2 DEF MemberInv
  <1>6. JobInv
    BY <1>3 DEF JobInv
  <1>7. HeardInv
    BY DEF HeardInv, OwnChat, Init
  <1>8. ASSUME NEW s \in Sessions PROVE SessionInv(s)
    <2>1. /\ client[s] = "connecting" /\ seen[s] = 0 /\ toServer[s] = <<>> /\ toClient[s] = <<>>
          /\ ~connected[s] /\ ~posted[s] /\ batch[s] = <<>> /\ step[s] = 1 /\ closing[s] = "no"
          /\ players[s] = <<>> /\ current[s] = NoPlayer /\ ~inRoom[s] /\ ~raced[s]
      BY DEF Init
    <2>2. Inbox(s) = <<>>
      BY <2>1 DEF Inbox
    <2>3. Seated(s) = {} /\ NoEntry(s)
      BY <1>2, <1>4 DEF Seated, NoEntry
    <2>4. \A name : ~InHandler(s, name) /\ ~Named(Inbox(s), name) /\ ~Named(toClient[s], name)
      BY <2>1, <2>2 DEF InHandler, Named, NamedTo
    <2>5. \A name : Once(Inbox(s), name) /\ Once(toClient[s], name)
      BY <2>1, <2>2 DEF Once
    <2> HIDE DEF Inbox, Line, Seated, InHandler, NoEntry
    <2>6. FreshInv(s)
      BY <2>1, <2>4, EmptySeq DEF FreshInv
    <2>7. OnceInv(s)
      BY <2>4, <2>5 DEF OnceInv
    <2>8. EntryInv(s)
      BY <2>1, <2>3, <2>4 DEF EntryInv
    <2>9. PlayerInv(s)
      BY <2>1, <2>4, EmptySeq DEF PlayerInv
    <2>10. SeatInv(s)
      BY <1>3, <1>4, <2>3 DEF SeatInv, OneEnter
    <2>11. PlaceInv(s)
      BY <2>1, <2>3 DEF PlaceInv, Entered
    <2>12. ToldInv(s)
      BY <2>1, <2>3, <2>4 DEF ToldInv
    <2> QED BY <2>6, <2>7, <2>8, <2>9, <2>10, <2>11, <2>12 DEF SessionInv
  <1> QED BY <1>1, <1>5, <1>6, <1>7, <1>8 DEF RoomIInv

LEMMA RoomStutter ==
  ASSUME RoomIInv, UNCHANGED <<roomFrame, toClient, roomVars>>, chats' = chats
  PROVE  RoomIInv'
  <1>0. TypeInv /\ MemberInv /\ JobInv /\ HeardInv /\ \A r \in Sessions : SessionInv(r)
    BY DEF RoomIInv
  <1>1. /\ owner' = owner /\ raced' = raced /\ OwnerGrows
        /\ \A r \in Sessions : SameSession(r)
    BY RoomSame
  <1>2. /\ toClient' = toClient /\ roomPlayers' = roomPlayers /\ targets' = targets
        /\ UNCHANGED queueVars /\ Line' = Line /\ active' = active
    BY LineSame DEF roomVars
  <1>3. TypeInv'
    BY <1>0, <1>2 DEF TypeInv, roomFrame, clientVars, sessionVars, serverVars, queueVars
  <1>4. MemberInv'
    BY <1>0, <1>1, <1>2 DEF MemberInv, Running
  <1>5. JobInv'
    BY <1>0, <1>1, <1>2, JobsKept
  <1>6. HeardInv'
    BY <1>0, <1>2 DEF HeardInv
  <1>7. ASSUME NEW r \in Sessions PROVE SessionInv(r)'
    <2>1. MayHear(r) /\ LineKeeps(r) /\ Seated(r)' = Seated(r)
      BY <1>0, <1>1, <1>2, SeatedKept DEF MayHear, LineKeeps
    <2> QED BY <1>0, <1>1, <2>1, SessionFrame
  <1> QED BY <1>3, <1>4, <1>5, <1>6, <1>7 DEF RoomIInv

\* The inductive invariant, of every number of sessions, chats and breaks.
THEOREM RoomIsInvariant == Spec => []RoomIInv
  <1>1. Init => RoomIInv
    BY RoomInit
  <1>2. RoomIInv /\ [Next]_vars => RoomIInv'
    <2> SUFFICES ASSUME RoomIInv, [Next]_vars PROVE RoomIInv'
      OBVIOUS
    <2>1. ASSUME NEW s \in Sessions, Client(s) \/ Break(s) PROVE RoomIInv'
      BY <2>1, ClientStep
    <2>2. ASSUME NEW s \in Sessions, Worker(s) PROVE RoomIInv'
      BY <2>2, WorkerStep
    <2>3. CASE Room
      BY <2>3, StartStep, EnterStep, LeaveStep, BroadcastSendStep, BroadcastEndStep DEF Room
    <2>4. CASE Crash
      BY <2>4, RoomStutter DEF Crash, roomFrame, clientVars
    <2>5. CASE UNCHANGED vars
      BY <2>5, RoomStutter DEF vars, roomFrame, clientVars
    <2> QED BY <2>1, <2>2, <2>3, <2>4, <2>5 DEF Next
  <1> QED BY <1>1, <1>2, PTL DEF Spec

LEMMA RoomInvariantSafe == RoomIInv => RoomInv
  <1> SUFFICES ASSUME RoomIInv PROVE RoomInv
    OBVIOUS
  <1>0. TypeInv /\ MemberInv /\ JobInv /\ HeardInv /\ \A r \in Sessions : SessionInv(r)
    BY DEF RoomIInv
  <1>1. TypeOK
    <2>1. \A s \in Sessions : current[s] \in 0..Len(owner)
      BY <1>0, LenProperties DEF SessionInv, PlayerInv, TypeInv, NoPlayer
    <2>2. current \in [Sessions -> 0..Len(owner)]
      BY <1>0, <2>1 DEF TypeInv
    <2>3. \A s \in Sessions : seen[s] <= Len(toClient[s])
      BY <1>0 DEF SessionInv, FreshInv
    <2> QED BY <1>0, <2>2, <2>3 DEF TypeOK, MemberInv, TypeInv
  <1>2. GoneSessionsLeave
    <2> SUFFICES ASSUME NEW s \in Sessions, RoomIdle, ~raced[s]
                 PROVE  Seated(s) = IF closing[s] \in {"no", "leave"} /\ Entered(s)
                                    THEN {current[s]} ELSE {}
      <3>1. \A s \in Sessions : Entered(s) <=>
              /\ current[s] # NoPlayer
              /\ batch[s] = <<>> \/ Head(batch[s]).name # "C_ENTER_GAME" \/ step[s] = 3
        BY DEF Entered, InHandler
      <3> HIDE DEF Entered
      <3> QED BY <3>1 DEF GoneSessionsLeave, Seated
    <2>1. Line = <<>>
      BY DEF RoomIdle, Line
    <2>2. \A j : ~Has(Line, j)
      BY <2>1 DEF Has
    <2>3. PlaceInv(s) /\ closing[s] \in {"no", "leave", "clear", "done"}
      BY <1>0 DEF SessionInv, TypeInv
    <2> HIDE DEF Line, Seated, Entered
    <2> QED BY <2>2, <2>3 DEF PlaceInv, NoEntry
  <1>3. OwnChatAfterEnter
    BY <1>0 DEF OwnChatAfterEnter, HeardInv, OwnChat, NamedTo
  <1>4. OnlyRacesCrash
    <2> SUFFICES ASSUME MayCrash PROVE \E s \in Sessions : raced[s] \/ closing[s] = "leave"
      BY DEF OnlyRacesCrash
    <2>1. ASSUME NEW s \in Sessions, Handles(s, "C_ENTER_GAME", 1), players[s] = <<>>
          PROVE  raced[s] \/ closing[s] = "leave"
      <3>1. InHandler(s, "C_ENTER_GAME") /\ batch[s] # <<>>
        BY <2>1 DEF Handles, InHandler
      <3>2. Named(Inbox(s), "C_ENTER_GAME")
        BY <1>0, <3>1, InboxHandled
      <3>3. LoggedIn(s)
        BY <1>0, <3>2 DEF SessionInv, EntryInv
      <3>4. Named(toClient[s], "S_LOGIN")
        <4>1. seen[s] \in Nat /\ Len(toClient[s]) \in Nat /\ seen[s] <= Len(toClient[s])
          BY <1>0, LenProperties DEF TypeInv, SessionInv, FreshInv
        <4> QED BY <3>3, <4>1 DEF LoggedIn, Named, NamedTo
      <3>5. closing[s] = "done"
        BY <1>0, <2>1, <3>4 DEF SessionInv, PlayerInv
      <3> QED BY <1>0, <3>1, <3>5 DEF SessionInv, FreshInv
    <2>2. ASSUME NEW s \in Sessions, Handles(s, "C_ENTER_GAME", 3), current[s] = NoPlayer
          PROVE  raced[s] \/ closing[s] = "leave"
      <3>1. InHandler(s, "C_ENTER_GAME") /\ batch[s] # <<>> /\ step[s] # 1
        BY <2>2 DEF Handles, InHandler
      <3>2. closing[s] = "done"
        BY <1>0, <2>2, <3>1 DEF SessionInv, PlayerInv
      <3> QED BY <1>0, <3>1, <3>2 DEF SessionInv, FreshInv
    <2>3. ASSUME NEW s \in Sessions, closing[s] \in {"leave", "clear"}, batch[s] # <<>>
          PROVE  raced[s] \/ closing[s] = "leave"
      BY <1>0, <2>3 DEF SessionInv, FreshInv
    <2>4. ASSUME Running("Enter"), Job.player = NoPlayer
          PROVE  \E s \in Sessions : raced[s]
      <3>1. active[RoomQueue] # NoJob /\ active[RoomQueue].do = "Enter"
        BY <2>4, JobTypes DEF Running
      <3>2. /\ Line[1] = active[RoomQueue] /\ Line[1] \in JobType /\ Line # <<>>
            /\ Line \in Seq(JobType)
        BY <1>0, <3>1, LineType
      <3>3. 1 \in 1..Len(Line)
        BY <3>2, LenProperties, EmptySeq
      <3>4. JobOK(Line[1], owner, raced)
        BY <1>0, <3>3 DEF JobInv
      <3>5. raced[Line[1].from] /\ Line[1].from \in Sessions
        BY <2>4, <3>1, <3>2, <3>4, JobTypes DEF JobOK, Job
      <3> QED BY <3>5
    <2> QED BY <2>1, <2>2, <2>3, <2>4 DEF MayCrash
  <1> QED BY <1>1, <1>2, <1>3, <1>4 DEF RoomInv

\* Whatever the order of the workers: the player of a session that is gone is
\* out of the room when the room is idle, a client does not hear itself before
\* it is told that it entered, and only a disconnect that overlaps with a
\* handler of its session ends the server.
THEOREM RoomIsSound == Spec => []RoomInv
  BY RoomIsInvariant, RoomInvariantSafe, PTL

-----------------------------------------------------------------------------
(* The chats among the packets of a queue.                                 *)

LEMMA Induction ==
  ASSUME NEW T \in SUBSET Nat, 0 \in T, \A n \in T : n + 1 \in T
  PROVE  T = Nat
  <1> SUFFICES ASSUME Nat \ T # {} PROVE FALSE
    OBVIOUS
  <1>1. PICK n \in Nat \ T : \A m \in Nat \ T : n <= m
    BY LeastNumber
  <1>2. n # 0 /\ n - 1 \in Nat /\ n - 1 \in T
    BY <1>1
  <1> QED BY <1>1, <1>2

\* h computes the chats of q, step by step.
Step(q, h, i) ==
  IF i = 0 THEN <<>>
  ELSE IF q[i].name = "S_CHAT" THEN Append(h[i - 1], q[i]) ELSE h[i - 1]
Computes(q, h) == h = [i \in 0..Len(q) |-> Step(q, h, i)]

LEMMA ComputesUnique ==
  ASSUME NEW q, Len(q) \in Nat, NEW g, NEW h, Computes(q, g), Computes(q, h)
  PROVE  g = h
  <1>1. /\ g = [i \in 0..Len(q) |-> Step(q, g, i)]
        /\ h = [i \in 0..Len(q) |-> Step(q, h, i)]
    BY DEF Computes
  <1> DEFINE T == {n \in Nat : n > Len(q) \/ g[n] = h[n]}
  <1>2. 0 \in T
    <2>1. 0 \in 0..Len(q)
      OBVIOUS
    <2>2. g[0] = Step(q, g, 0) /\ h[0] = Step(q, h, 0)
      BY <1>1, <2>1
    <2> QED BY <2>2 DEF Step
  <1>3. ASSUME NEW n \in T PROVE n + 1 \in T
    <2> SUFFICES ASSUME n + 1 <= Len(q) PROVE g[n + 1] = h[n + 1]
      OBVIOUS
    <2>1. n + 1 \in 0..Len(q) /\ n \in Nat /\ g[n] = h[n] /\ n + 1 # 0 /\ (n + 1) - 1 = n
      OBVIOUS
    <2>2. g[n + 1] = Step(q, g, n + 1) /\ h[n + 1] = Step(q, h, n + 1)
      BY <1>1, <2>1
    <2> QED BY <2>1, <2>2 DEF Step
  <1>4. T = Nat
    <2> HIDE DEF T
    <2>1. T \in SUBSET Nat
      BY DEF T
    <2> QED BY <1>2, <1>3, <2>1, Induction
  <1>5. \A i \in 0..Len(q) : g[i] = h[i]
    BY <1>4
  <1> QED BY <1>1, <1>5

\* A computation for q goes on with one more element.
LEMMA ComputesAppend ==
  ASSUME NEW S, NEW q \in Seq(S), NEW e \in S, NEW h, Computes(q, h)
  PROVE  \E g : /\ Computes(Append(q, e), g)
                /\ g[Len(q) + 1] = IF e.name = "S_CHAT" THEN Append(h[Len(q)], e) ELSE h[Len(q)]
  <1> DEFINE a == Append(q, e)
             g == [i \in 0..Len(a) |-> IF i \in 0..Len(q) THEN h[i]
                                       ELSE IF e.name = "S_CHAT" THEN Append(h[Len(q)], e)
                                       ELSE h[Len(q)]]
  <1>1. /\ Len(a) = Len(q) + 1 /\ Len(q) \in Nat
        /\ \A i \in 1..Len(q) : a[i] = q[i]
        /\ a[Len(q) + 1] = e
    BY AppendProperties, LenProperties
  <1>2. h = [i \in 0..Len(q) |-> Step(q, h, i)]
    BY DEF Computes
  <1> HIDE DEF a
  <1>3. ASSUME NEW i \in 0..Len(a) PROVE g[i] = Step(a, g, i)
    <2>1. CASE i = 0
      <3>1. 0 \in 0..Len(q) /\ 0 \in 0..Len(a)
        BY <1>1
      <3>2. h[0] = Step(q, h, 0)
        BY <1>2, <3>1
      <3> QED BY <2>1, <3>1, <3>2 DEF Step
    <2>2. CASE i \in 1..Len(q)
      <3>1. i \in 0..Len(q) /\ i - 1 \in 0..Len(q) /\ i - 1 \in 0..Len(a) /\ i # 0 /\ a[i] = q[i]
        BY <1>1, <2>2
      <3>2. g[i] = h[i] /\ g[i - 1] = h[i - 1]
        BY <3>1
      <3>3. h[i] = Step(q, h, i)
        BY <1>2, <3>1
      <3> HIDE DEF g
      <3> QED BY <3>1, <3>2, <3>3 DEF Step
    <2>3. CASE i = Len(q) + 1
      <3>1. i # 0 /\ ~(i \in 0..Len(q)) /\ a[i] = e /\ i - 1 = Len(q) /\ Len(q) \in 0..Len(q)
             /\ Len(q) \in 0..Len(a) /\ i \in 0..Len(a)
        BY <1>1, <2>3
      <3>2. /\ g[i] = IF e.name = "S_CHAT" THEN Append(h[Len(q)], e) ELSE h[Len(q)]
            /\ g[i - 1] = h[Len(q)]
        BY <3>1
      <3> HIDE DEF g
      <3> QED BY <3>1, <3>2 DEF Step
    <2> HIDE DEF g
    <2>4. i = 0 \/ i \in 1..Len(q) \/ i = Len(q) + 1
      BY <1>1
    <2> QED BY <2>1, <2>2, <2>3, <2>4
  <1>4. Computes(a, g)
    <2>1. g = [i \in 0..Len(a) |-> g[i]]
      OBVIOUS
    <2> HIDE DEF g
    <2> QED BY <1>3, <2>1 DEF Computes
  <1>5. g[Len(q) + 1] = IF e.name = "S_CHAT" THEN Append(h[Len(q)], e) ELSE h[Len(q)]
    BY <1>1
  <1> HIDE DEF g
  <1> QED BY <1>4, <1>5 DEF a

LEMMA ComputesExists ==
  ASSUME NEW S, NEW q \in Seq(S)
  PROVE  \E h : Computes(q, h)
  <1> DEFINE T == {n \in Nat : \A r \in Seq(S) : Len(r) = n => \E h : Computes(r, h)}
  <1>1. 0 \in T
    <2> SUFFICES ASSUME NEW r \in Seq(S), Len(r) = 0 PROVE \E h : Computes(r, h)
      OBVIOUS
    <2> DEFINE h == [i \in 0..Len(r) |-> <<>>]
    <2>1. \A i \in 0..Len(r) : i = 0
      OBVIOUS
    <2>2. h = [i \in 0..Len(r) |-> Step(r, h, i)]
      BY <2>1 DEF Step
    <2> QED BY <2>2 DEF Computes
  <1>2. ASSUME NEW n \in T PROVE n + 1 \in T
    <2> SUFFICES ASSUME NEW r \in Seq(S), Len(r) = n + 1 PROVE \E h : Computes(r, h)
      OBVIOUS
    <2>1. r # <<>>
      BY EmptySeq
    <2>2. PICK p \in Seq(S), e \in S : r = Append(p, e)
      BY <2>1, SequenceEmptyOrAppend
    <2>3. Len(p) = n
      BY <2>2, AppendProperties, LenProperties
    <2>4. PICK h : Computes(p, h)
      BY <2>3
    <2> QED BY <2>2, <2>4, ComputesAppend
  <1>3. T = Nat
    <2> HIDE DEF T
    <2>1. T \in SUBSET Nat
      BY DEF T
    <2> QED BY <1>1, <1>2, <2>1, Induction
  <1>4. Len(q) \in T
    BY <1>3, LenProperties
  <1> QED BY <1>4

\* What ChatsOf computes.
LEMMA ChatsOfComputes ==
  ASSUME NEW S, NEW q \in Seq(S)
  PROVE  \E h : Computes(q, h) /\ ChatsOf(q) = h[Len(q)]
  <1> DEFINE P(h) == Computes(q, h)
  <1>1. ChatsOf(q) = (CHOOSE h : P(h))[Len(q)]
    BY Zenon DEF ChatsOf, Computes, Step
  <1>2. \E h : P(h)
    BY ComputesExists
  <1> HIDE DEF P
  <1>3. P(CHOOSE h : P(h))
    BY <1>2
  <1> QED BY <1>1, <1>3, Zenon DEF P

LEMMA ChatsOfAppend ==
  ASSUME NEW S, NEW q \in Seq(S), NEW e \in S
  PROVE  ChatsOf(Append(q, e)) = IF e.name = "S_CHAT" THEN Append(ChatsOf(q), e) ELSE ChatsOf(q)
  <1>1. PICK h : Computes(q, h) /\ ChatsOf(q) = h[Len(q)]
    BY ChatsOfComputes
  <1> DEFINE a == Append(q, e)
  <1>2. a \in Seq(S) /\ Len(a) = Len(q) + 1 /\ Len(a) \in Nat
    BY AppendProperties, LenProperties
  <1>3. PICK g : /\ Computes(a, g)
                 /\ g[Len(q) + 1] = IF e.name = "S_CHAT" THEN Append(h[Len(q)], e) ELSE h[Len(q)]
    BY <1>1, ComputesAppend
  <1> HIDE DEF a
  <1>4. PICK k : Computes(a, k) /\ ChatsOf(a) = k[Len(a)]
    BY <1>2, ChatsOfComputes
  <1>5. k = g
    BY <1>2, <1>3, <1>4, ComputesUnique
  <1> QED BY <1>1, <1>2, <1>3, <1>4, <1>5 DEF a

LEMMA ChatsOfNone == ChatsOf(<<>>) = <<>>
  <1>1. <<>> \in Seq(Nat) /\ Len(<<>>) = 0
    BY EmptySeq
  <1>2. PICK h : Computes(<<>>, h) /\ ChatsOf(<<>>) = h[Len(<<>>)]
    BY <1>1, ChatsOfComputes
  <1>3. 0 \in 0..Len(<<>>)
    BY <1>1
  <1>4. h[0] = Step(<<>>, h, 0)
    BY <1>2, <1>3 DEF Computes
  <1> QED BY <1>1, <1>2, <1>4 DEF Step

LEMMA ChatsOfType ==
  ASSUME NEW S, NEW q \in Seq(S)
  PROVE  ChatsOf(q) \in Seq(S)
  <1>1. PICK h : Computes(q, h) /\ ChatsOf(q) = h[Len(q)]
    BY ChatsOfComputes
  <1>2. h = [i \in 0..Len(q) |-> Step(q, h, i)] /\ Len(q) \in Nat
    BY <1>1, LenProperties DEF Computes
  <1> DEFINE T == {n \in Nat : n > Len(q) \/ h[n] \in Seq(S)}
  <1>3. 0 \in T
    <2>1. h[0] = Step(q, h, 0) /\ <<>> \in Seq(S)
      BY <1>2
    <2> QED BY <2>1 DEF Step
  <1>4. ASSUME NEW n \in T PROVE n + 1 \in T
    <2> SUFFICES ASSUME n + 1 <= Len(q) PROVE h[n + 1] \in Seq(S)
      OBVIOUS
    <2>1. /\ n + 1 \in 0..Len(q) /\ n \in Nat /\ h[n] \in Seq(S) /\ n + 1 # 0
          /\ (n + 1) - 1 = n /\ q[n + 1] \in S
      BY <1>2, ElementOfSeq
    <2>2. h[n + 1] = Step(q, h, n + 1)
      BY <1>2, <2>1
    <2>3. Append(h[n], q[n + 1]) \in Seq(S)
      BY <2>1, AppendProperties
    <2> QED BY <2>1, <2>2, <2>3 DEF Step
  <1>5. T = Nat
    <2> HIDE DEF T
    <2>1. T \in SUBSET Nat
      BY DEF T
    <2> QED BY <1>3, <1>4, <2>1, Induction
  <1>6. Len(q) \in T
    BY <1>2, <1>5
  <1> QED BY <1>1, <1>2, <1>6

-----------------------------------------------------------------------------
(* The room implements ChatRoom.                                           *)

\* Whether the broadcast that is running has still to reach a session.
Awaits(s) == \E p \in targets : owner[p] = s
Saying == [name |-> "S_CHAT", from |-> Job.from, n |-> Job.n]

LEMMA HeardByCases ==
  ASSUME NEW s
  PROVE  /\ HeardBy(s) = ChatsOf(toClient[s]) \o (IF Awaits(s) THEN <<Saying>> ELSE <<>>)
         /\ HeardBy(s)' = ChatsOf(toClient'[s]) \o (IF Awaits(s)' THEN <<Saying'>> ELSE <<>>)
  BY DEF HeardBy, Awaits, Saying

LEMMA MembersKept ==
  ASSUME TypeInv, MemberInv, OwnerGrows, roomPlayers' = roomPlayers
  PROVE  MembersNow' = MembersNow
  <1>1. \A p \in roomPlayers : owner'[p] = owner[p]
    BY OwnerKept DEF MemberInv
  <1> QED BY <1>1 DEF MembersNow

LEMMA AwaitsKept ==
  ASSUME TypeInv, MemberInv, OwnerGrows, targets' = targets, NEW s
  PROVE  Awaits(s)' <=> Awaits(s)
  <1>1. \A p \in targets : owner'[p] = owner[p]
    BY OwnerKept DEF MemberInv
  <1> QED BY <1>1 DEF Awaits

\* A step that disconnects nobody and lets nobody who is connected hear more.
LEMMA HeardKept ==
  ASSUME \A r \in Sessions : closing'[r] = "no" <=> closing[r] = "no",
         \A r \in Sessions : closing[r] = "no" => HeardBy(r)' = HeardBy(r)
  PROVE  CutOff' = CutOff /\ HeardNow' = HeardNow
  <1>1. CutOff' = CutOff
    BY DEF CutOff
  <1>2. ASSUME NEW r \in Sessions
        PROVE  (IF closing'[r] # "no" THEN <<>> ELSE HeardBy(r)')
                 = IF closing[r] # "no" THEN <<>> ELSE HeardBy(r)
    BY <1>2
  <1>3. /\ HeardNow = [r \in Sessions |-> IF closing[r] # "no" THEN <<>> ELSE HeardBy(r)]
        /\ HeardNow' = [r \in Sessions |-> IF closing'[r] # "no" THEN <<>> ELSE HeardBy(r)']
    BY DEF HeardNow
  <1> QED BY <1>1, <1>2, <1>3

ChatUnchanged == MembersNow' = MembersNow /\ HeardNow' = HeardNow /\ CutOff' = CutOff

LEMMA LocalUnheard ==
  ASSUME TypeInv, MemberInv, NEW s \in Sessions, LocalStep(s),
         \A r \in Sessions : closing'[r] = "no" <=> closing[r] = "no",
         \A r \in Sessions : ChatsOf(toClient'[r]) = ChatsOf(toClient[r])
  PROVE  ChatUnchanged
  <1>1. OwnerGrows /\ roomPlayers' = roomPlayers /\ targets' = targets /\ Saying' = Saying
    BY DEF LocalStep, Saying, Job
  <1>2. MembersNow' = MembersNow
    BY <1>1, MembersKept
  <1>3. ASSUME NEW r \in Sessions PROVE HeardBy(r)' = HeardBy(r)
    <2>1. Awaits(r)' <=> Awaits(r)
      BY <1>1, AwaitsKept
    <2> QED BY <1>1, <2>1, HeardByCases
  <1> QED BY <1>2, <1>3, HeardKept DEF ChatUnchanged

LEMMA WorkerChats ==
  ASSUME TypeInv, NEW s \in Sessions, Worker(s), NEW r \in Sessions
  PROVE  ChatsOf(toClient'[r]) = ChatsOf(toClient[r])
  <1>1. PICK p \in {Packet("S_LOGIN"), Packet("S_ENTER_GAME")} :
          toClient'[r] = toClient[r] \/ toClient'[r] = Append(toClient[r], p)
    BY WorkerSends
  <1>2. toClient[r] \in Seq(FromServer) /\ p \in FromServer /\ p.name # "S_CHAT"
    BY PacketTypes DEF TypeInv
  <1>3. ChatsOf(Append(toClient[r], p)) = ChatsOf(toClient[r])
    BY <1>2, ChatsOfAppend
  <1> QED BY <1>1, <1>3

LEMMA DisconnectChat ==
  ASSUME TypeInv, MemberInv, NEW s \in Sessions, FreshInv(s), Disconnect(s)
  PROVE  Chat!Cut(s)
  <1>1. /\ closing' = [closing EXCEPT ![s] = "leave"] /\ toClient' = toClient
        /\ owner' = owner /\ roomPlayers' = roomPlayers /\ targets' = targets /\ active' = active
    BY DEF Disconnect, serverVars, roomVars, queueVars
  <1>2. closing[s] = "no" /\ closing \in [Sessions -> {"no", "leave", "clear", "done"}]
    BY DEF Disconnect, FreshInv, TypeInv
  <1>3. MembersNow' = MembersNow
    BY <1>1 DEF MembersNow
  <1>4. CutOff' = CutOff \cup {s}
    BY <1>1, <1>2 DEF CutOff
  <1>5. ASSUME NEW r \in Sessions PROVE HeardBy(r)' = HeardBy(r)
    BY <1>1 DEF HeardBy, Job
  <1>6. HeardNow' = [HeardNow EXCEPT ![s] = <<>>]
    <2>1. /\ HeardNow = [r \in Sessions |-> IF closing[r] # "no" THEN <<>> ELSE HeardBy(r)]
          /\ HeardNow' = [r \in Sessions |-> IF closing'[r] # "no" THEN <<>> ELSE HeardBy(r)']
      BY DEF HeardNow
    <2>2. ASSUME NEW r \in Sessions
          PROVE  (IF closing'[r] # "no" THEN <<>> ELSE HeardBy(r)')
                   = IF r = s THEN <<>> ELSE IF closing[r] # "no" THEN <<>> ELSE HeardBy(r)
      BY <1>1, <1>2, <1>5
    <2> QED BY <2>1, <2>2
  <1> QED BY <1>3, <1>4, <1>6 DEF Chat!Cut

LEMMA WorkerChat ==
  ASSUME RoomIInv, NEW s \in Sessions, Worker(s)
  PROVE  ChatUnchanged \/ Chat!Cut(s)
  <1>0. TypeInv /\ MemberInv /\ FreshInv(s) /\ PlayerInv(s)
    BY DEF RoomIInv, SessionInv
  <1>1. CASE Disconnect(s)
    BY <1>0, <1>1, DisconnectChat
  <1>2. CASE ~Disconnect(s)
    <2>1. LocalStep(s)
      BY <1>0, WorkerLocal
    <2>2. \/ closing' = closing
          \/ closing[s] # "no" /\ closing' = [closing EXCEPT ![s] = "clear"]
          \/ closing[s] # "no" /\ closing' = [closing EXCEPT ![s] = "done"]
      BY <1>2 DEF Worker, Handler, ProcessAccept, ProcessRecv, Others,
        Handle_C_LOGIN_AddPlayer, Handle_C_LOGIN_Answer, Handle_C_ENTER_GAME_Choose,
        Handle_C_ENTER_GAME_Enter, Handle_C_ENTER_GAME_Answer, Handle_C_CHAT,
        OnDisconnected_Leave, OnDisconnected_Clear
    <2>3. \A r \in Sessions : closing'[r] = "no" <=> closing[r] = "no"
      BY <1>0, <2>2 DEF TypeInv
    <2>4. \A r \in Sessions : ChatsOf(toClient'[r]) = ChatsOf(toClient[r])
      BY <1>0, WorkerChats
    <2> QED BY <1>0, <2>1, <2>3, <2>4, LocalUnheard
  <1> QED BY <1>1, <1>2

LEMMA ClientChat ==
  ASSUME RoomIInv, NEW s \in Sessions, Client(s) \/ Break(s)
  PROVE  ChatUnchanged
  <1>0. TypeInv /\ MemberInv
    BY DEF RoomIInv
  <1>1. LocalStep(s) /\ toClient' = toClient /\ closing' = closing
    BY <1>0, ClientLocal DEF sessionVars
  <1> QED BY <1>0, <1>1, LocalUnheard

\* Outside of a broadcast a room's step lets nobody hear anything.
LEMMA QuietRoom ==
  ASSUME closing' = closing, toClient' = toClient, targets = {}, targets' = {}
  PROVE  CutOff' = CutOff /\ HeardNow' = HeardNow
  <1>1. ASSUME NEW r \in Sessions PROVE HeardBy(r)' = HeardBy(r)
    BY HeardByCases DEF Awaits
  <1> QED BY <1>1, HeardKept

LEMMA StartChat ==
  ASSUME RoomIInv, StartJob
  PROVE  ChatUnchanged \/ \E m \in Said : Chat!Say(m)
  <1>0. TypeInv /\ MemberInv /\ JobInv
    BY DEF RoomIInv
  <1>1. /\ owner' = owner /\ toClient' = toClient /\ roomPlayers' = roomPlayers
        /\ closing' = closing
        /\ targets' = IF active'[RoomQueue].do = "Broadcast" THEN roomPlayers ELSE {}
    BY DEF StartJob, roomFrame, sessionVars, serverVars
  <1>2. /\ active[RoomQueue] = NoJob /\ active'[RoomQueue] = Line[1]
        /\ Line[1] \in JobType /\ Line # <<>> /\ Line \in Seq(JobType)
    BY <1>0, LineStart, LineType DEF StartJob
  <1>3. targets = {}
    BY <1>0, <1>2, JobTypes DEF MemberInv, Running
  <1>4. MembersNow' = MembersNow
    BY <1>1 DEF MembersNow
  <1>5. CASE Line[1].do # "Broadcast"
    BY <1>1, <1>2, <1>3, <1>4, <1>5, QuietRoom DEF ChatUnchanged
  <1>6. CASE Line[1].do = "Broadcast"
    <2> DEFINE m == [name |-> "S_CHAT", from |-> Line[1].from, n |-> Line[1].n]
    <2>1. Saying' = m /\ targets' = roomPlayers
      BY <1>1, <1>2, <1>6 DEF Saying, Job
    <2>2. m \in Said
      <3>1. 1 \in 1..Len(Line)
        BY <1>2, LenProperties, EmptySeq
      <3>2. Line[1].n \in 1..MaxChats
        BY <1>0, <1>6, <3>1 DEF JobInv, JobOK
      <3> QED BY <1>2, <3>2, JobTypes DEF Said
    <2>3. CutOff' = CutOff
      BY <1>1 DEF CutOff
    <2> HIDE DEF m
    <2>4. ASSUME NEW s \in Sessions
          PROVE  (IF closing'[s] # "no" THEN <<>> ELSE HeardBy(s)')
                   = IF s \in MembersNow \ CutOff THEN Append(HeardNow[s], m) ELSE HeardNow[s]
      <3> DEFINE c == ChatsOf(toClient[s])
      <3>1. c \in Seq(FromServer) /\ m \in FromServer
        BY <1>0, <2>2, ChatsOfType DEF TypeInv, FromServer
      <3>2. HeardNow[s] = IF closing[s] # "no" THEN <<>> ELSE HeardBy(s)
        BY DEF HeardNow
      <3>3. HeardBy(s) = c \o <<>>
        BY <1>3, HeardByCases DEF Awaits
      <3>4. Awaits(s)' <=> s \in MembersNow
        BY <1>1, <2>1 DEF Awaits, MembersNow
      <3>5. HeardBy(s)' = c \o (IF s \in MembersNow THEN <<m>> ELSE <<>>)
        BY <1>1, <2>1, <3>4, HeardByCases
      <3> HIDE DEF c
      <3>6. c \o <<>> = c /\ c \o <<m>> = Append(c, m)
        BY <3>1, AppendIsConcat, ConcatEmptySeq
      <3>7. s \in CutOff <=> closing[s] # "no"
        BY DEF CutOff
      <3> QED BY <1>1, <3>2, <3>3, <3>5, <3>6, <3>7
    <2>5. HeardNow' = [s \in Sessions |-> IF closing'[s] # "no" THEN <<>> ELSE HeardBy(s)']
      BY DEF HeardNow
    <2>6. HeardNow' = [s \in Sessions |->
             IF s \in MembersNow \ CutOff THEN Append(HeardNow[s], m) ELSE HeardNow[s]]
      BY <2>4, <2>5
    <2>7. Chat!Say(m)
      BY <1>4, <2>3, <2>6 DEF Chat!Say
    <2> QED BY <2>2, <2>7
  <1> QED BY <1>5, <1>6

LEMMA EnterChat ==
  ASSUME RoomIInv, Enter
  PROVE  \E s \in Sessions : Chat!Join(s)
  <1>0. TypeInv /\ MemberInv /\ JobInv
    BY DEF RoomIInv
  <1> DEFINE p == Line[1].player
             s == Line[1].from
  <1>1. /\ owner' = owner /\ toClient' = toClient /\ closing' = closing /\ targets' = targets
        /\ roomPlayers' = roomPlayers \cup {Job.player} /\ Job.player # NoPlayer
        /\ active[RoomQueue].do = "Enter"
    BY DEF Enter, Running, roomFrame, sessionVars, serverVars
  <1>2. /\ active[RoomQueue] = Line[1] /\ Line[1] \in JobType
        /\ Line # <<>> /\ Line \in Seq(JobType)
    BY <1>0, LineFinish, LineType DEF Enter
  <1>3. targets = {}
    BY <1>0, <1>1 DEF MemberInv, Running
  <1>4. 1 \in 1..Len(Line)
    BY <1>2, LenProperties, EmptySeq
  <1>5. Job.player = p /\ s \in Sessions /\ owner[p] = s
    BY <1>0, <1>1, <1>2, <1>4, JobTypes DEF Job, JobInv, JobOK
  <1> HIDE DEF p, s
  <1>6. MembersNow' = MembersNow \cup {s}
    BY <1>1, <1>5 DEF MembersNow
  <1>7. CutOff' = CutOff /\ HeardNow' = HeardNow
    BY <1>1, <1>3, QuietRoom
  <1>8. Chat!Join(s)
    BY <1>6, <1>7 DEF Chat!Join
  <1> QED BY <1>5, <1>8

LEMMA LeaveChat ==
  ASSUME RoomIInv, Leave
  PROVE  ChatUnchanged \/ \E s \in Sessions : Chat!Part(s)
  <1>0. TypeInv /\ MemberInv /\ \A r \in Sessions : SeatInv(r)
    BY DEF RoomIInv, SessionInv
  <1> DEFINE p == Job.player
             s == owner[p]
  <1>1. /\ owner' = owner /\ toClient' = toClient /\ closing' = closing /\ targets' = targets
        /\ roomPlayers' = roomPlayers \ {p} /\ active[RoomQueue].do = "Leave"
    BY DEF Leave, Running, roomFrame, sessionVars, serverVars
  <1>2. targets = {}
    BY <1>0, <1>1 DEF MemberInv, Running
  <1>3. CutOff' = CutOff /\ HeardNow' = HeardNow
    BY <1>1, <1>2, QuietRoom
  <1>4. CASE p \notin roomPlayers
    <2>1. MembersNow' = MembersNow
      BY <1>1, <1>4 DEF MembersNow
    <2> QED BY <1>3, <2>1 DEF ChatUnchanged
  <1>5. CASE p \in roomPlayers
    <2>1. s \in Sessions
      <3>1. p \in 1..Len(owner) /\ owner \in Seq(Sessions)
        BY <1>0, <1>5 DEF MemberInv, TypeInv
      <3> HIDE DEF p
      <3> QED BY <3>1, ElementOfSeq
    <2>2. \A q \in roomPlayers : owner[q] = s => q = p
      BY <1>0, <1>5, <2>1 DEF SeatInv, Seated
    <2> HIDE DEF p
    <2>3. MembersNow' = MembersNow \ {s}
      BY <1>1, <1>5, <2>2 DEF MembersNow
    <2>4. Chat!Part(s)
      BY <1>3, <2>3 DEF Chat!Part
    <2> HIDE DEF s
    <2> QED BY <2>1, <2>4
  <1> QED BY <1>4, <1>5

\* A member that is still connected gets what it is said to have heard.
LEMMA BroadcastSendChat ==
  ASSUME RoomIInv, BroadcastSend
  PROVE  ChatUnchanged
  <1>0. TypeInv /\ MemberInv /\ JobInv /\ \A r \in Sessions : SessionInv(r)
    BY DEF RoomIInv
  <1> DEFINE x == owner[Turn]
  <1>1. /\ UNCHANGED roomFrame /\ roomPlayers' = roomPlayers /\ UNCHANGED queueVars
        /\ Turn \in targets /\ Turn \in roomPlayers /\ x \in Sessions
        /\ Saying \in Said /\ Send(x, Saying) /\ targets' = targets \ {Turn}
    BY <1>0, BroadcastTurn DEF Saying
  <1>2. /\ owner' = owner /\ closing' = closing /\ Saying' = Saying
    BY <1>1 DEF roomFrame, sessionVars, serverVars, queueVars, Saying, Job
  <1>3. MembersNow' = MembersNow
    BY <1>1, <1>2 DEF MembersNow
  <1>4. ASSUME NEW r \in Sessions, closing[r] = "no" PROVE HeardBy(r)' = HeardBy(r)
    <2>1. CASE r # x
      <3>1. toClient'[r] = toClient[r]
        BY <1>0, <1>1, <2>1 DEF Send, TypeInv
      <3>2. Awaits(r)' <=> Awaits(r)
        BY <1>1, <1>2, <2>1 DEF Awaits
      <3> QED BY <1>2, <3>1, <3>2, HeardByCases
    <2>2. CASE r = x
      <3>1. Turn \in Seated(r) /\ SeatInv(r) /\ ToldInv(r) /\ FreshInv(r)
        BY <1>0, <1>1, <2>2 DEF Seated, SessionInv
      <3>2. connected[r]
        <4> SUFFICES ASSUME ~connected[r] PROVE FALSE
          OBVIOUS
        <4>1. batch[r] = <<>> /\ toClient[r] = <<>>
          BY <1>4, <3>1 DEF FreshInv
        <4>2. ~Named(toClient[r], "S_ENTER_GAME") /\ ~InHandler(r, "C_ENTER_GAME")
          BY <4>1 DEF Named, NamedTo, InHandler
        <4>3. ~NoEntry(r)
          BY <3>1 DEF NoEntry
        <4> QED BY <1>4, <3>1, <4>2, <4>3 DEF ToldInv
      <3>3. toClient'[r] = Append(toClient[r], Saying)
        BY <1>0, <1>1, <2>2, <3>2 DEF Send, TypeInv
      <3>4. Awaits(r)
        BY <1>1, <2>2 DEF Awaits
      <3>5. ~Awaits(r)'
        <4>1. \A p \in targets : owner[p] = r => p = Turn
          BY <1>0, <3>1 DEF SeatInv, Seated, MemberInv
        <4> QED BY <1>1, <1>2, <4>1 DEF Awaits
      <3> DEFINE q == toClient[r]
                 e == Saying
      <3>6. q \in Seq(FromServer) /\ e \in FromServer /\ e.name = "S_CHAT"
        BY <1>0, <1>1 DEF TypeInv, FromServer, Saying
      <3>7. HeardBy(r) = ChatsOf(q) \o <<e>> /\ HeardBy(r)' = ChatsOf(Append(q, e)) \o <<>>
        BY <1>2, <3>3, <3>4, <3>5, HeardByCases
      <3> HIDE DEF q, e
      <3>8. ChatsOf(Append(q, e)) = Append(ChatsOf(q), e) /\ ChatsOf(q) \in Seq(FromServer)
        BY <3>6, ChatsOfAppend, ChatsOfType
      <3> DEFINE c == ChatsOf(q)
      <3>9. Append(c, e) = c \o <<e>> /\ Append(c, e) \in Seq(FromServer)
        <4>1. c \in Seq(FromServer)
          BY <3>8
        <4> HIDE DEF c
        <4> QED BY <3>6, <4>1, AppendIsConcat, AppendProperties
      <3>10. Append(c, e) \o <<>> = Append(c, e)
        <4> DEFINE d == Append(c, e)
        <4>1. d \in Seq(FromServer)
          BY <3>9
        <4> HIDE DEF d
        <4>2. d \o <<>> = d
          BY <4>1, ConcatEmptySeq
        <4> QED BY <4>2 DEF d
      <3> QED BY <3>7, <3>8, <3>9, <3>10
    <2> QED BY <2>1, <2>2
  <1>5. CutOff' = CutOff /\ HeardNow' = HeardNow
    BY <1>2, <1>4, HeardKept
  <1> QED BY <1>3, <1>5 DEF ChatUnchanged

LEMMA BroadcastEndChat ==
  ASSUME BroadcastEnd
  PROVE  ChatUnchanged
  <1>1. /\ owner' = owner /\ toClient' = toClient /\ closing' = closing
        /\ roomPlayers' = roomPlayers /\ targets = {} /\ targets' = {}
    BY DEF BroadcastEnd, roomFrame, sessionVars, serverVars
  <1>2. MembersNow' = MembersNow
    BY <1>1 DEF MembersNow
  <1> QED BY <1>1, <1>2, QuietRoom DEF ChatUnchanged

LEMMA StutterChat ==
  ASSUME UNCHANGED <<owner, toClient, closing, roomPlayers, targets, active>>
  PROVE  ChatUnchanged
  <1>1. MembersNow' = MembersNow
    BY DEF MembersNow
  <1>2. ASSUME NEW r \in Sessions PROVE HeardBy(r)' = HeardBy(r)
    BY DEF HeardBy, Job
  <1> QED BY <1>1, <1>2, HeardKept DEF ChatUnchanged

LEMMA ChatInit ==
  ASSUME Init
  PROVE  Chat!Init
  <1>1. MembersNow = {} /\ CutOff = {}
    BY DEF Init, MembersNow, CutOff
  <1>2. ASSUME NEW s \in Sessions
        PROVE  (IF closing[s] # "no" THEN <<>> ELSE HeardBy(s)) = <<>>
    <2>1. closing[s] = "no" /\ toClient[s] = <<>> /\ ~Awaits(s)
      BY DEF Init, Awaits
    <2>2. HeardBy(s) = <<>> \o <<>>
      BY <2>1, HeardByCases, ChatsOfNone
    <2> QED BY <2>1, <2>2
  <1>3. HeardNow = [s \in Sessions |-> <<>>]
    BY <1>2 DEF HeardNow
  <1> QED BY <1>1, <1>3 DEF Chat!Init

LEMMA ChatStep ==
  ASSUME RoomIInv, [Next]_vars
  PROVE  [Chat!Next]_<<MembersNow, HeardNow, CutOff>>
  <1> SUFFICES ASSUME ~ChatUnchanged PROVE Chat!Next
    BY DEF ChatUnchanged
  <1>1. ASSUME NEW s \in Sessions, Client(s) \/ Break(s) PROVE Chat!Next
    BY <1>1, ClientChat
  <1>2. ASSUME NEW s \in Sessions, Worker(s) PROVE Chat!Next
    BY <1>2, WorkerChat DEF Chat!Next
  <1>3. CASE StartJob
    BY <1>3, StartChat DEF Chat!Next, Said
  <1>4. CASE Enter
    BY <1>4, EnterChat DEF Chat!Next
  <1>5. CASE Leave
    BY <1>5, LeaveChat DEF Chat!Next
  <1>6. CASE BroadcastSend \/ BroadcastEnd
    BY <1>6, BroadcastSendChat, BroadcastEndChat
  <1>7. CASE Crash
    BY <1>7, StutterChat DEF Crash, sessionVars, serverVars, roomVars, queueVars
  <1>8. CASE UNCHANGED vars
    BY <1>8, StutterChat DEF vars, sessionVars, serverVars, roomVars, queueVars
  <1> QED BY <1>1, <1>2, <1>3, <1>4, <1>5, <1>6, <1>7, <1>8 DEF Next, Room

\* Whatever the order of the workers, the room is a chat room: joining,
\* parting, speaking and disconnecting happen in one order, and a member that
\* stays connected gets what is said while it is a member, once and in order.
THEOREM RoomRefinesChat == Spec => RefinesChatRoom
  <1>1. Init => Chat!Init
    BY ChatInit
  <1>2. RoomIInv /\ [Next]_vars => [Chat!Next]_<<MembersNow, HeardNow, CutOff>>
    BY ChatStep
  <1> QED BY <1>1, <1>2, RoomIsInvariant, PTL DEF Spec, RefinesChatRoom, Chat!Spec
=============================================================================
