-------------------------- MODULE RWSpinLockProofs --------------------------
(***************************************************************************)
(* Proofs about RWSpinLock: LockInv is inductive for any set of threads    *)
(* and any nesting that fits the 16-bit halves, and the lock implements    *)
(* RWLock.                                                                 *)
(***************************************************************************)
EXTENDS RWSpinLock, FiniteSetTheorems, SequenceTheorems, TLAPS

USE LockAssumption

-----------------------------------------------------------------------------
\* The bounds on the two halves are meaningful.
LEMMA SpanFacts ==
  /\ ReadSpan \in Nat \ {0}
  /\ IsFiniteSet(Threads)
  /\ Cardinality(Threads) \in Nat
  /\ Cardinality(Threads) * MaxDepth \in Nat
  /\ 0 \notin Threads
  /\ Threads \subseteq 0..(ReadSpan - 1)
  <1>1. IsFiniteSet(1..(ReadSpan - 1))
    BY FS_Interval
  <1>2. IsFiniteSet(Threads) /\ Cardinality(Threads) \in Nat
    BY <1>1, FS_Subset, FS_CardinalityType
  <1>3. Cardinality(Threads) * MaxDepth \in Nat
    BY <1>2
  <1>4. QED
    BY <1>2, <1>3

\* Below the width of the halves arithmetic does not wrap.
LEMMA NoWrap ==
  ASSUME NEW n \in Nat
  PROVE  /\ n < ReadSpan => n % ReadSpan = n
         /\ n \in 1..ReadSpan => (n + ReadSpan - 1) % ReadSpan = n - 1
  <1>1. ASSUME NEW a \in Nat, NEW b \in Nat \ {0}, a < b PROVE a % b = a
    BY <1>1
  <1>2. ASSUME NEW a \in Nat, NEW b \in Nat \ {0}, a < b PROVE (a + b) % b = a
    BY <1>2
  <1>3. QED
    BY <1>1, <1>2, SpanFacts

\* Appending a guard to a thread's stack: what it adds and what it keeps.
LEMMA PushFacts ==
  ASSUME TypeOK, NEW t \in Threads, NEW g \in Guard, Len(held[t]) < MaxDepth,
         PushGuard(t, g)
  PROVE  /\ held' \in [Threads -> Seq(Guard)]
         /\ Len(held'[t]) = Len(held[t]) + 1
         /\ held'[t][Len(held[t]) + 1] = g
         /\ \A i \in 1..Len(held[t]) : held'[t][i] = held[t][i]
         /\ \A u \in Threads \ {t} : held'[u] = held[u]
         /\ \A u \in Threads : Len(held'[u]) <= MaxDepth /\ Len(held'[u]) \in Nat
  BY DEF TypeOK, PushGuard

\* Removing the innermost guard.
LEMMA PopFacts ==
  ASSUME TypeOK, NEW t \in Threads, held[t] # <<>>, PopGuard(t)
  PROVE  /\ held' \in [Threads -> Seq(Guard)]
         /\ Len(held[t]) \in 1..MaxDepth
         /\ Len(held'[t]) = Len(held[t]) - 1
         /\ \A i \in 1..(Len(held[t]) - 1) : held'[t][i] = held[t][i]
         /\ \A u \in Threads \ {t} : held'[u] = held[u]
         /\ \A u \in Threads : Len(held'[u]) <= MaxDepth /\ Len(held'[u]) \in Nat
  <1>1. held[t] \in Seq(Guard) /\ Len(held[t]) \in 1..MaxDepth
    BY DEF TypeOK
  <1>2. \A i \in 1..(Len(held[t]) - 1) : held[t][i] \in Guard
    BY <1>1
  <1>3. /\ SubSeq(held[t], 1, Len(held[t]) - 1) \in Seq(Guard)
        /\ Len(SubSeq(held[t], 1, Len(held[t]) - 1)) = Len(held[t]) - 1
        /\ \A i \in 1..(Len(held[t]) - 1) :
             SubSeq(held[t], 1, Len(held[t]) - 1)[i] = held[t][i]
    BY <1>1, <1>2
  <1>4. held' = [held EXCEPT ![t] = SubSeq(held[t], 1, Len(held[t]) - 1)]
    BY DEF PopGuard
  <1>5. held \in [Threads -> Seq(Guard)] /\ \A u \in Threads : Len(held[u]) <= MaxDepth
    BY DEF TypeOK
  <1>6. QED
    BY <1>1, <1>3, <1>4, <1>5

\* The sets the counters count are finite, and too small to carry into the
\* owner's half of the word.
LEMMA HoldsFinite ==
  /\ IsFiniteSet(ReadHolds)
  /\ Cardinality(ReadHolds) \in 0..(ReadSpan - 1)
  /\ \A t \in Threads : /\ IsFiniteSet(WriteHolds(t))
                        /\ Cardinality(WriteHolds(t)) \in 0..MaxDepth
  <1>1. IsFiniteSet(1..MaxDepth) /\ Cardinality(1..MaxDepth) = MaxDepth
    BY FS_Interval
  <1>2. IsFiniteSet(Threads)
    BY SpanFacts
  <1>3. /\ IsFiniteSet(Threads \X (1..MaxDepth))
        /\ Cardinality(Threads \X (1..MaxDepth)) = Cardinality(Threads) * MaxDepth
    BY <1>1, <1>2, FS_Product
  <1>4. IsFiniteSet(ReadHolds) /\ Cardinality(ReadHolds) <= Cardinality(Threads) * MaxDepth
    <2>1. ReadHolds \in SUBSET (Threads \X (1..MaxDepth))
      BY DEF ReadHolds
    <2>2. QED
      BY <1>3, <2>1, FS_Subset
  <1>5. Cardinality(ReadHolds) \in Nat
    BY <1>4, FS_CardinalityType
  <1>6. Cardinality(Threads) \in Nat /\ Cardinality(Threads) * MaxDepth \in Nat
    BY SpanFacts
  <1>7. ASSUME NEW t \in Threads
        PROVE  IsFiniteSet(WriteHolds(t)) /\ Cardinality(WriteHolds(t)) \in 0..MaxDepth
    <2>1. WriteHolds(t) \in SUBSET (1..MaxDepth)
      BY DEF WriteHolds
    <2>2. IsFiniteSet(WriteHolds(t)) /\ Cardinality(WriteHolds(t)) <= MaxDepth
      BY <1>1, <2>1, FS_Subset
    <2>3. QED
      BY <2>2, FS_CardinalityType
  <1>8. QED
    BY <1>4, <1>5, <1>6, <1>7

\* A counter is zero exactly when nobody holds such a guard.
LEMMA ZeroMeansNone ==
  ASSUME TypeOK
  PROVE  /\ Cardinality(ReadHolds) = 0 <=> \A t \in Threads : ~ Holds(t, "R")
         /\ \A t \in Threads : Cardinality(WriteHolds(t)) = 0 <=> ~ Holds(t, "W")
  <1>1. Cardinality(ReadHolds) = 0 <=> ReadHolds = {}
    BY HoldsFinite, FS_EmptySet
  <1>2. ReadHolds = {} <=> \A t \in Threads : ~ Holds(t, "R")
    <2>1. \A t \in Threads, i \in 1..MaxDepth :
            <<t, i>> \in ReadHolds <=> i <= Len(held[t]) /\ held[t][i] = "R"
      BY DEF ReadHolds
    <2>2. \A p \in ReadHolds : /\ p[1] \in Threads /\ p[2] \in 1..MaxDepth
                               /\ p[2] <= Len(held[p[1]]) /\ held[p[1]][p[2]] = "R"
      BY DEF ReadHolds
    <2>3. \A t \in Threads : Len(held[t]) \in Nat /\ Len(held[t]) <= MaxDepth
      BY DEF TypeOK
    <2>4. ASSUME NEW p \in ReadHolds PROVE \E t \in Threads : Holds(t, "R")
      <3>1. p[1] \in Threads /\ p[2] \in 1..Len(held[p[1]]) /\ held[p[1]][p[2]] = "R"
        BY <2>2, <2>3
      <3>2. Holds(p[1], "R")
        BY <3>1 DEF Holds
      <3>3. QED
        BY <3>1, <3>2
    <2>5. ASSUME NEW t \in Threads, Holds(t, "R") PROVE ReadHolds # {}
      <3>1. PICK i \in 1..Len(held[t]) : held[t][i] = "R"
        BY <2>5 DEF Holds
      <3>2. i \in 1..MaxDepth /\ i <= Len(held[t])
        BY <2>3
      <3>3. <<t, i>> \in ReadHolds
        BY <2>1, <3>1, <3>2
      <3>4. QED
        BY <3>3
    <2>6. QED
      BY <2>4, <2>5
  <1>3. ASSUME NEW t \in Threads
        PROVE  Cardinality(WriteHolds(t)) = 0 <=> ~ Holds(t, "W")
    <2>1. Cardinality(WriteHolds(t)) = 0 <=> WriteHolds(t) = {}
      BY HoldsFinite, FS_EmptySet
    <2>2. Len(held[t]) \in Nat /\ Len(held[t]) <= MaxDepth
      BY DEF TypeOK
    <2>3. QED
      BY <2>1, <2>2 DEF Holds, WriteHolds
  <1>4. QED
    BY <1>1, <1>2, <1>3

\* The same two facts about the state after a step.
LEMMA CountsAfterStep ==
  /\ (Cardinality(ReadHolds) \in 0..(ReadSpan - 1))'
  /\ (TypeOK => \A t \in Threads : Cardinality(WriteHolds(t)) = 0 <=> ~ Holds(t, "W"))'
  <1>1. Cardinality(ReadHolds) \in 0..(ReadSpan - 1)
    BY HoldsFinite
  <1>2. TypeOK => \A t \in Threads : Cardinality(WriteHolds(t)) = 0 <=> ~ Holds(t, "W")
    BY ZeroMeansNone
  <1>3. QED
    BY <1>1, <1>2, PTL

\* Pushing a guard adds one to the count of its kind and leaves the others.
LEMMA PushCounts ==
  ASSUME TypeOK, NEW t \in Threads, NEW g \in Guard, Len(held[t]) < MaxDepth,
         PushGuard(t, g)
  PROVE  /\ Cardinality(ReadHolds') = Cardinality(ReadHolds) + (IF g = "R" THEN 1 ELSE 0)
         /\ Cardinality(WriteHolds(t)') = Cardinality(WriteHolds(t)) + (IF g = "W" THEN 1 ELSE 0)
         /\ \A u \in Threads \ {t} : WriteHolds(u)' = WriteHolds(u)
         /\ \A u \in Threads \ {t}, k \in Guard : Holds(u, k)' <=> Holds(u, k)
         /\ \A k \in Guard : Holds(t, k)' <=> Holds(t, k) \/ k = g
  <1> DEFINE n == Len(held[t]) + 1
  <1>1. n \in 1..MaxDepth /\ \A u \in Threads : Len(held[u]) \in 0..MaxDepth
    BY DEF TypeOK
  <1>2. /\ Len(held'[t]) = n /\ held'[t][n] = g
        /\ \A i \in 1..(n - 1) : held'[t][i] = held[t][i]
        /\ \A u \in Threads \ {t} : held'[u] = held[u]
    BY PushFacts
  <1>3. Cardinality(ReadHolds') = Cardinality(ReadHolds) + (IF g = "R" THEN 1 ELSE 0)
    <2>1. <<t, n>> \notin ReadHolds
      BY <1>1 DEF ReadHolds
    <2>2. ASSUME NEW p \in Threads \X (1..MaxDepth)
          PROVE  p \in ReadHolds' <=> p \in ReadHolds \/ (p = <<t, n>> /\ g = "R")
      <3> DEFINE u == p[1]
                 i == p[2]
      <3>1. u \in Threads /\ i \in 1..MaxDepth /\ p = <<u, i>>
        OBVIOUS
      <3>2. p \in ReadHolds <=> i <= Len(held[u]) /\ held[u][i] = "R"
        BY <3>1 DEF ReadHolds
      <3>3. p \in ReadHolds' <=> i <= Len(held'[u]) /\ held'[u][i] = "R"
        BY <3>1 DEF ReadHolds
      <3>4. CASE u # t
        <4>1. p # <<t, n>>
          BY <3>4
        <4>2. held'[u] = held[u]
          BY <1>2, <3>1, <3>4
        <4>3. QED
          BY <3>2, <3>3, <4>1, <4>2
      <3>5. CASE u = t
        <4>1. p = <<t, n>> <=> i = n
          BY <3>1, <3>5
        <4>2. i <= n <=> i = n \/ i <= n - 1
          BY <1>1, <3>1
        <4>3. i <= n - 1 => held'[t][i] = held[t][i]
          BY <1>1, <1>2, <3>1
        <4>4. ~ (n <= Len(held[t]))
          BY <1>1
        <4>5. QED
          BY <1>2, <3>2, <3>3, <3>5, <4>1, <4>2, <4>3, <4>4
      <3>6. QED
        BY <3>4, <3>5
    <2>3. ReadHolds \subseteq Threads \X (1..MaxDepth) /\ ReadHolds' \subseteq Threads \X (1..MaxDepth)
      BY DEF ReadHolds
    <2>4. CASE g = "R"
      <3>1. ReadHolds' = ReadHolds \cup {<<t, n>>}
        BY <1>1, <2>2, <2>3, <2>4
      <3>2. QED
        BY <2>1, <2>4, <3>1, HoldsFinite, FS_AddElement
    <2>5. CASE g # "R"
      <3>1. ReadHolds' = ReadHolds
        BY <2>2, <2>3, <2>5
      <3>2. QED
        BY <2>5, <3>1, HoldsFinite
    <2>6. QED
      BY <2>4, <2>5
  <1>4. Cardinality(WriteHolds(t)') = Cardinality(WriteHolds(t)) + (IF g = "W" THEN 1 ELSE 0)
    <2>1. n \notin WriteHolds(t)
      BY <1>1 DEF WriteHolds
    <2>2. CASE g = "W"
      <3>1. WriteHolds(t)' = WriteHolds(t) \cup {n}
        BY <1>1, <1>2, <2>2 DEF WriteHolds
      <3>2. QED
        BY <2>1, <2>2, <3>1, HoldsFinite, FS_AddElement
    <2>3. CASE g # "W"
      <3>1. WriteHolds(t)' = WriteHolds(t)
        BY <1>1, <1>2, <2>3 DEF WriteHolds
      <3>2. QED
        BY <2>3, <3>1, HoldsFinite
    <2>4. QED
      BY <2>2, <2>3
  <1>5. \A u \in Threads \ {t} : WriteHolds(u)' = WriteHolds(u)
    BY <1>2 DEF WriteHolds
  <1>6. \A u \in Threads \ {t}, k \in Guard : Holds(u, k)' <=> Holds(u, k)
    BY <1>2 DEF Holds
  <1>7. ASSUME NEW k \in Guard PROVE Holds(t, k)' <=> Holds(t, k) \/ k = g
    <2>1. Holds(t, k)' <=> \E i \in 1..n : held'[t][i] = k
      BY <1>2 DEF Holds
    <2>2. n \in 1..n /\ \A i \in 1..n : i = n \/ i \in 1..Len(held[t])
      BY <1>1
    <2>3. \A i \in 1..Len(held[t]) : i \in 1..n /\ held'[t][i] = held[t][i]
      BY <1>1, <1>2
    <2>4. QED
      BY <1>2, <2>1, <2>2, <2>3 DEF Holds
  <1>8. QED
    BY <1>3, <1>4, <1>5, <1>6, <1>7

\* Popping takes one off the count of the innermost guard's kind.
LEMMA PopCounts ==
  ASSUME TypeOK, NEW t \in Threads, held[t] # <<>>, PopGuard(t)
  PROVE  /\ Cardinality(ReadHolds') = Cardinality(ReadHolds) - (IF Top(t) = "R" THEN 1 ELSE 0)
         /\ Cardinality(WriteHolds(t)') = Cardinality(WriteHolds(t)) - (IF Top(t) = "W" THEN 1 ELSE 0)
         /\ \A u \in Threads \ {t} : WriteHolds(u)' = WriteHolds(u)
         /\ \A u \in Threads \ {t}, k \in Guard : Holds(u, k)' <=> Holds(u, k)
         /\ \A k \in Guard : Holds(t, k)' => Holds(t, k)
         /\ \A k \in Guard : Holds(t, k) /\ k # Top(t) => Holds(t, k)'
         /\ Holds(t, Top(t))
  <1> DEFINE n == Len(held[t])
  <1>1. n \in 1..MaxDepth /\ \A u \in Threads : Len(held[u]) \in 0..MaxDepth
    BY PopFacts DEF TypeOK
  <1>2. /\ Len(held'[t]) = n - 1
        /\ \A i \in 1..(n - 1) : held'[t][i] = held[t][i]
        /\ \A u \in Threads \ {t} : held'[u] = held[u]
    BY PopFacts
  <1>3. Cardinality(ReadHolds') = Cardinality(ReadHolds) - (IF Top(t) = "R" THEN 1 ELSE 0)
    <2>2. ASSUME NEW p \in Threads \X (1..MaxDepth)
          PROVE  p \in ReadHolds' <=> p \in ReadHolds /\ p # <<t, n>>
      <3> DEFINE u == p[1]
                 i == p[2]
      <3>1. u \in Threads /\ i \in 1..MaxDepth /\ p = <<u, i>>
        OBVIOUS
      <3>2. p \in ReadHolds <=> i <= Len(held[u]) /\ held[u][i] = "R"
        BY <3>1 DEF ReadHolds
      <3>3. p \in ReadHolds' <=> i <= Len(held'[u]) /\ held'[u][i] = "R"
        BY <3>1 DEF ReadHolds
      <3>4. CASE u # t
        <4>1. p # <<t, n>>
          BY <3>4
        <4>2. held'[u] = held[u]
          BY <1>2, <3>1, <3>4
        <4>3. QED
          BY <3>2, <3>3, <4>1, <4>2
      <3>5. CASE u = t
        <4>1. p # <<t, n>> <=> i # n
          BY <3>1, <3>5
        <4>2. i <= n /\ i # n <=> i <= n - 1
          BY <1>1, <3>1
        <4>3. i <= n - 1 => held'[t][i] = held[t][i]
          BY <1>1, <1>2, <3>1
        <4>4. QED
          BY <1>2, <3>2, <3>3, <3>5, <4>1, <4>2, <4>3
      <3>6. QED
        BY <3>4, <3>5
    <2>3. ReadHolds \subseteq Threads \X (1..MaxDepth) /\ ReadHolds' \subseteq Threads \X (1..MaxDepth)
      BY DEF ReadHolds
    <2>4. ReadHolds' = ReadHolds \ {<<t, n>>}
      BY <2>2, <2>3
    <2>5. <<t, n>> \in ReadHolds <=> Top(t) = "R"
      BY <1>1 DEF ReadHolds, Top
    <2>6. /\ Cardinality(ReadHolds) \in Nat
          /\ Cardinality(ReadHolds \ {<<t, n>>}) =
               IF <<t, n>> \in ReadHolds THEN Cardinality(ReadHolds) - 1 ELSE Cardinality(ReadHolds)
      BY HoldsFinite, FS_RemoveElement, FS_CardinalityType
    <2>7. QED
      BY <2>4, <2>5, <2>6
  <1>4. Cardinality(WriteHolds(t)') = Cardinality(WriteHolds(t)) - (IF Top(t) = "W" THEN 1 ELSE 0)
    <2>1. WriteHolds(t)' = WriteHolds(t) \ {n}
      BY <1>1, <1>2 DEF WriteHolds
    <2>2. n \in WriteHolds(t) <=> Top(t) = "W"
      BY <1>1 DEF WriteHolds, Top
    <2>3. /\ Cardinality(WriteHolds(t)) \in Nat
          /\ Cardinality(WriteHolds(t) \ {n}) =
               IF n \in WriteHolds(t) THEN Cardinality(WriteHolds(t)) - 1 ELSE Cardinality(WriteHolds(t))
      BY HoldsFinite, FS_RemoveElement, FS_CardinalityType
    <2>4. QED
      BY <2>1, <2>2, <2>3
  <1>5. \A u \in Threads \ {t} : WriteHolds(u)' = WriteHolds(u)
    BY <1>2 DEF WriteHolds
  <1>6. \A u \in Threads \ {t}, k \in Guard : Holds(u, k)' <=> Holds(u, k)
    BY <1>2 DEF Holds
  <1>7. /\ \A k \in Guard : Holds(t, k)' => Holds(t, k)
        /\ \A k \in Guard : Holds(t, k) /\ k # Top(t) => Holds(t, k)'
        /\ Holds(t, Top(t))
    <2>1. \A k : Holds(t, k)' <=> \E i \in 1..(n - 1) : held'[t][i] = k
      BY <1>2 DEF Holds
    <2>2. n \in 1..n /\ \A i \in 1..n : i = n \/ i \in 1..(n - 1)
      BY <1>1
    <2>3. \A i \in 1..(n - 1) : i \in 1..n /\ held'[t][i] = held[t][i]
      BY <1>1, <1>2
    <2>4. QED
      BY <2>1, <2>2, <2>3 DEF Holds, Top
  <1>8. QED
    BY <1>3, <1>4, <1>5, <1>6, <1>7

-----------------------------------------------------------------------------
\* While no guard appears or disappears, nobody's holdings change.
LEMMA SameHeld ==
  ASSUME UNCHANGED held
  PROVE  /\ ReadHolds' = ReadHolds
         /\ \A t \in Threads : WriteHolds(t)' = WriteHolds(t) /\ Top(t)' = Top(t)
         /\ \A t \in Threads, g \in Guard : Holds(t, g)' <=> Holds(t, g)
  BY DEF ReadHolds, WriteHolds, Holds, Top

\* The invariant holds initially.
LEMMA InitLockInv == Init => LockInv
  <1> SUFFICES ASSUME Init PROVE LockInv
    OBVIOUS
  <1>1. TypeOK
    BY SpanFacts DEF Init, TypeOK, Flag, Empty, Pc, Spin, Guard, Running
  <1>2. \A t \in Threads, g \in Guard : ~ Holds(t, g)
    BY DEF Init, Holds
  <1>3. OwnerInv
    BY <1>2 DEF Init, OwnerInv, Empty, Guard, Spin
  <1>4. CountInv
    BY <1>1, <1>2, ZeroMeansNone DEF Init, CountInv, Empty, Guard
  <1>5. OnlyUpgradesCrash
    BY DEF Init, OnlyUpgradesCrash, Running
  <1>6. QED
    BY <1>1, <1>3, <1>4, <1>5 DEF LockInv

\* Steps that move one thread's program counter and nothing the counters mean:
\* entering an operation, reloading the read count, failing a compare-exchange.
LEMMA PcStep ==
  ASSUME LockInv, NEW t \in Threads, NEW l \in {"winc", "wspin", "wdec", "radd", "rload", "rcas"},
         Goto(t, l), pc[t] \in {"idle"} \union Spin, crash = Running,
         UNCHANGED <<flag, writeCount, held, crash>>,
         expected' \in [Threads -> 0..(ReadSpan - 1)],
         l \in {"winc", "radd"} => flag.owner = t,
         l # "wdec" => Len(held[t]) < MaxDepth,
         l = "wdec" => held[t] # <<>> /\ Top(t) = "W" /\ flag.readers = 0
  PROVE  LockInv'
  <1>1. TypeOK'
    BY DEF LockInv, TypeOK, Goto, Pc, Spin
  <1>2. /\ ReadHolds' = ReadHolds
        /\ \A u \in Threads : WriteHolds(u)' = WriteHolds(u) /\ Top(u)' = Top(u)
        /\ \A u \in Threads, g \in Guard : Holds(u, g)' <=> Holds(u, g)
    BY SameHeld
  <1>3. pc \in [Threads -> Pc] /\ pc' = [pc EXCEPT ![t] = l]
    BY DEF LockInv, TypeOK, Goto
  <1>4. l = "wdec" => Holds(t, "W")
    <2>1. held[t] \in Seq(Guard)
      BY DEF LockInv, TypeOK
    <2>2. held[t] # <<>> => Len(held[t]) \in 1..Len(held[t])
      BY <2>1
    <2>3. QED
      BY <2>2 DEF Holds, Top
  <1>5. OwnerInv'
    <2>1. flag.owner' \in Threads \union {0}
      BY DEF LockInv, OwnerInv
    <2>2. ASSUME NEW u \in Threads
          PROVE  /\ (Holds(u, "W") \/ pc[u] \in {"winc", "wdec", "wstore", "radd"} => flag.owner = u)'
                 /\ (flag.owner = u => Holds(u, "W") \/ pc[u] \in {"winc", "wstore"})'
                 /\ (pc[u] = "winc" /\ Holds(u, "R") => Holds(u, "W"))'
                 /\ (pc[u] = "wdec" => held[u] # <<>> /\ Top(u) = "W")'
                 /\ (pc[u] = "radd" => Holds(u, "W"))'
                 /\ (pc[u] = "wstore" => ~ Holds(u, "W"))'
                 /\ (pc[u] \in {"winc", "radd"} \union Spin => Len(held[u]) < MaxDepth)'
      <3>1. /\ flag' = flag /\ held' = held /\ Top(u)' = Top(u)
            /\ Holds(u, "R")' <=> Holds(u, "R")
            /\ Holds(u, "W")' <=> Holds(u, "W")
        BY <1>2 DEF Guard
      <3>2. CASE u # t
        BY <1>3, <3>1, <3>2 DEF LockInv, OwnerInv
      <3>3. CASE u = t
        <4>1. pc'[u] = l /\ pc[u] \in {"idle", "wspin", "rload", "rcas"}
          BY <1>3, <3>3 DEF Spin
        <4>2. (flag.owner = u <=> Holds(u, "W")) /\ (l = "wdec" => Holds(u, "W"))
          BY <1>4, <3>3, <4>1 DEF LockInv, OwnerInv
        <4>3. QED
          BY <3>1, <3>3, <4>1, <4>2 DEF Spin
      <3>4. QED
        BY <3>2, <3>3
    <2>3. QED
      BY <2>1, <2>2 DEF OwnerInv
  <1>6. CountInv'
    BY <1>2, <1>3 DEF LockInv, CountInv, Spin, Guard
  <1>7. OnlyUpgradesCrash'
    BY DEF LockInv, OnlyUpgradesCrash, Running
  <1>8. QED
    BY <1>1, <1>5, <1>6, <1>7 DEF LockInv

\* A crash changes nothing but crash.
LEMMA AbortStep ==
  ASSUME LockInv, NEW t \in Threads, NEW why \in {"LOCK_TIMEOUT", "INVALID_UNLOCK_ORDER"},
         Abort(t, why), UNCHANGED <<flag, writeCount, pc, expected, held>>,
         why = "INVALID_UNLOCK_ORDER" =>
           held[t] # <<>> /\ Top(t) = "W" /\ pc[t] = "idle" /\ flag.readers # 0
  PROVE  LockInv'
  <1>1. TypeOK'
    BY DEF LockInv, TypeOK, Abort
  <1>2. OwnerInv'
    BY SameHeld DEF LockInv, OwnerInv, Guard
  <1>3. CountInv'
    BY SameHeld DEF LockInv, CountInv, Guard
  <1>4. OnlyUpgradesCrash'
    <2>1. CASE why = "LOCK_TIMEOUT"
      BY <2>1 DEF Abort, OnlyUpgradesCrash
    <2>2. CASE why = "INVALID_UNLOCK_ORDER"
      <3>1. Len(held[t]) \in Nat \ {0} /\ held[t][Len(held[t])] = "W"
        BY <2>2 DEF LockInv, TypeOK, Top
      <3>2. Holds(t, "W") /\ flag.owner = t
        BY <3>1 DEF LockInv, OwnerInv, Holds
      <3>3. ~ \A u \in Threads : ~ Holds(u, "R")
        BY <2>2, ZeroMeansNone DEF LockInv, CountInv
      <3>4. Holds(t, "R")
        BY <3>2, <3>3, SpanFacts DEF LockInv, CountInv
      <3>5. PICK i \in 1..Len(held[t]) : held[t][i] = "R"
        BY <3>4 DEF Holds
      <3>6. i < Len(held[t]) /\ Len(held[t]) \in 1..Len(held[t])
        BY <3>1, <3>5
      <3>7. crash' = [why |-> "INVALID_UNLOCK_ORDER", who |-> t] /\ held' = held
        BY <2>2 DEF Abort
      <3>8. QED
        BY <3>1, <3>5, <3>6, <3>7 DEF OnlyUpgradesCrash
    <2>3. QED
      BY <2>1, <2>2
  <1>5. QED
    BY <1>1, <1>2, <1>3, <1>4 DEF LockInv

\* Taking the empty word: nobody holds anything, so the new owner is alone.
LEMMA WriteCasStep ==
  ASSUME LockInv, NEW t \in Threads, WriteCas(t), crash = Running
  PROVE  LockInv'
  <1>1. TypeOK'
    BY SpanFacts DEF LockInv, TypeOK, WriteCas, Goto, Pc, Spin, Flag
  <1>2. /\ flag = Empty /\ flag' = [owner |-> t, readers |-> 0]
        /\ pc[t] = "wspin" /\ pc' = [pc EXCEPT ![t] = "winc"] /\ pc \in [Threads -> Pc]
        /\ UNCHANGED <<writeCount, held, crash>>
    BY DEF WriteCas, Goto, LockInv, TypeOK
  <1>3. \A u \in Threads : ~ Holds(u, "R") /\ ~ Holds(u, "W")
    <2>1. \A u \in Threads : ~ Holds(u, "W")
      BY <1>2, SpanFacts DEF LockInv, OwnerInv, Empty
    <2>2. QED
      BY <1>2, <2>1, ZeroMeansNone DEF LockInv, CountInv, Empty
  <1>4. \A u \in Threads : ~ Holds(u, "R")' /\ ~ Holds(u, "W")'
    BY <1>2, <1>3, SameHeld DEF Guard
  <1>5. \A u \in Threads : pc[u] \notin {"winc", "wdec", "wstore", "radd"}
    BY <1>2, SpanFacts DEF LockInv, OwnerInv, Empty
  <1>6. OwnerInv'
    <2>1. ASSUME NEW u \in Threads, u # t
          PROVE  pc'[u] = pc[u] /\ held'[u] = held[u]
      BY <1>2, <2>1
    <2>2. pc'[t] = "winc" /\ held'[t] = held[t] /\ Len(held[t]) < MaxDepth /\ flag'.owner = t
      BY <1>2 DEF LockInv, OwnerInv, Spin
    <2>3. QED
      BY <1>4, <1>5, <2>1, <2>2 DEF OwnerInv, LockInv
  <1>7. CountInv'
    <2>1. Cardinality(ReadHolds) = 0 /\ \A u \in Threads : Cardinality(WriteHolds(u)) = 0
      BY <1>3, ZeroMeansNone DEF LockInv
    <2>2. Cardinality(ReadHolds)' = 0 /\ \A u \in Threads : Cardinality(WriteHolds(u))' = 0
      BY <1>2, <2>1, SameHeld
    <2>3. writeCount' = 0
      BY <1>2 DEF LockInv, CountInv, Empty
    <2>4. QED
      BY <1>2, <1>4, <2>2, <2>3, SpanFacts DEF CountInv
  <1>8. OnlyUpgradesCrash'
    BY <1>2 DEF OnlyUpgradesCrash, Running
  <1>9. QED
    BY <1>1, <1>6, <1>7, <1>8 DEF LockInv

\* The write guard is counted after the word was taken.
LEMMA WriteAcquiredStep ==
  ASSUME LockInv, NEW t \in Threads, WriteAcquired(t), crash = Running
  PROVE  LockInv'
  <1>1. /\ pc[t] = "winc" /\ pc' = [pc EXCEPT ![t] = "idle"] /\ pc \in [Threads -> Pc]
        /\ PushGuard(t, "W") /\ UNCHANGED <<flag, expected, crash>>
        /\ Len(held[t]) < MaxDepth /\ flag.owner = t
        /\ writeCount' = (writeCount + 1) % ReadSpan
        /\ TypeOK
    BY DEF WriteAcquired, Goto, LockInv, TypeOK, OwnerInv
  <1>2. "W" \in Guard
    BY DEF Guard
  <1>3. /\ Cardinality(ReadHolds') = Cardinality(ReadHolds)
        /\ Cardinality(WriteHolds(t)') = Cardinality(WriteHolds(t)) + 1
        /\ \A u \in Threads \ {t}, k \in Guard : Holds(u, k)' <=> Holds(u, k)
        /\ \A k \in Guard : Holds(t, k)' <=> Holds(t, k) \/ k = "W"
    <2>1. Cardinality(ReadHolds) \in Nat
      BY <1>1, HoldsFinite
    <2>2. QED
      BY <1>1, <1>2, <2>1, PushCounts
  <1>4. /\ held' \in [Threads -> Seq(Guard)]
        /\ \A u \in Threads \ {t} : held'[u] = held[u]
        /\ \A u \in Threads : Len(held'[u]) <= MaxDepth
    BY <1>1, <1>2, PushFacts
  <1>5. writeCount = Cardinality(WriteHolds(t)) /\ writeCount' = writeCount + 1
    <2>1. writeCount = Cardinality(WriteHolds(t))
      BY <1>1 DEF LockInv, CountInv
    <2>2. TypeOK' => writeCount' \in 0..(ReadSpan - 1)
      BY DEF TypeOK
    <2>3. writeCount \in 0..(MaxDepth - 1)
      <3>1. \E i \in 1..MaxDepth : i \notin WriteHolds(t)
        BY <1>1 DEF WriteHolds, TypeOK
      <3>2. WriteHolds(t) \in SUBSET (1..MaxDepth) /\ WriteHolds(t) # 1..MaxDepth
        BY <3>1 DEF WriteHolds
      <3>3. IsFiniteSet(1..MaxDepth) /\ Cardinality(1..MaxDepth) = MaxDepth
        BY FS_Interval
      <3>4. Cardinality(WriteHolds(t)) <= MaxDepth /\ Cardinality(WriteHolds(t)) # MaxDepth
        BY <3>2, <3>3, FS_Subset
      <3>5. QED
        BY <1>1, <2>1, <3>4, HoldsFinite
    <2>4. MaxDepth < ReadSpan
      <3>1. Cardinality(Threads) # 0
        BY SpanFacts, FS_EmptySet
      <3>2. Cardinality(Threads) * MaxDepth >= MaxDepth
        BY <3>1, SpanFacts
      <3>3. QED
        BY <3>2, SpanFacts
    <2>5. writeCount + 1 \in Nat /\ writeCount + 1 < ReadSpan
      BY <2>3, <2>4, SpanFacts
    <2>6. QED
      BY <1>1, <2>1, <2>5, NoWrap
  <1>6. TypeOK'
    <2>1. pc' \in [Threads -> Pc]
      BY <1>1 DEF Pc
    <2>2. writeCount' \in 0..(ReadSpan - 1)
      BY <1>1, SpanFacts DEF TypeOK
    <2>3. QED
      BY <1>1, <1>4, <2>1, <2>2 DEF TypeOK
  <1>7. OwnerInv'
    <2>1. flag'.owner \in Threads \union {0} /\ flag' = flag
      BY <1>1 DEF LockInv, OwnerInv
    <2>2. Holds(t, "W")' /\ pc'[t] = "idle"
      BY <1>1, <1>2, <1>3
    <2>3. ASSUME NEW u \in Threads, u # t
          PROVE  /\ pc'[u] = pc[u] /\ held'[u] = held[u] /\ Top(u)' = Top(u)
                 /\ Holds(u, "R")' <=> Holds(u, "R")
                 /\ Holds(u, "W")' <=> Holds(u, "W")
      BY <1>1, <1>3, <1>4, <2>3 DEF Guard, Top
    <2>4. QED
      BY <1>1, <2>1, <2>2, <2>3 DEF LockInv, OwnerInv, Spin
  <1>8. CountInv'
    <2>1. \A u \in Threads \ {t} : Holds(u, "R")' <=> Holds(u, "R")
      BY <1>3 DEF Guard
    <2>2. flag' = flag /\ flag.owner = t /\ flag'.owner = t /\ t # 0
      BY <1>1, SpanFacts
    <2>3. flag.readers' = Cardinality(ReadHolds)'
      BY <1>3, <2>2 DEF LockInv, CountInv
    <2>4. \A u \in Threads : pc'[u] \in {"wdec", "wstore"} => flag.readers = 0
      BY <1>1 DEF LockInv, CountInv
    <2>5. QED
      BY <1>3, <1>5, <2>1, <2>2, <2>3, <2>4 DEF LockInv, CountInv
  <1>9. OnlyUpgradesCrash'
    BY <1>1 DEF OnlyUpgradesCrash, Running
  <1>10. QED
    BY <1>6, <1>7, <1>8, <1>9 DEF LockInv

\* Counting a write guard down; at zero no write guard of the owner is left.
LEMMA WriteDecStep ==
  ASSUME LockInv, NEW t \in Threads, WriteDec(t), crash = Running
  PROVE  LockInv'
  <1>1. /\ pc[t] = "wdec" /\ pc \in [Threads -> Pc]
        /\ pc' = [pc EXCEPT ![t] = IF writeCount' = 0 THEN "wstore" ELSE "idle"]
        /\ PopGuard(t) /\ UNCHANGED <<flag, expected, crash>>
        /\ held[t] # <<>> /\ Top(t) = "W" /\ flag.owner = t /\ flag.readers = 0
        /\ writeCount' = (writeCount + ReadSpan - 1) % ReadSpan
        /\ TypeOK
    BY DEF WriteDec, Goto, LockInv, TypeOK, OwnerInv, CountInv
  <1>2. /\ Cardinality(ReadHolds') = Cardinality(ReadHolds)
        /\ Cardinality(WriteHolds(t)') = Cardinality(WriteHolds(t)) - 1
        /\ \A u \in Threads \ {t}, k \in Guard : Holds(u, k)' <=> Holds(u, k)
        /\ \A k \in Guard : Holds(t, k)' => Holds(t, k)
        /\ Holds(t, "W")
    <2>1. Cardinality(ReadHolds) \in Nat
      BY <1>1, HoldsFinite
    <2>2. QED
      BY <1>1, <2>1, PopCounts
  <1>3. /\ held' \in [Threads -> Seq(Guard)]
        /\ \A u \in Threads \ {t} : held'[u] = held[u]
        /\ \A u \in Threads : Len(held'[u]) <= MaxDepth
    BY <1>1, PopFacts
  <1>4. /\ writeCount = Cardinality(WriteHolds(t))
        /\ writeCount' = writeCount - 1 /\ writeCount' \in 0..(ReadSpan - 1)
    <2>1. writeCount = Cardinality(WriteHolds(t))
      BY <1>1 DEF LockInv, CountInv
    <2>2. writeCount # 0
      BY <1>1, <1>2, <2>1, ZeroMeansNone
    <2>3. writeCount \in Nat /\ writeCount \in 1..(ReadSpan - 1) /\ writeCount \in 1..ReadSpan
      BY <1>1, <2>2, SpanFacts DEF TypeOK
    <2>4. (writeCount + ReadSpan - 1) % ReadSpan = writeCount - 1
      <3>1. \A n \in Nat : n \in 1..ReadSpan => (n + ReadSpan - 1) % ReadSpan = n - 1
        BY NoWrap
      <3>2. QED
        BY <2>3, <3>1
    <2>5. QED
      BY <1>1, <2>1, <2>3, <2>4, SpanFacts
  <1>5. TypeOK'
    <2>1. pc' \in [Threads -> Pc]
      BY <1>1 DEF Pc
    <2>2. QED
      BY <1>1, <1>3, <1>4, <2>1 DEF TypeOK
  <1>6. writeCount' = 0 <=> ~ Holds(t, "W")'
    <2>1. (Cardinality(WriteHolds(t)) = 0)' <=> ~ Holds(t, "W")'
      BY <1>5, CountsAfterStep
    <2>2. QED
      BY <1>2, <1>4, <2>1
  <1>7. OwnerInv'
    <2>1. flag'.owner \in Threads \union {0} /\ flag' = flag
      BY <1>1 DEF LockInv, OwnerInv
    <2>2. /\ writeCount' = 0 => pc'[t] = "wstore"
          /\ writeCount' # 0 => pc'[t] = "idle"
      BY <1>1
    <2>3. ASSUME NEW u \in Threads, u # t
          PROVE  /\ pc'[u] = pc[u] /\ held'[u] = held[u] /\ Top(u)' = Top(u)
                 /\ Holds(u, "R")' <=> Holds(u, "R")
                 /\ Holds(u, "W")' <=> Holds(u, "W")
      BY <1>1, <1>2, <1>3, <2>3 DEF Guard, Top
    <2>4. QED
      BY <1>1, <1>6, <2>1, <2>2, <2>3 DEF LockInv, OwnerInv, Spin
  <1>8. CountInv'
    <2>1. flag' = flag /\ flag.owner = t /\ flag'.owner = t /\ t # 0 /\ flag'.readers = 0
      BY <1>1, SpanFacts
    <2>2. \A u \in Threads \ {t} : Holds(u, "R")' <=> Holds(u, "R")
      BY <1>2 DEF Guard
    <2>3. flag.readers' = Cardinality(ReadHolds)'
      BY <1>2, <2>1 DEF LockInv, CountInv
    <2>4. QED
      BY <1>2, <1>4, <2>1, <2>2, <2>3 DEF LockInv, CountInv
  <1>9. OnlyUpgradesCrash'
    BY <1>1 DEF OnlyUpgradesCrash, Running
  <1>10. QED
    BY <1>5, <1>7, <1>8, <1>9 DEF LockInv

\* The word becomes empty when the owner has neither write nor read guards.
LEMMA WriteStoreStep ==
  ASSUME LockInv, NEW t \in Threads, WriteStore(t), crash = Running
  PROVE  LockInv'
  <1>1. /\ pc[t] = "wstore" /\ pc' = [pc EXCEPT ![t] = "idle"] /\ pc \in [Threads -> Pc]
        /\ flag' = Empty /\ flag.owner = t /\ flag.readers = 0 /\ t # 0
        /\ UNCHANGED <<writeCount, expected, held, crash>>
        /\ ~ Holds(t, "W")
    BY SpanFacts DEF WriteStore, Goto, LockInv, TypeOK, OwnerInv, CountInv
  <1>2. \A u \in Threads : ~ Holds(u, "R") /\ ~ Holds(u, "W")
    <2>1. \A u \in Threads : ~ Holds(u, "R")
      BY <1>1, ZeroMeansNone DEF LockInv, CountInv
    <2>2. QED
      BY <1>1, <2>1 DEF LockInv, OwnerInv
  <1>3. \A u \in Threads : ~ Holds(u, "R")' /\ ~ Holds(u, "W")'
    BY <1>1, <1>2, SameHeld DEF Guard
  <1>4. \A u \in Threads : pc'[u] \notin {"winc", "wdec", "wstore", "radd"}
    BY <1>1 DEF LockInv, OwnerInv
  <1>5. TypeOK'
    BY <1>1, SpanFacts DEF LockInv, TypeOK, Flag, Empty, Pc
  <1>6. OwnerInv'
    <2>1. flag'.owner = 0 /\ held' = held /\ \A u \in Threads : u # 0
      BY <1>1, SpanFacts DEF Empty
    <2>2. \A u \in Threads : pc'[u] \in Spin => pc[u] \in Spin
      BY <1>1 DEF Spin
    <2>3. QED
      BY <1>3, <1>4, <2>1, <2>2 DEF LockInv, OwnerInv
  <1>7. CountInv'
    <2>1. writeCount = 0
      <3>1. writeCount = Cardinality(WriteHolds(t))
        BY <1>1 DEF LockInv, CountInv
      <3>2. Cardinality(WriteHolds(t)) = 0
        BY <1>1, ZeroMeansNone DEF LockInv
      <3>3. QED
        BY <3>1, <3>2
    <2>2. Cardinality(ReadHolds)' = 0
      BY <1>1, <1>2, ZeroMeansNone, SameHeld DEF LockInv
    <2>3. QED
      BY <1>1, <1>3, <1>4, <2>1, <2>2, SpanFacts DEF CountInv, Empty
  <1>8. OnlyUpgradesCrash'
    BY <1>1 DEF OnlyUpgradesCrash, Running
  <1>9. QED
    BY <1>5, <1>6, <1>7, <1>8 DEF LockInv

\* A read guard of a thread that may read: the owner, or anybody when the word
\* has no owner.  The lower half cannot carry.
LEMMA ReadPushStep ==
  ASSUME LockInv, NEW t \in Threads, crash = Running, PushGuard(t, "R"), Goto(t, "idle"),
         Len(held[t]) < MaxDepth, flag' = PlusOne(flag),
         UNCHANGED <<writeCount, crash>>, expected' \in [Threads -> 0..(ReadSpan - 1)],
         \/ pc[t] = "radd"
         \/ pc[t] = "rcas" /\ flag.owner = 0
  PROVE  LockInv'
  <1>1. /\ pc' = [pc EXCEPT ![t] = "idle"] /\ pc \in [Threads -> Pc]
        /\ flag.owner \in {0, t} /\ flag \in Flag /\ "R" \in Guard
        /\ pc[t] = "radd" => flag.owner = t /\ Holds(t, "W")
        /\ TypeOK
    BY DEF Goto, LockInv, TypeOK, OwnerInv, Guard
  <1>2. /\ Cardinality(ReadHolds') = Cardinality(ReadHolds) + 1
        /\ Cardinality(WriteHolds(t)') = Cardinality(WriteHolds(t))
        /\ \A u \in Threads \ {t}, k \in Guard : Holds(u, k)' <=> Holds(u, k)
        /\ \A k \in Guard : Holds(t, k)' <=> Holds(t, k) \/ k = "R"
    <2>1. Cardinality(WriteHolds(t)) \in Nat
      BY <1>1, HoldsFinite
    <2>2. QED
      BY <1>1, <2>1, PushCounts
  <1>3. /\ held' \in [Threads -> Seq(Guard)]
        /\ \A u \in Threads \ {t} : held'[u] = held[u]
        /\ \A u \in Threads : Len(held'[u]) <= MaxDepth
    BY <1>1, PushFacts
  <1>4. /\ flag' = [flag EXCEPT !.readers = @ + 1] /\ flag'.owner = flag.owner
        /\ flag' \in Flag
    <2>1. flag.readers + 1 < ReadSpan
      BY <1>2, CountsAfterStep, SpanFacts DEF LockInv, CountInv
    <2>2. flag.readers + 1 \in 0..(ReadSpan - 1)
      BY <1>1, <2>1, SpanFacts DEF Flag
    <2>3. QED
      BY <1>1, <2>1, <2>2 DEF PlusOne, Flag
  <1>5. TypeOK'
    <2>1. pc' \in [Threads -> Pc]
      BY <1>1 DEF Pc
    <2>2. QED
      BY <1>1, <1>3, <1>4, <2>1 DEF TypeOK
  <1>6. OwnerInv'
    <2>1. flag'.owner \in Threads \union {0} /\ flag'.owner = flag.owner
      BY <1>4 DEF LockInv, OwnerInv
    <2>2. ASSUME NEW u \in Threads, u # t
          PROVE  /\ pc'[u] = pc[u] /\ held'[u] = held[u] /\ Top(u)' = Top(u)
                 /\ Holds(u, "R")' <=> Holds(u, "R")
                 /\ Holds(u, "W")' <=> Holds(u, "W")
      BY <1>1, <1>2, <1>3, <2>2 DEF Guard, Top
    <2>3. pc'[t] = "idle" /\ (Holds(t, "W")' <=> Holds(t, "W"))
      BY <1>1, <1>2 DEF Guard
    <2>4. flag.owner = t <=> Holds(t, "W")
      BY <1>1, SpanFacts DEF LockInv, OwnerInv
    <2>5. QED
      BY <2>1, <2>2, <2>3, <2>4 DEF LockInv, OwnerInv, Spin
  <1>7. CountInv'
    <2>1. flag.readers' = Cardinality(ReadHolds)'
      BY <1>1, <1>2, <1>4 DEF LockInv, CountInv, Flag
    <2>2. \A u \in Threads \ {t} : WriteHolds(u)' = WriteHolds(u) /\ (Holds(u, "R")' <=> Holds(u, "R"))
      BY <1>1, <1>2, PushCounts DEF Guard
    <2>3. flag.owner = 0 \/ flag.owner = t
      BY <1>1
    <2>4. \A u \in Threads : pc'[u] \notin {"wdec", "wstore"}
      BY <1>1, SpanFacts DEF LockInv, OwnerInv
    <2>5. QED
      BY <1>2, <1>4, <2>1, <2>2, <2>3, <2>4, SpanFacts DEF LockInv, CountInv
  <1>8. OnlyUpgradesCrash'
    BY DEF OnlyUpgradesCrash, Running
  <1>9. QED
    BY <1>5, <1>6, <1>7, <1>8 DEF LockInv

\* A read guard that is destroyed was counted.
LEMMA ReadUnlockStep ==
  ASSUME LockInv, NEW t \in Threads, ReadUnlock(t), crash = Running
  PROVE  LockInv'
  <1>1. /\ pc[t] = "idle" /\ held[t] # <<>> /\ Top(t) = "R" /\ flag \in Flag
        /\ flag' = MinusOne(flag) /\ UNCHANGED <<writeCount, pc, expected>>
        /\ TypeOK
    BY DEF ReadUnlock, LockInv, TypeOK
  <1>2. Holds(t, "R")
    <2>1. Len(held[t]) \in Nat \ {0}
      BY <1>1 DEF TypeOK
    <2>2. QED
      BY <1>1, <2>1 DEF Holds, Top
  <1>3. flag.readers # 0
    BY <1>2, ZeroMeansNone DEF LockInv, CountInv
  <1>4. /\ PopGuard(t) /\ crash' = crash
        /\ flag' = [flag EXCEPT !.readers = @ - 1] /\ flag' \in Flag /\ flag'.owner = flag.owner
        /\ flag'.readers = flag.readers - 1
    BY <1>1, <1>3 DEF ReadUnlock, MinusOne, Flag
  <1>5. /\ Cardinality(ReadHolds') = Cardinality(ReadHolds) - 1
        /\ Cardinality(WriteHolds(t)') = Cardinality(WriteHolds(t))
        /\ \A u \in Threads \ {t}, k \in Guard : Holds(u, k)' <=> Holds(u, k)
        /\ \A k \in Guard : Holds(t, k)' => Holds(t, k)
        /\ Holds(t, "W") => Holds(t, "W")'
    <2>1. Cardinality(WriteHolds(t)) \in Nat
      BY <1>1, HoldsFinite
    <2>2. QED
      BY <1>1, <1>4, <2>1, PopCounts DEF Guard
  <1>6. /\ held' \in [Threads -> Seq(Guard)]
        /\ Len(held'[t]) = Len(held[t]) - 1 /\ Len(held[t]) \in 1..MaxDepth
        /\ \A u \in Threads \ {t} : held'[u] = held[u]
        /\ \A u \in Threads : Len(held'[u]) <= MaxDepth
    BY <1>1, <1>4, PopFacts
  <1>7. TypeOK'
    BY <1>1, <1>4, <1>6 DEF TypeOK
  <1>8. OwnerInv'
    <2>1. ASSUME NEW u \in Threads, u # t
          PROVE  /\ held'[u] = held[u] /\ Top(u)' = Top(u)
                 /\ Holds(u, "R")' <=> Holds(u, "R")
                 /\ Holds(u, "W")' <=> Holds(u, "W")
      BY <1>5, <1>6, <2>1 DEF Guard, Top
    <2>2. pc' = pc /\ pc[t] = "idle" /\ (Holds(t, "W")' <=> Holds(t, "W"))
      BY <1>1, <1>5 DEF Guard
    <2>3. QED
      BY <1>4, <2>1, <2>2 DEF LockInv, OwnerInv, Spin
  <1>9. CountInv'
    <2>1. \A u \in Threads \ {t} : WriteHolds(u)' = WriteHolds(u) /\ (Holds(u, "R")' <=> Holds(u, "R"))
      BY <1>1, <1>4, <1>5, PopCounts DEF Guard
    <2>2. flag'.readers = Cardinality(ReadHolds')
      BY <1>4, <1>5 DEF LockInv, CountInv
    <2>3. Holds(t, "R")' => Holds(t, "R")
      BY <1>5 DEF Guard
    <2>4. \A u \in Threads : pc'[u] \notin {"wdec", "wstore"}
      BY <1>1, <1>3 DEF LockInv, CountInv
    <2>5. QED
      BY <1>1, <1>4, <1>5, <2>1, <2>2, <2>3, <2>4 DEF LockInv, CountInv
  <1>10. OnlyUpgradesCrash'
    BY <1>4 DEF OnlyUpgradesCrash, Running
  <1>11. QED
    BY <1>7, <1>8, <1>9, <1>10 DEF LockInv

-----------------------------------------------------------------------------
\* Every step of the lock preserves the invariant: one case per action.
LEMMA NextLockInv == LockInv /\ [Next]_vars => LockInv'
  <1> SUFFICES ASSUME LockInv, [Next]_vars PROVE LockInv'
    OBVIOUS
  <1>1. CASE UNCHANGED vars
    <2>1. TypeOK'
      BY <1>1 DEF LockInv, TypeOK, vars
    <2>2. OwnerInv'
      BY <1>1, SameHeld DEF LockInv, OwnerInv, vars, Guard
    <2>3. CountInv'
      BY <1>1, SameHeld DEF LockInv, CountInv, vars, Guard
    <2>4. OnlyUpgradesCrash'
      BY <1>1 DEF LockInv, OnlyUpgradesCrash, vars
    <2>5. QED
      BY <2>1, <2>2, <2>3, <2>4 DEF LockInv
  <1>2. ASSUME NEW t \in Threads, crash = Running, Step(t)
        PROVE  LockInv'
    <2> USE <1>2
    <2>1. CASE WriteLock(t)
      BY <2>1, PcStep DEF WriteLock, Spin, LockInv, TypeOK
    <2>2. CASE WriteCas(t)
      BY <2>2, WriteCasStep
    <2>3. CASE WriteAcquired(t)
      BY <2>3, WriteAcquiredStep
    <2>4. CASE WriteUnlock(t)
      <3>1. CASE flag.readers # 0
        BY <2>4, <3>1, AbortStep DEF WriteUnlock
      <3>2. CASE flag.readers = 0
        BY <2>4, <3>2, PcStep DEF WriteUnlock, LockInv, TypeOK
      <3>3. QED
        BY <3>1, <3>2
    <2>5. CASE WriteDec(t)
      BY <2>5, WriteDecStep
    <2>6. CASE WriteStore(t)
      BY <2>6, WriteStoreStep
    <2>7. CASE ReadLock(t)
      BY <2>7, PcStep DEF ReadLock, Spin, LockInv, TypeOK
    <2>8. CASE ReadAdd(t)
      BY <2>8, ReadPushStep DEF ReadAdd, LockInv, TypeOK, OwnerInv
    <2>9. CASE ReadLoad(t)
      <3>1. expected' \in [Threads -> 0..(ReadSpan - 1)]
        BY <2>9 DEF ReadLoad, LockInv, TypeOK, Flag
      <3>2. Len(held[t]) < MaxDepth
        BY <2>9 DEF ReadLoad, LockInv, OwnerInv, Spin
      <3>3. QED
        BY <2>9, <3>1, <3>2, PcStep DEF ReadLoad, Spin
    <2>10. CASE ReadCas(t)
      <3>1. expected' \in [Threads -> 0..(ReadSpan - 1)]
        BY <2>10, SpanFacts DEF ReadCas, LockInv, TypeOK
      <3>2. Len(held[t]) < MaxDepth /\ pc[t] = "rcas"
        BY <2>10 DEF ReadCas, LockInv, OwnerInv, Spin
      <3>3. CASE flag = [owner |-> 0, readers |-> expected[t]]
        BY <2>10, <3>1, <3>2, <3>3, ReadPushStep DEF ReadCas
      <3>4. CASE flag # [owner |-> 0, readers |-> expected[t]]
        BY <2>10, <3>1, <3>2, <3>4, PcStep DEF ReadCas, Spin
      <3>5. QED
        BY <3>3, <3>4
    <2>11. CASE ReadUnlock(t)
      BY <2>11, ReadUnlockStep
    <2>12. CASE LockTimeout(t)
      BY <2>12, AbortStep DEF LockTimeout
    <2>13. QED
      BY <1>2, <2>1, <2>2, <2>3, <2>4, <2>5, <2>6, <2>7, <2>8, <2>9, <2>10,
         <2>11, <2>12 DEF Step, Inside
  <1>3. QED
    BY <1>1, <1>2 DEF Next

\* Lock.cpp: at every point inside the four operations _lockFlag and _writeCount
\* say who writes, how often, and how many guards read.
THEOREM LockInvariant == Spec => []LockInv
  BY InitLockInv, NextLockInv, PTL DEF Spec

\* What the invariant gives a thread that has or is about to have a write guard.
LEMMA WriterAlone ==
  ASSUME LockInv, NEW t \in Threads, flag.owner = t, NEW u \in Threads, u # t
  PROVE  held[u] = <<>>
  <1>1. ~ Holds(u, "W") /\ ~ Holds(u, "R")
    BY SpanFacts DEF LockInv, OwnerInv, CountInv
  <1>2. held[u] \in Seq(Guard)
    BY DEF LockInv, TypeOK
  <1>3. \A i \in 1..Len(held[u]) : FALSE
    BY <1>1, <1>2 DEF Holds, Guard
  <1>4. Len(held[u]) = 0
    BY <1>2, <1>3
  <1>5. QED
    BY <1>2, <1>4

\* A write guard excludes every guard of every other thread.
THEOREM LockMutualExclusion == Spec => []MutualExclusion
  <1>1. LockInv => MutualExclusion
    BY WriterAlone DEF MutualExclusion, LockInv, OwnerInv
  <1>2. QED
    BY <1>1, LockInvariant, PTL

\* The plain integer _writeCount is only touched by the owner of the word.
THEOREM LockWriteCountRaceFree == Spec => []WriteCountRaceFree
  <1>1. LockInv => WriteCountRaceFree
    BY DEF WriteCountRaceFree, TouchesCount, LockInv, OwnerInv
  <1>2. QED
    BY <1>1, LockInvariant, PTL

\* The lock's own CRASH checks fire only for a write guard inside a read guard.
THEOREM LockOnlyUpgradesCrash == Spec => []OnlyUpgradesCrash
  <1>1. LockInv => OnlyUpgradesCrash
    BY DEF LockInv
  <1>2. QED
    BY <1>1, LockInvariant, PTL

\* With every guard gone the word is empty again.
THEOREM LockFreeWhenQuiescent == Spec => []FreeWhenQuiescent
  <1>1. ASSUME LockInv, Quiescent PROVE flag = Empty /\ writeCount = 0
    <2>1. \A t \in Threads, g \in Guard : ~ Holds(t, g)
      BY <1>1 DEF Quiescent, Holds
    <2>2. flag.readers = 0
      BY <1>1, <2>1, ZeroMeansNone DEF LockInv, CountInv, Guard
    <2>3. flag.owner = 0
      BY <1>1, <2>1 DEF LockInv, OwnerInv, Quiescent, Guard, Spin
    <2>4. flag \in Flag
      BY <1>1 DEF LockInv, TypeOK
    <2>5. flag = Empty
      BY <2>2, <2>3, <2>4 DEF Flag, Empty
    <2>6. QED
      BY <1>1, <2>3, <2>5 DEF LockInv, CountInv
  <1>2. LockInv => FreeWhenQuiescent
    BY <1>1 DEF FreeWhenQuiescent
  <1>3. QED
    BY <1>2, LockInvariant, PTL

\* Lock.cpp implements the abstract reader/writer lock: each step of the four
\* operations is an acquisition it allows, a release, or invisible.
THEOREM LockRefinesRWLock == Spec => RefinesRWLock
  <1>1. Init => Abstract!Init
    BY DEF Init, Abstract!Init
  <1>2. LockInv /\ [Next]_vars => [Abstract!Next]_held
    <2> SUFFICES ASSUME LockInv, [Next]_vars, held' # held PROVE Abstract!Next
      OBVIOUS
    <2>1. PICK t \in Threads : crash = Running /\ Step(t)
      BY DEF Next, vars
    <2>2. /\ Holds(t, "R") <=> Abstract!Holds(t, "R")
          /\ \A u \in Threads : Holds(u, "W") <=> Abstract!Holds(u, "W")
      BY DEF Holds, Abstract!Holds
    <2>3. CASE WriteAcquired(t)
      <3>1. /\ flag.owner = t /\ Len(held[t]) < MaxDepth /\ (Holds(t, "R") => Holds(t, "W"))
            /\ held' = [held EXCEPT ![t] = Append(held[t], "W")]
        BY <2>3 DEF WriteAcquired, PushGuard, LockInv, OwnerInv
      <3>2. \A u \in Threads \ {t} : held[u] = <<>>
        BY <3>1, WriterAlone
      <3>3. Abstract!AcquireWrite(t)
        BY <2>2, <3>1, <3>2 DEF Abstract!AcquireWrite
      <3>4. QED
        BY <3>3 DEF Abstract!Next
    <2>4. CASE ReadAdd(t) \/ ReadCas(t)
      <3>1. /\ Len(held[t]) < MaxDepth /\ held' = [held EXCEPT ![t] = Append(held[t], "R")]
            /\ flag.owner \in {0, t}
        BY <2>4 DEF ReadAdd, ReadCas, PushGuard, LockInv, OwnerInv, Spin
      <3>2. \A u \in Threads \ {t} : ~ Holds(u, "W")
        BY <3>1, SpanFacts DEF LockInv, OwnerInv
      <3>3. Abstract!AcquireRead(t)
        BY <2>2, <3>1, <3>2 DEF Abstract!AcquireRead
      <3>4. QED
        BY <3>3 DEF Abstract!Next
    <2>5. CASE WriteDec(t) \/ ReadUnlock(t)
      <3>1. held[t] # <<>> /\ PopGuard(t)
        BY <2>5 DEF WriteDec, ReadUnlock, LockInv, OwnerInv
      <3>2. Abstract!Release(t)
        BY <3>1 DEF Abstract!Release, PopGuard
      <3>3. QED
        BY <3>2 DEF Abstract!Next
    <2>6. QED
      BY <2>1, <2>3, <2>4, <2>5 DEF Step, Inside, WriteLock, WriteCas, WriteUnlock,
         WriteStore, ReadLock, ReadLoad, LockTimeout
  <1>3. QED
    BY <1>1, <1>2, LockInvariant, PTL DEF Spec, RefinesRWLock, Abstract!Spec
=============================================================================
