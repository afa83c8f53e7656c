------------------------ MODULE PoolExperimentProofs ------------------------
(***************************************************************************)
(* Proofs about MemoryPool and PoolExperiment, for any number of threads   *)
(* and of blocks and any sizes of tests: a block is in one place, its      *)
(* header tells its pool, the counters are exact up to the steps under way *)
(* (BlocksInv), and the pools implement the store of BlockStore.           *)
(***************************************************************************)
EXTENDS PoolExperiment, FiniteSetTheorems, SequenceTheorems, TLAPS

USE MemoryPoolAssumption, PoolExperimentAssumption

Steps == {"idle", "pop", "make", "reuse", "use", "attach", "clear", "push", "unuse", "reserve"}
Planned == [pattern : {"all", "mixed", "one", "batch", "random"}, who : SUBSET Threads,
            sizes : SUBSET ObjectSizes, n : {Iterations, ThreadIterations, StressIterations}]

FieldInv ==
  /\ header \in [PoolSizes -> Seq(Nat)]
  /\ useCount \in [PoolSizes -> Int] /\ reserveCount \in [PoolSizes -> Int]
  /\ made \in Seq([pool : PoolSizes, allocSize : Nat]) /\ Len(made) <= MaxBlocks
  /\ op \in [Threads -> [at : Steps, pool : Nat, size : Nat, block : Nat]]
  /\ objects \in [Threads -> Seq([size : Int, block : Nat])]
  /\ test \in 1..Tests + 1
  /\ left \in [Threads -> 0..Iterations + ThreadIterations + StressIterations]

\* A thread that is in the pools works for one size, in the pool of that size.
OpInv ==
  \A t \in Threads :
    /\ op[t].at = "idle" => op[t] = Idle
    /\ op[t].at # "idle" => op[t].size \in DOMAIN PoolOf /\ op[t].pool = PoolOf[op[t].size]
    /\ op[t].block \in {NoBlock} \cup Blocks

\* The pools are used by every other test only; there every object is in a block.
PhaseInv ==
  /\ Pooled => \A t \in Threads : \A i \in 1..Len(objects[t]) : objects[t][i].block # NoBlock
  /\ ~Pooled => \A t \in Threads :
       /\ op[t] = Idle
       /\ \A i \in 1..Len(objects[t]) : objects[t][i].block = NoBlock
  /\ Printing => \A t \in Threads : op[t] = Idle /\ objects[t] = <<>>

\* The blocks in the lists and in the hands of threads.
Listed == UNION {{header[p][i] : i \in 1..Len(header[p])} : p \in PoolSizes}
Carries(t) == op[t].at \in {"reuse", "use", "attach", "clear", "push"}
InHand == {op[t].block : t \in {u \in Threads : Carries(u)}}

\* No block is twice in the lists, in hands or in use, or in two of these.
ListsApart ==
  \A p, q \in PoolSizes : \A i \in 1..Len(header[p]), k \in 1..Len(header[q]) :
    header[p][i] = header[q][k] => p = q /\ i = k
HandsApart ==
  \A t, u \in Threads : Carries(t) /\ Carries(u) /\ op[t].block = op[u].block => t = u
PlaceInv ==
  /\ ListsApart /\ HandsApart /\ ObjectsApart
  /\ Listed \cap InHand = {} /\ Listed \cap InUse = {} /\ InHand \cap InUse = {}
  /\ Blocks = Listed \cup InHand \cup InUse

\* What is in the headers.
Labelled(x) ==
  LET size == x.size + HeaderSize IN
  /\ size \in DOMAIN PoolOf
  /\ made[x.block] = [pool |-> PoolOf[size], allocSize |-> size]
HeaderInv ==
  /\ \A p \in PoolSizes : \A i \in 1..Len(header[p]) :
       made[header[p][i]] = [pool |-> p, allocSize |-> 0]
  /\ \A t \in Threads : Carries(t) =>
       made[op[t].block] = [pool |-> op[t].pool,
                            allocSize |-> IF op[t].at = "clear" THEN op[t].size ELSE 0]
  /\ \A t \in Threads : \A i \in 1..Len(objects[t]) :
       objects[t][i].block # NoBlock => Labelled(objects[t][i])

PoolIInv ==
  /\ FieldInv /\ OpInv /\ PhaseInv
  /\ PlaceInv /\ HeaderInv /\ CountsBehind(InUse)

-----------------------------------------------------------------------------
\* There are finitely many types of objects, and so finitely many tests.
LEMMA FiniteTypes == IsFiniteSet(ObjectSizes) /\ Cardinality(ObjectSizes) \in Nat
  <1>1. PICK n \in Nat : n >= 2560
    OBVIOUS
  <1>2. TypeSizes \subseteq 0..n
    BY <1>1 DEF TypeSizes
  <1>3. IsFiniteSet(0..n)
    BY FS_Interval
  <1>4. ObjectSizes \in SUBSET (0..n)
    BY <1>2
  <1>5. IsFiniteSet(ObjectSizes)
    BY <1>3, <1>4, FS_Subset
  <1>6. QED
    BY <1>5, FS_CardinalityType

LEMMA PlanType == Plan \in Seq(Planned) /\ Len(Plan) \in Nat /\ Tests \in Nat
  <1>1. TypeTests \in Seq(Planned)
    <2>1. \A k \in 1..Cardinality(ObjectSizes) :
            PlannedTest("all", {Main}, {n \in ObjectSizes : Cardinality(Smaller(n)) = k - 1},
                        Iterations) \in Planned
      BY DEF PlannedTest, Planned
    <2> DEFINE N == Cardinality(ObjectSizes)
    <2>2. N \in Nat
      BY FiniteTypes
    <2> HIDE DEF N
    <2>3. ASSUME NEW f, f = [k \in 1..N |-> f[k]], \A k \in 1..N : f[k] \in Planned
          PROVE  f \in Seq(Planned)
      BY <2>2, <2>3
    <2>4. QED
      BY <2>1, <2>3 DEF TypeTests, N
  <1>2. MixedTests \in Seq(Planned)
    <2>1. PlannedTest("mixed", {Main}, ObjectSizes, Iterations) \in Planned
      BY DEF PlannedTest, Planned
    <2>2. PlannedTest("mixed", Workers, ObjectSizes, ThreadIterations) \in Planned
      BY DEF PlannedTest, Planned
    <2>3. QED
      BY <2>1, <2>2 DEF MixedTests
  <1>3. StressTests \in Seq(Planned)
    <2>1. \A k \in 1..4 : PlannedTest(<<"all", "one", "batch", "random">>[k], {Main}, ObjectSizes,
                                       StressIterations) \in Planned
      <3>1. \A k \in 1..4 : <<"all", "one", "batch", "random">>[k]
                              \in {"all", "mixed", "one", "batch", "random"}
        OBVIOUS
      <3>2. QED
        BY <3>1 DEF PlannedTest, Planned
    <2>2. QED
      BY <2>1 DEF StressTests
  <1>4. Plan \in Seq(Planned)
    BY <1>1, <1>2, <1>3 DEF Plan
  <1>5. QED
    BY <1>4 DEF Tests

\* The test that is running.
LEMMA TestType ==
  ASSUME NEW n \in 1..Tests
  PROVE  Plan[(n + 1) \div 2] \in Planned
  <1>1. (n + 1) \div 2 \in 1..Len(Plan)
    BY PlanType DEF Tests
  <1>2. QED
    BY <1>1, PlanType

-----------------------------------------------------------------------------
\* What is left of a vector when an object is deleted: r has the objects of s
\* but the i-th, in some order.
Remains(s, i, r) ==
  /\ \A k \in 1..Len(r) : \E m \in 1..Len(s) \ {i} : r[k] = s[m]
  /\ \A m \in 1..Len(s) \ {i} : \E k \in 1..Len(r) : r[k] = s[m]
  /\ \A k, l \in 1..Len(r) : k # l =>
       \E m, n \in 1..Len(s) \ {i} : m # n /\ r[k] = s[m] /\ r[l] = s[n]

LEMMA RemoveAtRemains ==
  ASSUME NEW S, NEW s \in Seq(S), NEW i \in 1..Len(s)
  PROVE  RemoveAt(s, i) \in Seq(S) /\ Remains(s, i, RemoveAt(s, i))
  <1> DEFINE front == SubSeq(s, 1, i - 1)
             back == SubSeq(s, i + 1, Len(s))
             r == front \o back
  <1>1. /\ front \in Seq(S) /\ Len(front) = i - 1
        /\ \A k \in 1..i - 1 : front[k] = s[k]
    BY SubSeqProperties
  <1>2. /\ back \in Seq(S) /\ Len(back) = Len(s) - i
        /\ \A k \in 1..Len(s) - i : back[k] = s[i + k]
    BY SubSeqProperties
  <1>3. /\ r \in Seq(S) /\ Len(r) = Len(s) - 1
        /\ \A k \in 1..Len(s) - 1 : r[k] = IF k < i THEN s[k] ELSE s[k + 1]
    <2> HIDE DEF front, back
    <2>1. Len(front \o back) = Len(front) + Len(back) /\ front \o back \in Seq(S)
      BY <1>1, <1>2, ConcatProperties
    <2>2. \A k \in 1..Len(front) + Len(back) :
            (front \o back)[k] = IF k <= Len(front) THEN front[k] ELSE back[k - Len(front)]
      BY <1>1, <1>2, ConcatProperties
    <2>3. QED
      BY <1>1, <1>2, <2>1, <2>2
  <1>4. RemoveAt(s, i) = r
    BY DEF RemoveAt
  <1> HIDE DEF r
  <1>5. \A k \in 1..Len(r) : \E m \in 1..Len(s) \ {i} : r[k] = s[m]
    BY <1>3
  <1>6. \A m \in 1..Len(s) \ {i} : \E k \in 1..Len(r) : r[k] = s[m]
    <2> TAKE m \in 1..Len(s) \ {i}
    <2>1. CASE m < i
      BY <1>3, <2>1
    <2>2. CASE m > i
      <3>1. m - 1 \in 1..Len(r) /\ r[m - 1] = s[m]
        BY <1>3, <2>2
      <3>2. QED
        BY <3>1
    <2>3. QED
      BY <2>1, <2>2
  <1>7. ASSUME NEW k \in 1..Len(r), NEW l \in 1..Len(r), k # l
        PROVE  \E m, n \in 1..Len(s) \ {i} : m # n /\ r[k] = s[m] /\ r[l] = s[n]
    <2> DEFINE m == IF k < i THEN k ELSE k + 1
               n == IF l < i THEN l ELSE l + 1
    <2>1. m \in 1..Len(s) \ {i} /\ n \in 1..Len(s) \ {i} /\ m # n /\ r[k] = s[m] /\ r[l] = s[n]
      BY <1>3, <1>7
    <2>2. QED
      BY <2>1
  <1>8. Remains(s, i, r)
    BY <1>5, <1>6, <1>7 DEF Remains
  <1>9. QED
    BY <1>3, <1>4, <1>8

LEMMA LastMovedRemains ==
  ASSUME NEW S, NEW s \in Seq(S), NEW i \in 1..Len(s)
  PROVE  /\ Front([s EXCEPT ![i] = Last(s)]) \in Seq(S)
         /\ Remains(s, i, Front([s EXCEPT ![i] = Last(s)]))
  <1> DEFINE moved == [s EXCEPT ![i] = Last(s)]
             r == Front(moved)
  <1>1. moved \in Seq(S) /\ Len(moved) = Len(s)
    BY DEF Last
  <1>2. /\ r \in Seq(S) /\ Len(r) = Len(s) - 1
        /\ \A k \in 1..Len(s) - 1 : r[k] = moved[k]
    <2> HIDE DEF moved
    <2>1. Front(moved) = SubSeq(moved, 1, Len(moved) - 1)
      BY DEF Front
    <2>2. QED
      BY <1>1, <2>1, SubSeqProperties
  <1>3. \A k \in 1..Len(s) : moved[k] = IF k = i THEN s[Len(s)] ELSE s[k]
    BY DEF Last
  <1> HIDE DEF r, moved
  <1>4. \A k \in 1..Len(r) : r[k] = IF k = i THEN s[Len(s)] ELSE s[k]
    BY <1>2, <1>3
  <1>5. \A k \in 1..Len(r) : \E m \in 1..Len(s) \ {i} : r[k] = s[m]
    <2> TAKE k \in 1..Len(r)
    <2> DEFINE m == IF k = i THEN Len(s) ELSE k
    <2>1. m \in 1..Len(s) \ {i} /\ r[k] = s[m]
      BY <1>2, <1>4
    <2>2. QED
      BY <2>1
  <1>6. \A m \in 1..Len(s) \ {i} : \E k \in 1..Len(r) : r[k] = s[m]
    <2> TAKE m \in 1..Len(s) \ {i}
    <2> DEFINE k == IF m = Len(s) THEN i ELSE m
    <2>1. k \in 1..Len(r) /\ r[k] = s[m]
      BY <1>2, <1>4
    <2>2. QED
      BY <2>1
  <1>7. ASSUME NEW k \in 1..Len(r), NEW l \in 1..Len(r), k # l
        PROVE  \E m, n \in 1..Len(s) \ {i} : m # n /\ r[k] = s[m] /\ r[l] = s[n]
    <2> DEFINE m == IF k = i THEN Len(s) ELSE k
               n == IF l = i THEN Len(s) ELSE l
    <2>1. m \in 1..Len(s) \ {i} /\ n \in 1..Len(s) \ {i} /\ m # n /\ r[k] = s[m] /\ r[l] = s[n]
      BY <1>2, <1>4, <1>7
    <2>2. QED
      BY <2>1
  <1>8. QED
    BY <1>2, <1>5, <1>6, <1>7 DEF Remains, r, moved

\* Deleting takes one object out of the thread's vector.
LEMMA Deletes ==
  ASSUME FieldInv, NEW t \in Threads, NEW i \in Chosen(t)
  PROVE  /\ i \in 1..Len(objects[t])
         /\ Without(t, i) \in Seq([size : Int, block : Nat])
         /\ Remains(objects[t], i, Without(t, i))
  <1>1. objects[t] \in Seq([size : Int, block : Nat])
    BY DEF FieldInv
  <1>2. i \in 1..Len(objects[t])
    BY <1>1 DEF Chosen
  <1>3. QED
    BY <1>1, <1>2, RemoveAtRemains, LastMovedRemains DEF Without

-----------------------------------------------------------------------------
\* The members of the sets of blocks.
InUseMembers ==
  /\ \A b : b \in InUse <=> \E t \in Threads : \E i \in 1..Len(objects[t]) :
                              objects[t][i].block = b /\ b # NoBlock
  /\ ObjectsApart <=>
       \A t, u \in Threads : \A i \in 1..Len(objects[t]), k \in 1..Len(objects[u]) :
         objects[t][i].block = objects[u][k].block /\ objects[t][i].block # NoBlock
           => t = u /\ i = k

LEMMA Used == FieldInv => InUseMembers
  <1> SUFFICES ASSUME FieldInv PROVE InUseMembers
    OBVIOUS
  <1>1. \A t \in Threads : DOMAIN objects[t] = 1..Len(objects[t])
    BY DEF FieldInv
  <1>2. \A o : o \in Live <=> \E t \in Threads : \E i \in 1..Len(objects[t]) :
                                o = <<t, i>> /\ objects[t][i].block # NoBlock
    BY <1>1 DEF Live, BlockOf
  <1>3. \A b : b \in InUse <=> \E t \in Threads : \E i \in 1..Len(objects[t]) :
                                 objects[t][i].block = b /\ b # NoBlock
    <2>1. \A b : b \in InUse <=> \E o \in Live : b = BlockOf(o)
      BY DEF InUse
    <2>2. ASSUME NEW o \in Live
          PROVE  \E t \in Threads : \E i \in 1..Len(objects[t]) :
                   objects[t][i].block = BlockOf(o) /\ BlockOf(o) # NoBlock
      BY <1>2 DEF BlockOf
    <2>3. ASSUME NEW t \in Threads, NEW i \in 1..Len(objects[t]), objects[t][i].block # NoBlock
          PROVE  <<t, i>> \in Live /\ BlockOf(<<t, i>>) = objects[t][i].block
      BY <1>2, <2>3 DEF BlockOf
    <2>4. ASSUME NEW b \in InUse
          PROVE  \E t \in Threads : \E i \in 1..Len(objects[t]) :
                   objects[t][i].block = b /\ b # NoBlock
      BY <2>1, <2>2
    <2>5. ASSUME NEW t \in Threads, NEW i \in 1..Len(objects[t]), objects[t][i].block # NoBlock
          PROVE  objects[t][i].block \in InUse
      BY <2>1, <2>3, <2>5
    <2>6. QED
      BY <2>4, <2>5
  <1>4. ASSUME ObjectsApart,
               NEW t \in Threads, NEW u \in Threads,
               NEW i \in 1..Len(objects[t]), NEW k \in 1..Len(objects[u]),
               objects[t][i].block = objects[u][k].block, objects[t][i].block # NoBlock
        PROVE  t = u /\ i = k
    <2>1. <<t, i>> \in Live /\ <<u, k>> \in Live
      BY <1>2, <1>4
    <2>2. BlockOf(<<t, i>>) = BlockOf(<<u, k>>)
      BY <1>4 DEF BlockOf
    <2>3. <<t, i>> = <<u, k>>
      BY <1>4, <2>1, <2>2 DEF ObjectsApart
    <2>4. QED
      BY <2>3
  <1>5. ASSUME \A t, u \in Threads : \A i \in 1..Len(objects[t]), k \in 1..Len(objects[u]) :
                 objects[t][i].block = objects[u][k].block /\ objects[t][i].block # NoBlock
                   => t = u /\ i = k
        PROVE  ObjectsApart
    BY <1>2, <1>5 DEF ObjectsApart, BlockOf
  <1>6. QED
    BY <1>3, <1>4, <1>5 DEF InUseMembers

\* The members of the lists.
LEMMA Members ==
  \A b : b \in Listed <=> \E p \in PoolSizes : \E i \in 1..Len(header[p]) : header[p][i] = b
  BY DEF Listed

\* What the other threads are doing in the pools stays.
Others(t) == \A u \in Threads \ {t} : op'[u] = op[u]

\* The block in the hand of t stays there.
LEMMA HandStays ==
  ASSUME FieldInv, FieldInv', NEW t \in Threads, Others(t),
         Carries(t)' <=> Carries(t), Carries(t) => op'[t].block = op[t].block
  PROVE  InHand' = InHand /\ (HandsApart => HandsApart')
  <1> HIDE MemoryPoolAssumption, PoolExperimentAssumption
  <1>1. \A u \in Threads : /\ Carries(u)' <=> Carries(u)
                           /\ Carries(u) => op'[u].block = op[u].block
    BY DEF Others, Carries
  <1>2. \A b : b \in InHand' <=> b \in InHand
    BY <1>1 DEF InHand
  <1>3. InHand' = InHand
    BY <1>2
  <1>4. ASSUME HandsApart, NEW u \in Threads, NEW v \in Threads,
               Carries(u)', Carries(v)', op'[u].block = op'[v].block
        PROVE  u = v
    <2>1. Carries(u) /\ Carries(v) /\ op[u].block = op[v].block
      BY <1>1, <1>4
    <2>2. QED
      BY <1>4, <2>1 DEF HandsApart
  <1>5. QED
    BY <1>3, <1>4 DEF HandsApart

\* A block comes into the hand of t.
LEMMA HandTakes ==
  ASSUME FieldInv, FieldInv', NEW t \in Threads, Others(t), ~Carries(t), Carries(t)',
         op'[t].block \notin InHand
  PROVE  InHand' = InHand \cup {op'[t].block} /\ (HandsApart => HandsApart')
  <1> HIDE MemoryPoolAssumption, PoolExperimentAssumption
  <1>1. \A u \in Threads \ {t} : (Carries(u)' <=> Carries(u)) /\ op'[u].block = op[u].block
    BY DEF Others, Carries
  <1>2. \A b : b \in InHand' <=> b \in InHand \/ b = op'[t].block
    BY <1>1 DEF InHand
  <1>3. \A u \in Threads : Carries(u) => op[u].block # op'[t].block
    BY DEF InHand
  <1>4. QED
    BY <1>1, <1>2, <1>3 DEF HandsApart

\* A block leaves the hand of t.
LEMMA HandGives ==
  ASSUME FieldInv, FieldInv', NEW t \in Threads, Others(t), Carries(t), ~Carries(t)', HandsApart
  PROVE  InHand' = InHand \ {op[t].block} /\ HandsApart'
  <1> HIDE MemoryPoolAssumption, PoolExperimentAssumption
  <1>1. \A u \in Threads \ {t} : (Carries(u)' <=> Carries(u)) /\ op'[u].block = op[u].block
    BY DEF Others, Carries
  <1>2. \A b : b \in InHand' <=> b \in InHand /\ b # op[t].block
    BY <1>1 DEF InHand, HandsApart
  <1>3. QED
    BY <1>1, <1>2 DEF HandsApart

\* The first block of a list leaves it.
LEMMA ListGives ==
  ASSUME FieldInv, FieldInv', NEW p \in PoolSizes, header[p] # <<>>,
         header' = [header EXCEPT ![p] = Tail(@)], ListsApart
  PROVE  /\ Head(header[p]) \in Listed
         /\ Listed' = Listed \ {Head(header[p])} /\ ListsApart'
  <1>0. \A b : b \in Listed' <=>
          \E q \in PoolSizes : \E i \in 1..Len(header'[q]) : header'[q][i] = b
    BY DEF Listed
  <1>1. /\ header[p] \in Seq(Nat) /\ Head(header[p]) = header[p][1] /\ 1 \in 1..Len(header[p])
        /\ Len(header'[p]) = Len(header[p]) - 1
        /\ \A i \in 1..Len(header[p]) - 1 : header'[p][i] = header[p][i + 1]
    BY HeadTailProperties DEF FieldInv
  <1>2. \A q \in PoolSizes \ {p} : header'[q] = header[q]
    BY DEF FieldInv
  <1>3. Head(header[p]) \in Listed
    BY <1>1, Members
  <1>4. ASSUME NEW q \in PoolSizes, NEW i \in 1..Len(header'[q])
        PROVE  header'[q][i] \in Listed \ {Head(header[p])}
    <2>1. CASE q = p
      <3>1. i + 1 \in 1..Len(header[p]) /\ header'[q][i] = header[p][i + 1] /\ i + 1 # 1
        BY <1>1, <1>4, <2>1
      <3>2. header[p][i + 1] # header[p][1]
        BY <1>1, <3>1 DEF ListsApart
      <3>3. QED
        BY <1>1, <3>1, <3>2, Members
    <2>2. CASE q # p
      <3>1. i \in 1..Len(header[q]) /\ header'[q][i] = header[q][i]
        BY <1>2, <1>4, <2>2
      <3>2. header[q][i] # header[p][1]
        BY <1>1, <2>2, <3>1 DEF ListsApart
      <3>3. QED
        BY <1>1, <3>1, <3>2, Members
    <2>3. QED
      BY <2>1, <2>2
  <1>5. ASSUME NEW b \in Listed, b # Head(header[p])
        PROVE  b \in Listed'
    <2>0. PICK q \in PoolSizes : \E i \in 1..Len(header[q]) : header[q][i] = b
      BY <1>5, Members
    <2>1. PICK i \in 1..Len(header[q]) : header[q][i] = b
      BY <2>0
    <2>2. CASE q = p
      <3>1. i # 1
        BY <1>1, <1>5, <2>1, <2>2
      <3>2. i - 1 \in 1..Len(header'[p]) /\ header'[p][i - 1] = b
        BY <1>1, <2>1, <2>2, <3>1
      <3>3. QED
        BY <1>0, <3>2
    <2>3. CASE q # p
      <3>1. i \in 1..Len(header'[q]) /\ header'[q][i] = b
        BY <1>2, <2>1, <2>3
      <3>2. QED
        BY <1>0, <3>1
    <2>4. QED
      BY <2>2, <2>3
  <1>6. Listed' = Listed \ {Head(header[p])}
    <2>1. ASSUME NEW b \in Listed' PROVE b \in Listed \ {Head(header[p])}
      <3>1. PICK q \in PoolSizes : \E i \in 1..Len(header'[q]) : header'[q][i] = b
        BY <1>0, <2>1
      <3>2. QED
        BY <1>4, <3>1
    <2>2. QED
      BY <1>5, <2>1
  <1>7. ListsApart'
    <2> SUFFICES ASSUME NEW q \in PoolSizes, NEW r \in PoolSizes,
                        NEW i \in 1..Len(header'[q]), NEW k \in 1..Len(header'[r]),
                        header'[q][i] = header'[r][k]
                 PROVE  q = r /\ i = k
      BY DEF ListsApart
    <2> DEFINE m == IF q = p THEN i + 1 ELSE i
               n == IF r = p THEN k + 1 ELSE k
    <2>1. m \in 1..Len(header[q]) /\ header'[q][i] = header[q][m]
      BY <1>1, <1>2
    <2>2. n \in 1..Len(header[r]) /\ header'[r][k] = header[r][n]
      BY <1>1, <1>2
    <2>3. q = r /\ m = n
      BY <2>1, <2>2 DEF ListsApart
    <2>4. i \in Nat /\ k \in Nat
      OBVIOUS
    <2>5. QED
      BY <2>3, <2>4
  <1>8. QED
    BY <1>3, <1>6, <1>7

\* A block comes to the front of a list.
LEMMA ListTakes ==
  ASSUME FieldInv, FieldInv', NEW p \in PoolSizes, NEW b \in Nat,
         header' = [header EXCEPT ![p] = <<b>> \o @], b \notin Listed, ListsApart
  PROVE  Listed' = Listed \cup {b} /\ ListsApart'
  <1>0. \A c : c \in Listed' <=>
          \E q \in PoolSizes : \E i \in 1..Len(header'[q]) : header'[q][i] = c
    BY DEF Listed
  <1>1. /\ Len(header'[p]) = Len(header[p]) + 1 /\ Len(header[p]) \in Nat
        /\ header'[p][1] = b
        /\ \A i \in 1..Len(header[p]) : header'[p][i + 1] = header[p][i]
    <2>1. header[p] \in Seq(Nat) /\ <<b>> \in Seq(Nat) /\ Len(<<b>>) = 1 /\ <<b>>[1] = b
      BY DEF FieldInv
    <2>2. header'[p] = <<b>> \o header[p]
      BY DEF FieldInv
    <2>3. QED
      BY <2>1, <2>2, ConcatProperties
  <1>2. \A q \in PoolSizes \ {p} : header'[q] = header[q]
    BY DEF FieldInv
  <1>3. \A q \in PoolSizes : \A i \in 1..Len(header[q]) : header[q][i] # b
    BY Members
  <1>4. Listed' = Listed \cup {b}
    <2>1. \A c \in Listed : c \in Listed'
      <3> SUFFICES ASSUME NEW q \in PoolSizes, NEW i \in 1..Len(header[q])
                   PROVE  header[q][i] \in Listed'
        BY Members
      <3>1. CASE q = p
        <4>1. i + 1 \in 1..Len(header'[p]) /\ header'[p][i + 1] = header[p][i]
          BY <1>1, <3>1
        <4>2. QED
          BY <1>0, <3>1, <4>1
      <3>2. CASE q # p
        BY <1>0, <1>2, <3>2
      <3>3. QED
        BY <3>1, <3>2
    <2>2. b \in Listed'
      <3>1. 1 \in 1..Len(header'[p])
        BY <1>1
      <3>2. QED
        BY <1>0, <1>1, <3>1
    <2>3. ASSUME NEW q \in PoolSizes, NEW i \in 1..Len(header'[q])
          PROVE  header'[q][i] \in Listed \cup {b}
      <3>1. CASE q = p /\ i # 1
        <4>1. i - 1 \in 1..Len(header[p]) /\ header'[p][i] = header[p][i - 1]
          BY <1>1, <2>3, <3>1
        <4>2. QED
          BY <3>1, <4>1, Members
      <3>2. CASE q # p
        BY <1>2, <2>3, <3>2, Members
      <3>3. QED
        BY <1>1, <3>1, <3>2
    <2>4. QED
      BY <1>0, <2>1, <2>2, <2>3
  <1>5. ListsApart'
    <2> SUFFICES ASSUME NEW q \in PoolSizes, NEW r \in PoolSizes,
                        NEW i \in 1..Len(header'[q]), NEW k \in 1..Len(header'[r]),
                        header'[q][i] = header'[r][k]
                 PROVE  q = r /\ i = k
      BY DEF ListsApart
    <2>1. \A z \in PoolSizes : \A j \in 1..Len(header'[z]) :
            \/ z = p /\ j = 1 /\ header'[z][j] = b
            \/ \E m \in 1..Len(header[z]) :
                 m = (IF z = p THEN j - 1 ELSE j) /\ header'[z][j] = header[z][m]
      <3> TAKE z \in PoolSizes
      <3> TAKE j \in 1..Len(header'[z])
      <3>1. CASE z = p /\ j # 1
        <4>1. j - 1 \in 1..Len(header[p]) /\ header'[p][j] = header[p][j - 1]
          BY <1>1, <3>1
        <4>2. QED
          BY <3>1, <4>1
      <3>2. CASE z # p
        BY <1>2, <3>2
      <3>3. QED
        BY <1>1, <3>1, <3>2
    <2>2. i \in Nat /\ k \in Nat
      OBVIOUS
    <2>3. CASE header'[q][i] = b
      <3>1. q = p /\ i = 1 /\ r = p /\ k = 1
        BY <1>3, <2>1, <2>3
      <3>2. QED
        BY <3>1
    <2>4. CASE header'[q][i] # b
      <3>1. PICK m \in 1..Len(header[q]) :
              m = (IF q = p THEN i - 1 ELSE i) /\ header'[q][i] = header[q][m]
        BY <2>1, <2>4
      <3>2. PICK n \in 1..Len(header[r]) :
              n = (IF r = p THEN k - 1 ELSE k) /\ header'[r][k] = header[r][n]
        BY <2>1, <2>4
      <3>3. q = r /\ m = n
        BY <3>1, <3>2 DEF ListsApart
      <3>4. QED
        BY <2>2, <3>1, <3>2, <3>3
    <2>5. QED
      BY <2>3, <2>4
  <1>6. QED
    BY <1>4, <1>5

\* The lists stay.
LEMMA ListsStay ==
  ASSUME header' = header
  PROVE  Listed' = Listed /\ (ListsApart => ListsApart')
  BY DEF Listed, ListsApart

\* The objects stay.
LEMMA UseStays ==
  ASSUME objects' = objects
  PROVE  InUse' = InUse /\ (ObjectsApart => ObjectsApart')
  BY DEF InUse, Live, BlockOf, ObjectsApart

\* A new object is in a block.
LEMMA UseBegins ==
  ASSUME FieldInv, FieldInv', NEW t \in Threads, NEW x \in [size : Int, block : Nat],
         x.block # NoBlock, x.block \notin InUse, ObjectsApart,
         objects' = [objects EXCEPT ![t] = Append(@, x)]
  PROVE  InUse' = InUse \cup {x.block} /\ ObjectsApart'
  <1>1. objects[t] \in Seq([size : Int, block : Nat]) /\ Len(objects[t]) \in Nat
    BY DEF FieldInv
  <1>2. /\ Len(objects'[t]) = Len(objects[t]) + 1
        /\ objects'[t][Len(objects[t]) + 1] = x
        /\ \A i \in 1..Len(objects[t]) : objects'[t][i] = objects[t][i]
    <2>1. objects'[t] = Append(objects[t], x)
      BY DEF FieldInv
    <2>2. QED
      BY <1>1, <2>1, AppendProperties
  <1>3. \A u \in Threads \ {t} : objects'[u] = objects[u]
    BY DEF FieldInv
  <1> DEFINE Kept(u, i) == i \in 1..Len(objects[u]) /\ objects'[u][i] = objects[u][i]
             Added(u, i) == u = t /\ i = Len(objects[t]) + 1 /\ objects'[u][i] = x
  <1>4. \A u \in Threads : \A i \in 1..Len(objects'[u]) : Kept(u, i) \/ Added(u, i)
    BY <1>1, <1>2, <1>3
  <1>5. \A u \in Threads : \A i \in 1..Len(objects[u]) : i \in 1..Len(objects'[u]) /\ Kept(u, i)
    BY <1>1, <1>2, <1>3
  <1>6. Len(objects[t]) + 1 \in 1..Len(objects'[t]) /\ Added(t, Len(objects[t]) + 1)
    BY <1>1, <1>2
  <1> HIDE DEF Kept, Added
  <1>7. InUseMembers /\ InUseMembers'
    BY Used, PTL
  <1>8. \A u \in Threads : \A i \in 1..Len(objects[u]) : objects[u][i].block # x.block
    BY <1>7 DEF InUseMembers
  <1>9. x.block \in InUse'
    BY <1>6, <1>7 DEF InUseMembers, Added
  <1>10. ASSUME NEW c \in InUse PROVE c \in InUse'
    <2>1. PICK u \in Threads : \E i \in 1..Len(objects[u]) :
            objects[u][i].block = c /\ c # NoBlock
      BY <1>7 DEF InUseMembers
    <2>2. QED
      BY <1>5, <1>7, <2>1 DEF InUseMembers, Kept
  <1>11. ASSUME NEW c \in InUse' PROVE c \in InUse \/ c = x.block
    <2>1. PICK u \in Threads : \E i \in 1..Len(objects'[u]) :
            objects'[u][i].block = c /\ c # NoBlock
      BY <1>7 DEF InUseMembers
    <2>2. QED
      BY <1>4, <1>7, <2>1 DEF InUseMembers, Kept, Added
  <1>12. ObjectsApart'
    <2> SUFFICES ASSUME NEW u \in Threads, NEW v \in Threads,
                        NEW k \in 1..Len(objects'[u]), NEW l \in 1..Len(objects'[v]),
                        objects'[u][k].block = objects'[v][l].block,
                        objects'[u][k].block # NoBlock
                 PROVE  u = v /\ k = l
      <3>1. InUseMembers'
        BY <1>7
      <3>2. QED
        BY <3>1, SMTT(20) DEF InUseMembers
    <2>1. CASE Kept(u, k) /\ Kept(v, l)
      BY <1>7, <2>1, SMTT(20) DEF InUseMembers, Kept
    <2>2. CASE Added(u, k)
      BY <1>4, <1>8, <2>2 DEF Kept, Added
    <2>3. CASE Added(v, l)
      BY <1>4, <1>8, <2>3 DEF Kept, Added
    <2>4. QED
      BY <1>4, <2>1, <2>2, <2>3
  <1>13. QED
    BY <1>9, <1>10, <1>11, <1>12

\* An object is deleted: its block is not in use any more.
LEMMA UseEnds ==
  ASSUME FieldInv, FieldInv', NEW t \in Threads, NEW i \in 1..Len(objects[t]),
         \A u \in Threads \ {t} : objects'[u] = objects[u],
         Remains(objects[t], i, objects'[t]), objects[t][i].block # NoBlock, ObjectsApart
  PROVE  /\ objects[t][i].block \in InUse
         /\ InUse' = InUse \ {objects[t][i].block} /\ ObjectsApart'
  <1> DEFINE b == objects[t][i].block
  <1>1. InUseMembers /\ InUseMembers'
    BY Used, PTL
  <1>2. \A u \in Threads : \A k \in 1..Len(objects[u]) :
          objects[u][k].block = b => u = t /\ k = i
    BY <1>1 DEF InUseMembers
  <1>3. ASSUME NEW u \in Threads, NEW k \in 1..Len(objects'[u])
        PROVE  \E m \in 1..Len(objects[u]) : ~(u = t /\ m = i) /\ objects'[u][k] = objects[u][m]
    <2>1. CASE u = t
      BY <1>3, <2>1 DEF Remains
    <2>2. CASE u # t
      BY <2>2
    <2>3. QED
      BY <2>1, <2>2
  <1>4. ASSUME NEW u \in Threads, NEW m \in 1..Len(objects[u]), ~(u = t /\ m = i)
        PROVE  \E k \in 1..Len(objects'[u]) : objects'[u][k] = objects[u][m]
    <2>1. CASE u = t
      BY <1>4, <2>1 DEF Remains
    <2>2. CASE u # t
      BY <2>2
    <2>3. QED
      BY <2>1, <2>2
  <1>5. b \in InUse
    BY <1>1 DEF InUseMembers
  <1>6. \A c \in InUse' : c \in InUse /\ c # b
    <2> SUFFICES ASSUME NEW u \in Threads, NEW k \in 1..Len(objects'[u]),
                        objects'[u][k].block # NoBlock
                 PROVE  objects'[u][k].block \in InUse /\ objects'[u][k].block # b
      <3>1. InUseMembers'
        BY <1>1
      <3>2. QED
        BY <3>1 DEF InUseMembers
    <2>1. PICK m \in 1..Len(objects[u]) : ~(u = t /\ m = i) /\ objects'[u][k] = objects[u][m]
      BY <1>3
    <2>2. QED
      BY <1>1, <1>2, <2>1 DEF InUseMembers
  <1>7. \A c \in InUse : c # b => c \in InUse'
    <2> SUFFICES ASSUME NEW u \in Threads, NEW m \in 1..Len(objects[u]),
                        objects[u][m].block # NoBlock, objects[u][m].block # b
                 PROVE  objects[u][m].block \in InUse'
      BY <1>1 DEF InUseMembers
    <2>1. PICK k \in 1..Len(objects'[u]) : objects'[u][k] = objects[u][m]
      BY <1>4
    <2>2. QED
      BY <1>1, <2>1 DEF InUseMembers
  <1>8. ObjectsApart'
    <2> SUFFICES ASSUME NEW u \in Threads, NEW v \in Threads,
                        NEW k \in 1..Len(objects'[u]), NEW l \in 1..Len(objects'[v]),
                        objects'[u][k].block = objects'[v][l].block,
                        objects'[u][k].block # NoBlock
                 PROVE  u = v /\ k = l
      <3>1. InUseMembers'
        BY <1>1
      <3>2. QED
        BY <3>1, SMTT(20) DEF InUseMembers
    <2>1. PICK m \in 1..Len(objects[u]) : objects'[u][k] = objects[u][m]
      BY <1>3
    <2>2. PICK n \in 1..Len(objects[v]) : objects'[v][l] = objects[v][n]
      BY <1>3
    <2>3. u = v /\ m = n
      BY <1>1, <2>1, <2>2 DEF InUseMembers
    <2>4. CASE u # t
      BY <1>1, <2>3, <2>4 DEF InUseMembers
    <2>5. CASE u = t /\ k # l
      <3>1. k \in 1..Len(objects'[t]) /\ l \in 1..Len(objects'[t]) /\ k # l
        BY <2>3, <2>5
      <3>2. \E x, y \in 1..Len(objects[t]) \ {i} :
              x # y /\ objects'[t][k] = objects[t][x] /\ objects'[t][l] = objects[t][y]
        BY <3>1 DEF Remains
      <3>3. ASSUME NEW x \in 1..Len(objects[t]), NEW y \in 1..Len(objects[t]), x # y,
                   objects[t][x].block = objects[t][y].block, objects[t][x].block # NoBlock
            PROVE  FALSE
        BY <1>1, <3>3 DEF InUseMembers
      <3>4. QED
        BY <2>3, <2>5, <3>2, <3>3
    <2>6. QED
      BY <2>3, <2>4, <2>5
  <1>9. QED
    BY <1>5, <1>6, <1>7, <1>8

-----------------------------------------------------------------------------
\* How the number of members changes with one of them.
LEMMA CountMoves ==
  ASSUME NEW A, IsFiniteSet(A), NEW x, NEW B, B \ {x} = A \ {x}
  PROVE  /\ IsFiniteSet(B) /\ Cardinality(A) \in Nat /\ Cardinality(B) \in Nat
         /\ Cardinality(B) = Cardinality(A) - (IF x \in A THEN 1 ELSE 0)
                                            + (IF x \in B THEN 1 ELSE 0)
  <1> DEFINE C == A \ {x}
  <1>1. IsFiniteSet(C) /\ Cardinality(C) = IF x \in A THEN Cardinality(A) - 1 ELSE Cardinality(A)
    BY FS_RemoveElement
  <1>2. Cardinality(A) \in Nat /\ Cardinality(C) \in Nat
    BY <1>1, FS_CardinalityType
  <1>3. CASE x \in B
    <2>1. B = C \cup {x} /\ x \notin C
      BY <1>3
    <2>2. IsFiniteSet(B) /\ Cardinality(B) = Cardinality(C) + 1
      BY <1>1, <2>1, FS_AddElement
    <2>3. QED
      BY <1>1, <1>2, <1>3, <2>2
  <1>4. CASE x \notin B
    <2>1. B = C
      BY <1>4
    <2>2. QED
      BY <1>1, <1>2, <1>4, <2>1
  <1>5. QED
    BY <1>3, <1>4

\* How many threads are at certain steps in a pool, after a step of t.
Here(t, p, steps) == IF op[t].pool = p /\ op[t].at \in steps THEN 1 ELSE 0
LEMMA AtMoves ==
  ASSUME NEW t \in Threads, Others(t), NEW p, NEW steps
  PROVE  /\ Cardinality(At(p, steps)) \in Nat /\ Cardinality(At(p, steps)') \in Nat
         /\ Cardinality(At(p, steps)')
              = Cardinality(At(p, steps)) - Here(t, p, steps) + Here(t, p, steps)'
  <1> DEFINE A == At(p, steps)
             B == At(p, steps)'
  <1>1. A \in SUBSET Threads /\ B \in SUBSET Threads
    BY DEF At
  <1>2. IsFiniteSet(A)
    BY <1>1, FS_Subset
  <1>3. B \ {t} = A \ {t}
    BY DEF At, Others
  <1>4. (t \in A <=> op[t].pool = p /\ op[t].at \in steps)
        /\ (t \in B <=> op'[t].pool = p /\ op'[t].at \in steps)
    BY DEF At
  <1> HIDE DEF A, B
  <1>5. /\ Cardinality(A) \in Nat /\ Cardinality(B) \in Nat
        /\ Cardinality(B) = Cardinality(A) - (IF t \in A THEN 1 ELSE 0)
                                            + (IF t \in B THEN 1 ELSE 0)
    BY <1>2, <1>3, CountMoves
  <1>6. QED
    BY <1>4, <1>5 DEF A, B, Here

\* How many blocks of a pool are in use, when at most b comes or goes.
Using(p) == {b \in InUse : made[b].pool = p}
LEMMA UsingMoves ==
  ASSUME InUse \subseteq Blocks, Len(made) \in Nat, NEW b, InUse' \ {b} = InUse \ {b},
         \A c \in InUse \ {b} : made'[c].pool = made[c].pool, NEW p
  PROVE  /\ Cardinality(Using(p)) \in Nat /\ Cardinality(Using(p)') \in Nat
         /\ Cardinality(Using(p)')
              = Cardinality(Using(p))
                - (IF b \in InUse /\ made[b].pool = p THEN 1 ELSE 0)
                + (IF b \in InUse' /\ made'[b].pool = p THEN 1 ELSE 0)
  <1> DEFINE A == Using(p)
             B == Using(p)'
  <1>1. A \in SUBSET Blocks
    BY DEF Using
  <1>2. IsFiniteSet(Blocks)
    BY FS_Interval DEF Blocks
  <1>3. IsFiniteSet(A)
    BY <1>1, <1>2, FS_Subset
  <1>4. B \ {b} = A \ {b}
    BY DEF Using
  <1>5. (b \in A <=> b \in InUse /\ made[b].pool = p)
        /\ (b \in B <=> b \in InUse' /\ made'[b].pool = p)
    BY DEF Using
  <1> HIDE DEF A, B
  <1>6. /\ Cardinality(A) \in Nat /\ Cardinality(B) \in Nat
        /\ Cardinality(B) = Cardinality(A) - (IF b \in A THEN 1 ELSE 0)
                                            + (IF b \in B THEN 1 ELSE 0)
    BY <1>3, <1>4, CountMoves
  <1>7. QED
    BY <1>5, <1>6 DEF A, B

\* The counters follow the steps of t and the block that comes or goes.
CountedInUse == {"attach", "clear", "push", "unuse"}
Reusing == {"reuse"}
OutOfReserve == {"unuse", "reserve"}
UsedHere(b, p) == IF b \in InUse /\ made[b].pool = p THEN 1 ELSE 0
CountKept(t, b, p) ==
  /\ useCount'[p] = useCount[p]
       - UsedHere(b, p) + UsedHere(b, p)' - Here(t, p, CountedInUse) + Here(t, p, CountedInUse)'
  /\ reserveCount'[p] = reserveCount[p] - Len(header[p]) + Len(header'[p])
       - Here(t, p, Reusing) + Here(t, p, Reusing)'
       + Here(t, p, OutOfReserve) - Here(t, p, OutOfReserve)'
LEMMA CountStep ==
  ASSUME FieldInv, FieldInv', CountsBehind(InUse), NEW t \in Threads, Others(t),
         InUse \subseteq Blocks, NEW b, InUse' \ {b} = InUse \ {b},
         \A c \in InUse \ {b} : made'[c].pool = made[c].pool,
         \A p \in PoolSizes : CountKept(t, b, p)
  PROVE  CountsBehind(InUse)'
  <1> HIDE MemoryPoolAssumption, PoolExperimentAssumption
  <1> SUFFICES ASSUME NEW p \in PoolSizes
               PROVE  /\ useCount'[p] = Cardinality(Using(p)')
                                        + Cardinality(At(p, CountedInUse)')
                      /\ reserveCount'[p] = Len(header'[p]) + Cardinality(At(p, Reusing)')
                                            - Cardinality(At(p, OutOfReserve)')
    BY DEF CountsBehind, Using, CountedInUse, Reusing, OutOfReserve
  <1>1. /\ useCount[p] = Cardinality(Using(p)) + Cardinality(At(p, CountedInUse))
        /\ reserveCount[p] = Len(header[p]) + Cardinality(At(p, Reusing))
                             - Cardinality(At(p, OutOfReserve))
    BY DEF CountsBehind, Using, CountedInUse, Reusing, OutOfReserve
  <1>2. Len(header[p]) \in Nat /\ Len(header'[p]) \in Nat /\ Len(made) \in Nat
    <2>1. /\ header \in [PoolSizes -> Seq(Nat)] /\ header' \in [PoolSizes -> Seq(Nat)]
          /\ made \in Seq([pool : PoolSizes, allocSize : Nat])
      BY DEF FieldInv
    <2>2. header[p] \in Seq(Nat) /\ header'[p] \in Seq(Nat)
      BY <2>1
    <2>3. QED
      BY <2>1, <2>2
  <1>3. /\ Cardinality(Using(p)) \in Nat /\ Cardinality(Using(p)') \in Nat
        /\ Cardinality(Using(p)') = Cardinality(Using(p))
             - (IF b \in InUse /\ made[b].pool = p THEN 1 ELSE 0)
             + (IF b \in InUse' /\ made'[b].pool = p THEN 1 ELSE 0)
    BY <1>2, UsingMoves
  <1>6. CountKept(t, b, p)
    OBVIOUS
  <1>7. UsedHere(b, p) \in Int /\ UsedHere(b, p)' \in Int
    BY DEF UsedHere
  <1>8. useCount'[p] = Cardinality(Using(p)') + Cardinality(At(p, CountedInUse)')
    <2>1. useCount'[p] = useCount[p] - UsedHere(b, p) + UsedHere(b, p)'
                              - Here(t, p, CountedInUse) + Here(t, p, CountedInUse)'
      BY <1>6 DEF CountKept
    <2>2. Cardinality(Using(p)') = Cardinality(Using(p)) - UsedHere(b, p) + UsedHere(b, p)'
      BY <1>3 DEF UsedHere
    <2>3. /\ Cardinality(At(p, CountedInUse)) \in Nat /\ Cardinality(At(p, CountedInUse)') \in Nat
          /\ Cardinality(At(p, CountedInUse)') = Cardinality(At(p, CountedInUse))
               - Here(t, p, CountedInUse) + Here(t, p, CountedInUse)'
      BY AtMoves
    <2>4. Here(t, p, CountedInUse) \in Int /\ Here(t, p, CountedInUse)' \in Int
      BY DEF Here
    <2>5. ASSUME NEW z, z = Cardinality(Using(p)),
                 NEW y, y = Cardinality(At(p, CountedInUse))
          PROVE  useCount'[p] = Cardinality(Using(p)') + Cardinality(At(p, CountedInUse)')
      <3>1. z \in Nat /\ y \in Nat
        BY <1>3, <2>3, <2>5
      <3>2. useCount[p] = z + y
        BY <1>1, <2>5
      <3>3. useCount'[p] = z + y - UsedHere(b, p) + UsedHere(b, p)'
                             - Here(t, p, CountedInUse) + Here(t, p, CountedInUse)'
        BY <1>7, <2>1, <2>4, <3>1, <3>2
      <3>4. /\ Cardinality(Using(p)') = z - UsedHere(b, p) + UsedHere(b, p)'
            /\ Cardinality(At(p, CountedInUse)')
                 = y - Here(t, p, CountedInUse) + Here(t, p, CountedInUse)'
        BY <2>2, <2>3, <2>5
      <3>5. QED
        BY <1>7, <2>4, <3>1, <3>3, <3>4
    <2>6. QED
      BY <2>5
  <1>9. reserveCount'[p] = Len(header'[p]) + Cardinality(At(p, Reusing)')
                           - Cardinality(At(p, OutOfReserve)')
    <2>1. reserveCount'[p] = reserveCount[p] - Len(header[p]) + Len(header'[p])
            - Here(t, p, Reusing) + Here(t, p, Reusing)'
            + Here(t, p, OutOfReserve) - Here(t, p, OutOfReserve)'
      BY <1>6 DEF CountKept
    <2>2. /\ Cardinality(At(p, Reusing)) \in Nat /\ Cardinality(At(p, Reusing)') \in Nat
          /\ Cardinality(At(p, Reusing)') = Cardinality(At(p, Reusing))
               - Here(t, p, Reusing) + Here(t, p, Reusing)'
      BY AtMoves
    <2>3. /\ Cardinality(At(p, OutOfReserve)) \in Nat /\ Cardinality(At(p, OutOfReserve)') \in Nat
          /\ Cardinality(At(p, OutOfReserve)') = Cardinality(At(p, OutOfReserve))
               - Here(t, p, OutOfReserve) + Here(t, p, OutOfReserve)'
      BY AtMoves
    <2>4. /\ Here(t, p, Reusing) \in Int /\ Here(t, p, Reusing)' \in Int
          /\ Here(t, p, OutOfReserve) \in Int /\ Here(t, p, OutOfReserve)' \in Int
      BY DEF Here
    <2>5. reserveCount[p] \in Int /\ reserveCount'[p] \in Int
      BY DEF FieldInv
    <2> DEFINE R == Cardinality(At(p, Reusing))
               O == Cardinality(At(p, OutOfReserve))
               r == Here(t, p, Reusing)
               o == Here(t, p, OutOfReserve)
               L == Len(header[p])
               n == reserveCount[p]
    <2>6. n' = n - L + L' - r + r' + o - o' /\ n = L + R - O
      BY <1>1, <2>1
    <2>7. R' = R - r + r' /\ O' = O - o + o'
      BY <2>2, <2>3
    <2>8. /\ R \in Int /\ R' \in Int /\ O \in Int /\ O' \in Int /\ r \in Int /\ r' \in Int
          /\ o \in Int /\ o' \in Int /\ L \in Int /\ L' \in Int /\ n \in Int /\ n' \in Int
      BY <1>2, <2>2, <2>3, <2>4, <2>5
    <2> HIDE DEF R, O, r, o, L, n
    <2>9. n - L = R - O
      BY <2>6, <2>8
    <2>10. n' = (R - O) + L' - r + r' + o - o'
      BY <2>6, <2>8, <2>9
    <2>11. n' = L' + R' - O'
      BY <2>7, <2>8, <2>10
    <2>12. QED
      BY <2>11 DEF R, O, L, n
  <1>10. QED
    BY <1>8, <1>9

-----------------------------------------------------------------------------
\* What is known of a thread that is in the pools.
LEMMA Working ==
  ASSUME PoolIInv, NEW t \in Threads, op[t].at # "idle"
  PROVE  /\ op[t].size \in DOMAIN PoolOf /\ op[t].size \in Nat /\ op[t].size > 0
         /\ op[t].pool = PoolOf[op[t].size] /\ op[t].pool \in PoolSizes /\ op[t].pool \in Nat
         /\ op[t].block \in Nat /\ Pooled /\ ~Printing
         /\ header[op[t].pool] \in Seq(Nat) /\ InUse \subseteq Blocks
         /\ Carries(t) => /\ op[t].block \in Blocks /\ op[t].block # NoBlock
                          /\ op[t].block \in InHand
                          /\ op[t].block \notin Listed /\ op[t].block \notin InUse
  <1>1. /\ op[t].size \in DOMAIN PoolOf /\ op[t].pool = PoolOf[op[t].size]
        /\ op[t].pool \in PoolSizes
    BY DEF PoolIInv, OpInv
  <1>2. Pooled /\ ~Printing
    BY DEF PoolIInv, PhaseInv, Idle
  <1>3. header[op[t].pool] \in Seq(Nat) /\ op[t].block \in Nat
    BY <1>1 DEF PoolIInv, FieldInv
  <1>4. Carries(t) => op[t].block \in InHand
    BY DEF InHand
  <1>5. InHand \cap Listed = {} /\ InHand \cap InUse = {} /\ InHand \subseteq Blocks
        /\ InUse \subseteq Blocks
    BY DEF PoolIInv, PlaceInv
  <1>6. NoBlock \notin Blocks
    BY DEF NoBlock, Blocks
  <1>7. Carries(t) => /\ op[t].block \in Blocks /\ op[t].block # NoBlock
                      /\ op[t].block \notin Listed /\ op[t].block \notin InUse
    BY <1>4, <1>5, <1>6
  <1>8. op[t].size \in Nat /\ op[t].size > 0 /\ op[t].pool \in Nat
    <2>1. op[t].size \in Nat \ {0} /\ op[t].pool \in Nat \ {0}
      BY <1>1, Zenon
    <2>2. QED
      BY <2>1
  <1>9. QED
    BY <1>1, <1>2, <1>3, <1>4, <1>5, <1>7, <1>8

\* A step of one thread in the pools by which no block changes its place.
InPlace(t) ==
  /\ header' = header /\ objects' = objects /\ Len(made') = Len(made)
  /\ Others(t)
  /\ (Carries(t)' <=> Carries(t)) /\ (Carries(t) => op'[t].block = op[t].block)
LEMMA PlacesStay ==
  ASSUME PoolIInv, FieldInv', NEW t \in Threads, InPlace(t)
  PROVE  PlaceInv' /\ InUse' = InUse
  <1>1. Listed' = Listed /\ ListsApart'
    BY ListsStay DEF InPlace, PoolIInv, PlaceInv
  <1>2. InHand' = InHand /\ HandsApart'
    BY HandStays DEF InPlace, PoolIInv, PlaceInv
  <1>3. InUse' = InUse /\ ObjectsApart'
    BY UseStays DEF InPlace, PoolIInv, PlaceInv
  <1>4. Blocks' = Blocks
    BY DEF InPlace, Blocks
  <1>5. QED
    BY <1>1, <1>2, <1>3, <1>4 DEF PoolIInv, PlaceInv

\* The steps that only count.
CountingStep(t) == PopReuse(t) \/ PopUse(t) \/ PushUnuse(t) \/ PushReserve(t)
LEMMA CountingSteps ==
  ASSUME PoolIInv, NEW t \in Threads, CountingStep(t), UNCHANGED <<test, left, objects>>
  PROVE  PoolIInv'
  <1>1. op[t].at \in {"reuse", "use", "unuse", "reserve"}
    BY DEF CountingStep, PopReuse, PopUse, PushUnuse, PushReserve
  <1>2. /\ op[t].pool \in PoolSizes /\ Pooled /\ ~Printing /\ InUse \subseteq Blocks
        /\ op[t].size \in DOMAIN PoolOf /\ op[t].pool = PoolOf[op[t].size]
    BY <1>1, Working
  <1>3. op \in [Threads -> [at : Steps, pool : Nat, size : Nat, block : Nat]]
    BY DEF PoolIInv, FieldInv
  <1>4. \A u \in Threads \ {t} : op'[u] = op[u]
    BY <1>3 DEF CountingStep, PopReuse, PopUse, PushUnuse, PushReserve, Goto
  <1>5. \/ /\ op[t].at # "reserve" /\ op'[t].pool = op[t].pool /\ op'[t].size = op[t].size
           /\ op'[t].block = op[t].block
           /\ op'[t].at = CASE op[t].at = "reuse" -> "use" [] op[t].at = "use" -> "attach"
                            [] OTHER -> "reserve"
        \/ op[t].at = "reserve" /\ op'[t] = Idle
    BY <1>3 DEF CountingStep, PopReuse, PopUse, PushUnuse, PushReserve, Goto
  <1>6. header' = header /\ made' = made
    BY DEF CountingStep, PopReuse, PopUse, PushUnuse, PushReserve
  <1>7. FieldInv'
    <2>1. op' \in [Threads -> [at : Steps, pool : Nat, size : Nat, block : Nat]]
      BY <1>3 DEF CountingStep, PopReuse, PopUse, PushUnuse, PushReserve, Goto, Steps, Idle, NoBlock
    <2>2. useCount' \in [PoolSizes -> Int] /\ reserveCount' \in [PoolSizes -> Int]
      BY DEF CountingStep, PopReuse, PopUse, PushUnuse, PushReserve, PoolIInv, FieldInv
    <2>3. QED
      BY <1>6, <2>1, <2>2 DEF PoolIInv, FieldInv
  <1>8. OpInv'
    <2>1. Blocks' = Blocks /\ OpInv
      BY <1>6 DEF Blocks, PoolIInv
    <2>2. \A u \in Threads \ {t} : op'[u] = op[u]
      BY <1>4
    <2>3. /\ op'[t].at = "idle" => op'[t] = Idle
          /\ op'[t].at # "idle" => /\ op'[t].size \in DOMAIN PoolOf
                                   /\ op'[t].pool = PoolOf[op'[t].size]
      BY <1>1, <1>2, <1>5 DEF Idle
    <2>4. op'[t].block \in {NoBlock} \cup Blocks
      BY <1>5, <2>1 DEF OpInv, Idle
    <2>5. QED
      BY <2>1, <2>2, <2>3, <2>4 DEF OpInv
  <1>9. PhaseInv'
    BY <1>2 DEF PoolIInv, PhaseInv, Pooled, Printing
  <1>10. InPlace(t)
    BY <1>1, <1>4, <1>5, <1>6 DEF InPlace, Others, Carries, Idle
  <1>11. PlaceInv' /\ InUse' = InUse
    BY <1>7, <1>10, PlacesStay
  <1>12. HeaderInv'
    <2>1. HeaderInv /\ header' = header /\ made' = made /\ objects' = objects
      BY <1>6 DEF PoolIInv
    <2>2. \A u \in Threads : Carries(u)' =>
            /\ Carries(u) /\ op'[u].block = op[u].block /\ op'[u].pool = op[u].pool
            /\ op'[u].at = "clear" <=> op[u].at = "clear"
            /\ op'[u].size = op[u].size
      BY <1>1, <1>4, <1>5 DEF Carries, Idle
    <2>3. ASSUME NEW u \in Threads, Carries(u)'
          PROVE  made'[op'[u].block] = [pool |-> op'[u].pool,
                   allocSize |-> IF op'[u].at = "clear" THEN op'[u].size ELSE 0]
      <3>1. made[op[u].block] = [pool |-> op[u].pool,
              allocSize |-> IF op[u].at = "clear" THEN op[u].size ELSE 0]
        BY <2>1, <2>2, <2>3 DEF HeaderInv
      <3>2. QED
        BY <2>1, <2>2, <2>3, <3>1
    <2>4. \A p \in PoolSizes : \A i \in 1..Len(header'[p]) :
            made'[header'[p][i]] = [pool |-> p, allocSize |-> 0]
      BY <2>1 DEF HeaderInv
    <2>5. \A u \in Threads : \A i \in 1..Len(objects'[u]) :
            objects'[u][i].block # NoBlock =>
              /\ objects'[u][i].size + HeaderSize \in DOMAIN PoolOf
              /\ made'[objects'[u][i].block]
                   = [pool |-> PoolOf[objects'[u][i].size + HeaderSize],
                      allocSize |-> objects'[u][i].size + HeaderSize]
      BY <2>1 DEF HeaderInv, Labelled
    <2>6. QED
      BY <2>3, <2>4, <2>5 DEF HeaderInv, Labelled
  <1>13. CountsBehind(InUse)'
    <2>1. ASSUME NEW p \in PoolSizes PROVE CountKept(t, NoBlock, p)
      <3> DEFINE Member == IF op[t].pool = p THEN 1 ELSE 0
      <3>1. useCount \in [PoolSizes -> Int] /\ reserveCount \in [PoolSizes -> Int]
            /\ Len(header[p]) \in Nat /\ useCount[p] \in Int /\ reserveCount[p] \in Int
        BY DEF PoolIInv, FieldInv
      <3>a. /\ Member \in Int /\ UsedHere(NoBlock, p) \in Int
            /\ UsedHere(NoBlock, p)' = UsedHere(NoBlock, p)
        BY <1>6, <1>11 DEF UsedHere
      <3> HIDE DEF Member
      <3>2. CASE PopReuse(t)
        <4>1. op[t].at = "reuse" /\ op'[t].at = "use" /\ op'[t].pool = op[t].pool
              /\ useCount' = useCount
              /\ reserveCount' = [reserveCount EXCEPT ![op[t].pool] = @ - 1]
          BY <1>5, <3>2 DEF PopReuse
        <4>2. /\ Here(t, p, CountedInUse) = 0 /\ Here(t, p, CountedInUse)' = 0
              /\ Here(t, p, Reusing) = Member /\ Here(t, p, Reusing)' = 0
              /\ Here(t, p, OutOfReserve) = 0 /\ Here(t, p, OutOfReserve)' = 0
          BY <4>1 DEF Here, CountedInUse, Reusing, OutOfReserve, Member
        <4>3. useCount'[p] = useCount[p] /\ reserveCount'[p] = reserveCount[p] - Member
          BY <1>2, <3>1, <4>1 DEF Member
        <4>4. QED
          BY <1>6, <3>1, <3>a, <4>2, <4>3 DEF CountKept
      <3>3. CASE PopUse(t)
        <4>1. op[t].at = "use" /\ op'[t].at = "attach" /\ op'[t].pool = op[t].pool
              /\ useCount' = [useCount EXCEPT ![op[t].pool] = @ + 1]
              /\ reserveCount' = reserveCount
          BY <1>5, <3>3 DEF PopUse
        <4>2. /\ Here(t, p, CountedInUse) = 0 /\ Here(t, p, CountedInUse)' = Member
              /\ Here(t, p, Reusing) = 0 /\ Here(t, p, Reusing)' = 0
              /\ Here(t, p, OutOfReserve) = 0 /\ Here(t, p, OutOfReserve)' = 0
          BY <4>1 DEF Here, CountedInUse, Reusing, OutOfReserve, Member
        <4>3. useCount'[p] = useCount[p] + Member /\ reserveCount'[p] = reserveCount[p]
          BY <1>2, <3>1, <4>1 DEF Member
        <4>4. QED
          BY <1>6, <3>1, <3>a, <4>2, <4>3 DEF CountKept
      <3>4. CASE PushUnuse(t)
        <4>1. op[t].at = "unuse" /\ op'[t].at = "reserve" /\ op'[t].pool = op[t].pool
              /\ useCount' = [useCount EXCEPT ![op[t].pool] = @ - 1]
              /\ reserveCount' = reserveCount
          BY <1>5, <3>4 DEF PushUnuse
        <4>2. /\ Here(t, p, CountedInUse) = Member /\ Here(t, p, CountedInUse)' = 0
              /\ Here(t, p, Reusing) = 0 /\ Here(t, p, Reusing)' = 0
              /\ Here(t, p, OutOfReserve) = Member /\ Here(t, p, OutOfReserve)' = Member
          BY <4>1 DEF Here, CountedInUse, Reusing, OutOfReserve, Member
        <4>3. useCount'[p] = useCount[p] - Member /\ reserveCount'[p] = reserveCount[p]
          BY <1>2, <3>1, <4>1 DEF Member
        <4>4. QED
          BY <1>6, <3>1, <3>a, <4>2, <4>3 DEF CountKept
      <3>5. CASE PushReserve(t)
        <4>1. op[t].at = "reserve" /\ op'[t].at = "idle"
              /\ useCount' = useCount
              /\ reserveCount' = [reserveCount EXCEPT ![op[t].pool] = @ + 1]
          BY <1>5, <3>5 DEF PushReserve, Idle
        <4>2. /\ Here(t, p, CountedInUse) = 0 /\ Here(t, p, CountedInUse)' = 0
              /\ Here(t, p, Reusing) = 0 /\ Here(t, p, Reusing)' = 0
              /\ Here(t, p, OutOfReserve) = Member /\ Here(t, p, OutOfReserve)' = 0
          BY <4>1 DEF Here, CountedInUse, Reusing, OutOfReserve, Member
        <4>3. useCount'[p] = useCount[p] /\ reserveCount'[p] = reserveCount[p] + Member
          BY <1>2, <3>1, <4>1 DEF Member
        <4>4. QED
          BY <1>6, <3>1, <3>a, <4>2, <4>3 DEF CountKept
      <3>6. QED
        BY <3>2, <3>3, <3>4, <3>5 DEF CountingStep
    <2>2. QED
      BY <1>2, <1>6, <1>7, <1>10, <1>11, <2>1, CountStep DEF PoolIInv, InPlace
  <1>14. QED
    BY <1>7, <1>8, <1>9, <1>11, <1>12, <1>13 DEF PoolIInv

\* The counters after a step in place by which no step is counted.
LEMMA CountsStay ==
  ASSUME PoolIInv, FieldInv', NEW t \in Threads, InPlace(t),
         useCount' = useCount, reserveCount' = reserveCount,
         \A c \in InUse : made'[c].pool = made[c].pool,
         \A p \in PoolSizes : \A steps \in {CountedInUse, Reusing, OutOfReserve} :
           Here(t, p, steps)' = Here(t, p, steps)
  PROVE  CountsBehind(InUse)'
  <1>1. InUse' = InUse /\ InUse \subseteq Blocks
    BY PlacesStay DEF PoolIInv, PlaceInv
  <1>2. FieldInv /\ Others(t) /\ header' = header
    BY DEF PoolIInv, InPlace
  <1>3. ASSUME NEW p \in PoolSizes PROVE CountKept(t, NoBlock, p)
    <2>1. /\ UsedHere(NoBlock, p)' = UsedHere(NoBlock, p) /\ UsedHere(NoBlock, p) \in Int
          /\ useCount[p] \in Int /\ reserveCount[p] \in Int /\ Len(header[p]) \in Nat
      <3>1. NoBlock \notin InUse
        BY <1>1 DEF NoBlock, Blocks
      <3>2. QED
        BY <1>1, <1>2, <3>1 DEF UsedHere, FieldInv
    <2>2. \A steps \in {CountedInUse, Reusing, OutOfReserve} :
            Here(t, p, steps)' = Here(t, p, steps) /\ Here(t, p, steps) \in Int
      <3>1. \A steps : Here(t, p, steps) \in Int
        BY DEF Here
      <3>2. QED
        BY <3>1
    <2> HIDE MemoryPoolAssumption, PoolExperimentAssumption
    <2>3. QED
      BY <1>2, <2>1, <2>2 DEF CountKept
  <1>4. QED
    BY <1>1, <1>2, <1>3, CountStep DEF PoolIInv

\* Allocate, and the pop that finds its list empty: the thread goes on.
PopsNone(t) == op[t].at = "pop" /\ header[op[t].pool] = <<>> /\ PopEntry(t)
LEMMA GoesOn ==
  ASSUME PoolIInv, NEW t \in Threads, FieldInv', ~Printing, Pooled, test' = test,
         objects' = objects, UNCHANGED <<header, useCount, reserveCount, made>>,
         \A u \in Threads \ {t} : op'[u] = op[u],
         op[t].at \in {"idle", "pop"}, op'[t].at \in {"pop", "make"},
         op'[t].size \in DOMAIN PoolOf, op'[t].pool = PoolOf[op'[t].size],
         op'[t].block \in {NoBlock} \cup Blocks
  PROVE  PoolIInv'
  <1>1. OpInv'
    BY DEF PoolIInv, OpInv, Blocks
  <1>2. PhaseInv'
    BY DEF PoolIInv, PhaseInv, Pooled, Printing
  <1>3. InPlace(t)
    BY DEF InPlace, Others, Carries
  <1>4. PlaceInv'
    BY <1>3, PlacesStay
  <1>5. HeaderInv'
    <2>1. \A u \in Threads : Carries(u)' => u # t /\ Carries(u) /\ op'[u] = op[u]
      BY DEF Carries
    <2>2. HeaderInv
      BY DEF PoolIInv
    <2>3. QED
      BY <2>1, <2>2 DEF HeaderInv, Labelled
  <1>6. CountsBehind(InUse)'
    <2>1. \A p \in PoolSizes : \A steps \in {CountedInUse, Reusing, OutOfReserve} :
            Here(t, p, steps)' = Here(t, p, steps)
      BY DEF Here, CountedInUse, Reusing, OutOfReserve
    <2>2. QED
      BY <1>3, <2>1, CountsStay
  <1>7. QED
    BY <1>1, <1>2, <1>4, <1>5, <1>6 DEF PoolIInv

LEMMA PopsNoneStep ==
  ASSUME PoolIInv, NEW t \in Threads, PopsNone(t), UNCHANGED <<test, left, objects>>
  PROVE  PoolIInv'
  <1>1. /\ op[t].at = "pop" /\ op' = [op EXCEPT ![t].at = "make"]
        /\ UNCHANGED <<header, useCount, reserveCount, made>>
    BY DEF PopsNone, PopEntry, Goto
  <1>2. /\ op[t].size \in DOMAIN PoolOf /\ op[t].pool = PoolOf[op[t].size]
        /\ Pooled /\ ~Printing
    BY <1>1, Working
  <1>3. op \in [Threads -> [at : Steps, pool : Nat, size : Nat, block : Nat]]
    BY DEF PoolIInv, FieldInv
  <1>4. FieldInv'
    <2>1. op' \in [Threads -> [at : Steps, pool : Nat, size : Nat, block : Nat]]
      BY <1>1, <1>3 DEF Steps
    <2>2. QED
      BY <1>1, <2>1 DEF PoolIInv, FieldInv
  <1>5. /\ \A u \in Threads \ {t} : op'[u] = op[u]
        /\ op'[t].at = "make" /\ op'[t].size = op[t].size /\ op'[t].pool = op[t].pool
        /\ op'[t].block = op[t].block
    BY <1>1, <1>3
  <1>6. op[t].block \in {NoBlock} \cup Blocks
    BY DEF PoolIInv, OpInv
  <1>7. QED
    BY <1>1, <1>2, <1>4, <1>5, <1>6, GoesOn

\* The running test plans sizes that the pools serve.
LEMMA Planning ==
  ASSUME FieldInv, ~Printing
  PROVE  Test \in Planned /\ test \in 1..Tests
  <1>1. test \in 1..Tests
    BY PlanType DEF FieldInv, Printing
  <1>2. QED
    BY <1>1, TestType DEF Test

LEMMA XnewStep ==
  ASSUME PoolIInv, NEW t \in Threads, Xnew(t)
  PROVE  PoolIInv'
  <1>1. PICK n \in Test.sizes : Allocate(t, n + HeaderSize)
    BY DEF Xnew
  <1>2. /\ op[t] = Idle
        /\ op' = [op EXCEPT ![t] = [at |-> "pop", pool |-> PoolOf[n + HeaderSize],
                                    size |-> n + HeaderSize, block |-> NoBlock]]
        /\ UNCHANGED <<header, useCount, reserveCount, made>>
    BY <1>1 DEF Allocate
  <1>3. ~Printing /\ Pooled /\ left[t] > 0 /\ left' = [left EXCEPT ![t] = @ - 1]
        /\ UNCHANGED <<test, objects>>
    BY DEF Xnew, Runs, MayMake, Iterate
  <1>4. n + HeaderSize \in DOMAIN PoolOf
    <2>1. n \in ObjectSizes
      BY <1>3, Planning DEF PoolIInv, Planned
    <2>2. QED
      BY <2>1
  <1>5. n + HeaderSize \in Nat /\ PoolOf[n + HeaderSize] \in Nat
    BY <1>4
  <1>6. op \in [Threads -> [at : Steps, pool : Nat, size : Nat, block : Nat]]
    BY DEF PoolIInv, FieldInv
  <1>7. FieldInv'
    <2>1. op' \in [Threads -> [at : Steps, pool : Nat, size : Nat, block : Nat]]
      BY <1>2, <1>5, <1>6 DEF Steps, NoBlock
    <2>2. left' \in [Threads -> 0..Iterations + ThreadIterations + StressIterations]
      BY <1>3 DEF PoolIInv, FieldInv
    <2>3. QED
      BY <1>2, <1>3, <2>1, <2>2 DEF PoolIInv, FieldInv
  <1>8. /\ \A u \in Threads \ {t} : op'[u] = op[u]
        /\ op'[t] = [at |-> "pop", pool |-> PoolOf[n + HeaderSize],
                     size |-> n + HeaderSize, block |-> NoBlock]
    BY <1>2, <1>6
  <1>9. op[t].at = "idle"
    BY <1>2 DEF Idle
  <1>10. QED
    BY <1>2, <1>3, <1>4, <1>7, <1>8, <1>9, GoesOn

\* A size is written into the header of a block.
LEMMA SizeIsSet ==
  ASSUME made \in Seq([pool : PoolSizes, allocSize : Nat]), NEW b \in Blocks, NEW size \in Nat,
         made' = [made EXCEPT ![b].allocSize = size]
  PROVE  /\ made' \in Seq([pool : PoolSizes, allocSize : Nat]) /\ Len(made') = Len(made)
         /\ \A c \in Blocks \ {b} : made'[c] = made[c]
         /\ made'[b] = [pool |-> made[b].pool, allocSize |-> size]
  <1> DEFINE H == [pool : PoolSizes, allocSize : Nat]
  <1>0. b \in 1..Len(made)
    BY DEF Blocks
  <1>1. made[b] \in H
    <2> HIDE DEF H
    <2>1. made \in Seq(H)
      BY DEF H
    <2>2. QED
      BY <1>0, <2>1
  <1>2. [made[b] EXCEPT !.allocSize = size] = [pool |-> made[b].pool, allocSize |-> size]
    <2>1. \A h \in H : [h EXCEPT !.allocSize = size] = [pool |-> h.pool, allocSize |-> size]
      OBVIOUS
    <2> HIDE DEF H
    <2>2. QED
      BY <1>1, <2>1
  <1>3. made' = [made EXCEPT ![b] = [pool |-> made[b].pool, allocSize |-> size]]
    BY <1>2
  <1>4. [pool |-> made[b].pool, allocSize |-> size] \in [pool : PoolSizes, allocSize : Nat]
    BY <1>1
  <1>5. /\ made' \in Seq(H) /\ Len(made') = Len(made)
        /\ \A c \in 1..Len(made) : c # b => made'[c] = made[c]
        /\ made'[b] = [pool |-> made[b].pool, allocSize |-> size]
    <2> DEFINE r == [pool |-> made[b].pool, allocSize |-> size]
    <2>1. made' = [made EXCEPT ![b] = r] /\ r \in H /\ made \in Seq(H)
      BY <1>3, <1>4
    <2> HIDE DEF H, r
    <2>2. ASSUME NEW s, s = [made EXCEPT ![b] = r]
          PROVE  /\ s \in Seq(H) /\ Len(s) = Len(made)
                 /\ \A c \in 1..Len(made) : s[c] = IF c = b THEN r ELSE made[c]
      <3> HIDE MemoryPoolAssumption, PoolExperimentAssumption
      <3>1. s \in Seq(H) /\ Len(s) = Len(made)
        BY <1>0, <2>1, <2>2, ExceptSeq
      <3>2. ASSUME NEW c \in 1..Len(made)
            PROVE  s[c] = IF c = b THEN r ELSE made[c]
        BY <1>0, <2>1, <2>2, ExceptSeq
      <3>3. QED
        BY <3>1, <3>2
    <2>3. QED
      BY <1>0, <2>1, <2>2 DEF H, r
  <1>6. QED
    BY <1>5 DEF Blocks

\* PushClear: the size is taken out of the header.
LEMMA ClearStep ==
  ASSUME PoolIInv, NEW t \in Threads, PushClear(t), UNCHANGED <<test, left, objects>>
  PROVE  PoolIInv'
  <1>1. /\ op[t].at = "clear" /\ op' = [op EXCEPT ![t].at = "push"]
        /\ made' = [made EXCEPT ![op[t].block].allocSize = 0]
        /\ UNCHANGED <<header, useCount, reserveCount>>
    BY DEF PushClear, Goto
  <1>2. /\ op[t].size \in DOMAIN PoolOf /\ op[t].pool = PoolOf[op[t].size]
        /\ Pooled /\ ~Printing /\ Carries(t) /\ op[t].block \in Blocks
        /\ op[t].block \notin Listed /\ op[t].block \notin InUse
    BY <1>1, Working DEF Carries
  <1>3. /\ op \in [Threads -> [at : Steps, pool : Nat, size : Nat, block : Nat]]
        /\ made \in Seq([pool : PoolSizes, allocSize : Nat])
    BY DEF PoolIInv, FieldInv
  <1>4. /\ made' \in Seq([pool : PoolSizes, allocSize : Nat]) /\ Len(made') = Len(made)
        /\ \A c \in Blocks \ {op[t].block} : made'[c] = made[c]
        /\ made'[op[t].block] = [pool |-> made[op[t].block].pool, allocSize |-> 0]
    BY <1>1, <1>2, <1>3, SizeIsSet
  <1>5. /\ \A u \in Threads \ {t} : op'[u] = op[u]
        /\ op'[t].at = "push" /\ op'[t].size = op[t].size /\ op'[t].pool = op[t].pool
        /\ op'[t].block = op[t].block
    BY <1>1, <1>3
  <1>6. FieldInv'
    <2>1. op' \in [Threads -> [at : Steps, pool : Nat, size : Nat, block : Nat]]
      BY <1>1, <1>3, SMTT(20) DEF Steps
    <2>2. QED
      BY <1>1, <1>4, <2>1 DEF PoolIInv, FieldInv
  <1>7. OpInv'
    <2>1. Blocks' = Blocks /\ OpInv
      BY <1>4 DEF Blocks, PoolIInv
    <2>2. QED
      BY <1>2, <1>5, <2>1 DEF OpInv
  <1>8. PhaseInv'
    BY <1>2 DEF PoolIInv, PhaseInv, Pooled, Printing
  <1>9. InPlace(t)
    BY <1>1, <1>4, <1>5 DEF InPlace, Others, Carries
  <1>10. PlaceInv'
    BY <1>6, <1>9, PlacesStay
  <1>11. HeaderInv'
    <2>1. \A p \in PoolSizes : \A i \in 1..Len(header[p]) :
            made'[header[p][i]] = [pool |-> p, allocSize |-> 0]
      <3> SUFFICES ASSUME NEW p \in PoolSizes, NEW i \in 1..Len(header[p])
                   PROVE  made'[header[p][i]] = [pool |-> p, allocSize |-> 0]
        OBVIOUS
      <3>1. header[p][i] \in Listed /\ Listed \subseteq Blocks
        BY Members DEF PoolIInv, PlaceInv
      <3>2. QED
        BY <1>2, <1>4, <3>1 DEF PoolIInv, HeaderInv
    <2>2. \A u \in Threads : Carries(u)' =>
            made'[op'[u].block] = [pool |-> op'[u].pool,
                                   allocSize |-> IF op'[u].at = "clear" THEN op'[u].size ELSE 0]
      <3>0. made[op[t].block] = [pool |-> op[t].pool, allocSize |-> op[t].size]
        BY <1>1, <1>2 DEF PoolIInv, HeaderInv
      <3>1. made[op[t].block].pool = op[t].pool
        BY <3>0
      <3>2. ASSUME NEW u \in Threads, u # t, Carries(u)
            PROVE  op[u].block \in Blocks \ {op[t].block}
        <4>1. op[u].block \in InHand /\ InHand \subseteq Blocks
          BY <3>2 DEF InHand, PoolIInv, PlaceInv
        <4>2. op[u].block # op[t].block
          BY <1>2, <3>2 DEF PoolIInv, PlaceInv, HandsApart
        <4>3. QED
          BY <4>1, <4>2
      <3>3. \A u \in Threads \ {t} : Carries(u)' => Carries(u)
        BY <1>5 DEF Carries
      <3>4. QED
        BY <1>4, <1>5, <3>1, <3>2, <3>3 DEF PoolIInv, HeaderInv
    <2>3. \A u \in Threads : \A i \in 1..Len(objects[u]) :
            objects[u][i].block # NoBlock => Labelled(objects[u][i])'
      <3> SUFFICES ASSUME NEW u \in Threads, NEW i \in 1..Len(objects[u]),
                          objects[u][i].block # NoBlock
                   PROVE  Labelled(objects[u][i])'
        OBVIOUS
      <3>1. objects[u][i].block \in InUse /\ InUse \subseteq Blocks
        BY Used DEF PoolIInv, InUseMembers, PlaceInv
      <3>2. Labelled(objects[u][i])
        BY DEF PoolIInv, HeaderInv
      <3>3. QED
        BY <1>2, <1>4, <3>1, <3>2 DEF Labelled
    <2>4. QED
      BY <1>1, <2>1, <2>2, <2>3 DEF HeaderInv
  <1>12. CountsBehind(InUse)'
    <2>1. \A p \in PoolSizes : \A steps \in {CountedInUse, Reusing, OutOfReserve} :
            Here(t, p, steps)' = Here(t, p, steps)
      BY <1>1, <1>5 DEF Here, CountedInUse, Reusing, OutOfReserve
    <2>2. \A c \in InUse : made'[c].pool = made[c].pool
      BY <1>2, <1>4 DEF PoolIInv, PlaceInv
    <2>3. QED
      BY <1>1, <1>6, <1>9, <2>1, <2>2, CountsStay
  <1>13. QED
    BY <1>6, <1>7, <1>8, <1>10, <1>11, <1>12 DEF PoolIInv

\* Counting: these terms are integers.
LEMMA CountTerms ==
  ASSUME FieldInv, NEW t \in Threads, NEW b, NEW p \in PoolSizes
  PROVE  /\ useCount[p] \in Int /\ reserveCount[p] \in Int /\ Len(header[p]) \in Nat
         /\ UsedHere(b, p) \in Int /\ Here(t, p, CountedInUse) \in Int
         /\ Here(t, p, Reusing) \in Int /\ Here(t, p, OutOfReserve) \in Int
  BY DEF FieldInv, UsedHere, Here

\* The pop that finds a block in its list takes it.
PopsBlock(t) == op[t].at = "pop" /\ header[op[t].pool] # <<>> /\ PopEntry(t)
LEMMA PopsBlockStep ==
  ASSUME PoolIInv, NEW t \in Threads, PopsBlock(t), UNCHANGED <<test, left, objects>>
  PROVE  PoolIInv'
  <1> DEFINE q == op[t].pool
             h == Head(header[q])
  <1>1. /\ op[t].at = "pop" /\ header[q] # <<>>
        /\ op' = [op EXCEPT ![t].block = h, ![t].at = "reuse"]
        /\ header' = [header EXCEPT ![q] = Tail(@)]
        /\ UNCHANGED <<useCount, reserveCount, made>>
    BY DEF PopsBlock, PopEntry
  <1>2. /\ op[t].size \in DOMAIN PoolOf /\ q = PoolOf[op[t].size] /\ q \in PoolSizes
        /\ Pooled /\ ~Printing /\ InUse \subseteq Blocks /\ header[q] \in Seq(Nat)
    BY <1>1, Working
  <1>3. /\ op \in [Threads -> [at : Steps, pool : Nat, size : Nat, block : Nat]]
        /\ header \in [PoolSizes -> Seq(Nat)]
    BY DEF PoolIInv, FieldInv
  <1>4. /\ h = header[q][1] /\ 1 \in 1..Len(header[q]) /\ h \in Nat
        /\ Tail(header[q]) \in Seq(Nat) /\ Len(Tail(header[q])) = Len(header[q]) - 1
        /\ \A i \in 1..Len(header[q]) - 1 : Tail(header[q])[i] = header[q][i + 1]
    <2>1. ASSUME NEW s \in Seq(Nat), s # <<>>
          PROVE  /\ Head(s) = s[1] /\ 1 \in 1..Len(s) /\ s[1] \in Nat
                 /\ Tail(s) \in Seq(Nat) /\ Len(Tail(s)) = Len(s) - 1
                 /\ \A i \in 1..Len(s) - 1 : Tail(s)[i] = s[i + 1]
      <3> HIDE MemoryPoolAssumption, PoolExperimentAssumption
      <3>1. Len(s) \in Nat \ {0}
        BY <2>1
      <3>2. QED
        BY <2>1, <3>1, HeadTailProperties
    <2>2. QED
      BY <1>1, <1>2, <2>1
  <1>5. /\ \A p \in PoolSizes \ {q} : header'[p] = header[p]
        /\ header'[q] = Tail(header[q])
    BY <1>1, <1>2, <1>3
  <1> HIDE DEF h
  <1>6. /\ \A u \in Threads \ {t} : op'[u] = op[u]
        /\ op'[t].at = "reuse" /\ op'[t].size = op[t].size /\ op'[t].pool = q
        /\ op'[t].block = h
    BY <1>1, <1>3
  <1>7. FieldInv'
    <2>1. op' \in [Threads -> [at : Steps, pool : Nat, size : Nat, block : Nat]]
      <3>1. [op[t] EXCEPT !.block = h, !.at = "reuse"]
              \in [at : Steps, pool : Nat, size : Nat, block : Nat]
        <4>1. op[t] \in [at : Steps, pool : Nat, size : Nat, block : Nat] /\ h \in Nat
          BY <1>3, <1>4
        <4>2. ASSUME NEW r \in [at : Steps, pool : Nat, size : Nat, block : Nat], NEW c \in Nat
              PROVE  [r EXCEPT !.block = c, !.at = "reuse"]
                       \in [at : Steps, pool : Nat, size : Nat, block : Nat]
          BY DEF Steps
        <4> HIDE DEF h
        <4>3. QED
          BY <4>1, <4>2
      <3>2. op' = [op EXCEPT ![t] = [op[t] EXCEPT !.block = h, !.at = "reuse"]]
        BY <1>1, <1>3
      <3>3. QED
        BY <1>3, <3>1, <3>2
    <2>2. header' \in [PoolSizes -> Seq(Nat)]
      BY <1>1, <1>3, <1>4
    <2>3. QED
      BY <1>1, <2>1, <2>2 DEF PoolIInv, FieldInv
  <1>8. Listed' = Listed \ {h} /\ h \in Listed /\ ListsApart'
    BY <1>1, <1>2, <1>7, ListGives DEF PoolIInv, PlaceInv, h
  <1>9. InHand' = InHand \cup {h} /\ HandsApart'
    <2>1. Others(t) /\ ~Carries(t) /\ Carries(t)'
      BY <1>1, <1>6 DEF Others, Carries
    <2>2. h \notin InHand
      BY <1>8 DEF PoolIInv, PlaceInv
    <2>3. QED
      BY <1>6, <1>7, <2>1, <2>2, HandTakes DEF PoolIInv, PlaceInv
  <1>10. InUse' = InUse /\ ObjectsApart' /\ Blocks' = Blocks
    BY <1>1, UseStays DEF PoolIInv, PlaceInv, Blocks
  <1>11. PlaceInv'
    BY <1>8, <1>9, <1>10 DEF PoolIInv, PlaceInv
  <1>12. OpInv'
    <2>1. h \in Blocks
      BY <1>8 DEF PoolIInv, PlaceInv
    <2>2. QED
      BY <1>2, <1>6, <1>10, <2>1 DEF PoolIInv, OpInv
  <1>13. PhaseInv'
    BY <1>2 DEF PoolIInv, PhaseInv, Pooled, Printing
  <1>14. HeaderInv'
    <2>1. ASSUME NEW p \in PoolSizes, NEW i \in 1..Len(header'[p])
          PROVE  made[header'[p][i]] = [pool |-> p, allocSize |-> 0]
      <3>1. CASE p = q
        <4>1. i \in 1..Len(header[q]) - 1
          BY <1>4, <1>5, <2>1, <3>1
        <4>2. i + 1 \in 1..Len(header[q])
          BY <1>2, <4>1
        <4>3. header'[p][i] = header[q][i + 1]
          BY <1>4, <1>5, <3>1, <4>1
        <4>4. QED
          BY <1>2, <3>1, <4>2, <4>3 DEF PoolIInv, HeaderInv
      <3>2. CASE p # q
        BY <1>5, <2>1, <3>2 DEF PoolIInv, HeaderInv
      <3>3. QED
        BY <3>1, <3>2
    <2>2. \A u \in Threads : Carries(u)' =>
            made[op'[u].block] = [pool |-> op'[u].pool,
                                  allocSize |-> IF op'[u].at = "clear" THEN op'[u].size ELSE 0]
      <3>1. made[h] = [pool |-> q, allocSize |-> 0]
        BY <1>2, <1>4 DEF PoolIInv, HeaderInv
      <3>2. \A u \in Threads \ {t} : Carries(u)' => Carries(u)
        BY <1>6 DEF Carries
      <3>3. QED
        BY <1>6, <3>1, <3>2 DEF PoolIInv, HeaderInv
    <2>3. QED
      BY <1>1, <2>1, <2>2, ZenonT(30) DEF PoolIInv, HeaderInv, Labelled
  <1>15. CountsBehind(InUse)'
    <2>1. ASSUME NEW p \in PoolSizes PROVE CountKept(t, NoBlock, p)
      <3> DEFINE Member == IF q = p THEN 1 ELSE 0
      <3>1. UsedHere(NoBlock, p)' = UsedHere(NoBlock, p)
        BY <1>1, <1>10 DEF UsedHere
      <3>2. /\ Here(t, p, CountedInUse) = 0 /\ Here(t, p, CountedInUse)' = 0
            /\ Here(t, p, Reusing) = 0 /\ Here(t, p, Reusing)' = Member
            /\ Here(t, p, OutOfReserve) = 0 /\ Here(t, p, OutOfReserve)' = 0
        BY <1>1, <1>6 DEF Here, CountedInUse, Reusing, OutOfReserve
      <3>3. Len(header'[p]) = Len(header[p]) - Member /\ Member \in Int
        <4>1. Len(header[p]) \in Nat
          BY CountTerms DEF PoolIInv
        <4>2. CASE q = p
          <5>1. Len(header'[q]) = Len(header[q]) - 1
            BY <1>4, <1>5
          <5>2. Member = 1
            BY <4>2
          <5> HIDE DEF Member
          <5>3. QED
            BY <4>2, <5>1, <5>2
        <4>3. CASE q # p
          BY <1>5, <4>1, <4>3
        <4>4. QED
          BY <4>2, <4>3
      <3>4. /\ useCount[p] \in Int /\ reserveCount[p] \in Int /\ Len(header[p]) \in Nat
            /\ UsedHere(NoBlock, p) \in Int
        BY CountTerms DEF PoolIInv
      <3> HIDE DEF Member
      <3> HIDE MemoryPoolAssumption, PoolExperimentAssumption
      <3>5. QED
        BY <1>1, <3>1, <3>2, <3>3, <3>4 DEF CountKept
    <2>2. Others(t)
      BY <1>6 DEF Others
    <2>3. QED
      BY <1>1, <1>2, <1>7, <1>10, <2>1, <2>2, CountStep DEF PoolIInv
  <1>16. QED
    BY <1>7, <1>11, <1>12, <1>13, <1>14, <1>15 DEF PoolIInv

\* PopMake: a new block is made.
LEMMA MakeStep ==
  ASSUME PoolIInv, NEW t \in Threads, PopMake(t), UNCHANGED <<test, left, objects>>
  PROVE  PoolIInv'
  <1> DEFINE q == op[t].pool
             x == [pool |-> q, allocSize |-> 0]
             H == [pool : PoolSizes, allocSize : Nat]
  <1>0. PICK b \in Nat : b = Len(made) + 1
    <2>1. Len(made) \in Nat
      BY DEF PoolIInv, FieldInv
    <2>2. QED
      BY <2>1
  <1>1. /\ op[t].at = "make" /\ Len(made) < MaxBlocks /\ made' = Append(made, x)
        /\ op' = [op EXCEPT ![t].block = Len(made'), ![t].at = "use"]
        /\ UNCHANGED <<header, useCount, reserveCount>>
    BY DEF PopMake
  <1>2. /\ op[t].size \in DOMAIN PoolOf /\ q = PoolOf[op[t].size] /\ q \in PoolSizes
        /\ Pooled /\ ~Printing /\ InUse \subseteq Blocks
    BY <1>1, Working
  <1>3. /\ op \in [Threads -> [at : Steps, pool : Nat, size : Nat, block : Nat]]
        /\ made \in Seq(H) /\ Len(made) \in Nat
    BY DEF PoolIInv, FieldInv
  <1>4. /\ made' \in Seq(H) /\ Len(made') = b /\ made'[b] = x
        /\ \A c \in 1..Len(made) : made'[c] = made[c]
    <2>1. x \in H
      BY <1>2
    <2> HIDE DEF x, H
    <2>2. QED
      BY <1>0, <1>1, <1>3, <2>1, AppendProperties
  <1>5. b \in Nat /\ b \notin Blocks /\ Blocks' = Blocks \cup {b}
    BY <1>0, <1>3, <1>4 DEF Blocks
  <1>6. \A c \in Blocks : made'[c] = made[c]
    BY <1>4 DEF Blocks
  <1>7. /\ \A u \in Threads \ {t} : op'[u] = op[u]
        /\ op'[t].at = "use" /\ op'[t].size = op[t].size /\ op'[t].pool = q
        /\ op'[t].block = b
    BY <1>1, <1>3, <1>4
  <1>8. FieldInv'
    <2>1. op' \in [Threads -> [at : Steps, pool : Nat, size : Nat, block : Nat]]
      <3>1. [op[t] EXCEPT !.block = b, !.at = "use"]
              \in [at : Steps, pool : Nat, size : Nat, block : Nat]
        <4>1. op[t] \in [at : Steps, pool : Nat, size : Nat, block : Nat] /\ b \in Nat
          BY <1>3, <1>4, <1>5
        <4>2. ASSUME NEW r \in [at : Steps, pool : Nat, size : Nat, block : Nat], NEW c \in Nat
              PROVE  [r EXCEPT !.block = c, !.at = "use"]
                       \in [at : Steps, pool : Nat, size : Nat, block : Nat]
          BY DEF Steps
        <4>3. QED
          BY <4>1, <4>2
      <3>2. op' = [op EXCEPT ![t] = [op[t] EXCEPT !.block = b, !.at = "use"]]
        BY <1>1, <1>3, <1>4
      <3>3. QED
        BY <1>3, <3>1, <3>2
    <2>2. Len(made') <= MaxBlocks
      BY <1>0, <1>1, <1>3, <1>4
    <2>3. QED
      BY <1>1, <1>4, <2>1, <2>2 DEF PoolIInv, FieldInv
  <1>9. Listed' = Listed /\ ListsApart' /\ InUse' = InUse /\ ObjectsApart'
    BY <1>1, ListsStay, UseStays DEF PoolIInv, PlaceInv
  <1>10. InHand' = InHand \cup {b} /\ HandsApart'
    <2>1. Others(t) /\ ~Carries(t) /\ Carries(t)'
      BY <1>1, <1>7 DEF Others, Carries
    <2>2. b \notin InHand
      BY <1>5 DEF PoolIInv, PlaceInv
    <2>3. QED
      BY <1>7, <1>8, <2>1, <2>2, HandTakes DEF PoolIInv, PlaceInv
  <1>11. PlaceInv'
    BY <1>5, <1>9, <1>10 DEF PoolIInv, PlaceInv
  <1>12. OpInv'
    BY <1>2, <1>5, <1>7 DEF PoolIInv, OpInv
  <1>13. PhaseInv'
    BY <1>2 DEF PoolIInv, PhaseInv, Pooled, Printing
  <1>14. HeaderInv'
    <2>1. ASSUME NEW p \in PoolSizes, NEW i \in 1..Len(header[p])
          PROVE  made'[header[p][i]] = [pool |-> p, allocSize |-> 0]
      <3>1. header[p][i] \in Blocks
        BY Members DEF PoolIInv, PlaceInv
      <3>2. QED
        BY <1>6, <3>1 DEF PoolIInv, HeaderInv
    <2>2. \A u \in Threads : Carries(u)' =>
            made'[op'[u].block] = [pool |-> op'[u].pool,
                                   allocSize |-> IF op'[u].at = "clear" THEN op'[u].size ELSE 0]
      <3>1. \A u \in Threads \ {t} : Carries(u)' => Carries(u) /\ op[u].block \in Blocks
        BY <1>7 DEF Carries, InHand, PoolIInv, PlaceInv
      <3>2. QED
        BY <1>4, <1>6, <1>7, <3>1 DEF PoolIInv, HeaderInv
    <2>3. ASSUME NEW u \in Threads, NEW i \in 1..Len(objects[u]), objects[u][i].block # NoBlock
          PROVE  Labelled(objects[u][i])'
      <3>1. objects[u][i].block \in Blocks
        BY <2>3, Used DEF PoolIInv, InUseMembers, PlaceInv
      <3>2. Labelled(objects[u][i])
        BY <2>3 DEF PoolIInv, HeaderInv
      <3>3. QED
        BY <1>6, <3>1, <3>2 DEF Labelled
    <2>4. QED
      BY <1>1, <2>1, <2>2, <2>3 DEF HeaderInv
  <1>15. CountsBehind(InUse)'
    <2>1. ASSUME NEW p \in PoolSizes PROVE CountKept(t, b, p)
      <3>1. UsedHere(b, p) = 0 /\ UsedHere(b, p)' = 0
        BY <1>2, <1>5, <1>9 DEF UsedHere
      <3>2. /\ Here(t, p, CountedInUse) = 0 /\ Here(t, p, CountedInUse)' = 0
            /\ Here(t, p, Reusing) = 0 /\ Here(t, p, Reusing)' = 0
            /\ Here(t, p, OutOfReserve) = 0 /\ Here(t, p, OutOfReserve)' = 0
        BY <1>1, <1>7 DEF Here, CountedInUse, Reusing, OutOfReserve
      <3>3. /\ useCount[p] \in Int /\ reserveCount[p] \in Int /\ Len(header[p]) \in Nat
        BY CountTerms DEF PoolIInv
      <3> HIDE MemoryPoolAssumption, PoolExperimentAssumption
      <3>4. QED
        BY <1>1, <3>1, <3>2, <3>3 DEF CountKept
    <2>2. Others(t)
      BY <1>7 DEF Others
    <2>3. \A c \in InUse \ {b} : made'[c].pool = made[c].pool
      BY <1>2, <1>6
    <2>4. QED
      BY <1>2, <1>8, <1>9, <2>1, <2>2, <2>3, CountStep DEF PoolIInv
  <1>16. QED
    BY <1>8, <1>11, <1>12, <1>13, <1>14, <1>15 DEF PoolIInv

\* PushEntry: the block goes back into its list.
LEMMA PushStep ==
  ASSUME PoolIInv, NEW t \in Threads, PushEntry(t), UNCHANGED <<test, left, objects>>
  PROVE  PoolIInv'
  <1> DEFINE q == op[t].pool
  <1>0. PICK b \in Nat : b = op[t].block
    BY DEF PoolIInv, FieldInv
  <1>1. /\ op[t].at = "push" /\ op' = [op EXCEPT ![t].at = "unuse"]
        /\ header' = [header EXCEPT ![q] = <<b>> \o @]
        /\ UNCHANGED <<useCount, reserveCount, made>>
    BY <1>0 DEF PushEntry, Goto
  <1>2. /\ op[t].size \in DOMAIN PoolOf /\ q = PoolOf[op[t].size] /\ q \in PoolSizes
        /\ Pooled /\ ~Printing /\ InUse \subseteq Blocks /\ Carries(t) /\ b \in Nat
        /\ b \in Blocks /\ b \in InHand /\ b \notin Listed /\ b \notin InUse
    BY <1>0, <1>1, Working DEF Carries
  <1>3. /\ op \in [Threads -> [at : Steps, pool : Nat, size : Nat, block : Nat]]
        /\ header \in [PoolSizes -> Seq(Nat)]
    BY DEF PoolIInv, FieldInv
  <1>4. /\ \A u \in Threads \ {t} : op'[u] = op[u]
        /\ op'[t].at = "unuse" /\ op'[t].size = op[t].size /\ op'[t].pool = q
        /\ op'[t].block = b
    BY <1>0, <1>1, <1>3
  <1>5. /\ \A p \in PoolSizes \ {q} : header'[p] = header[p]
        /\ header'[q] = <<b>> \o header[q]
    BY <1>1, <1>2, <1>3
  <1>6. header[q] \in Seq(Nat) /\ <<b>> \in Seq(Nat) /\ Len(<<b>>) = 1 /\ <<b>>[1] = b
    BY <1>2, <1>3
  <1>7. /\ header'[q] \in Seq(Nat) /\ Len(header'[q]) = Len(header[q]) + 1
        /\ header'[q][1] = b
        /\ \A i \in 2..Len(header'[q]) : i - 1 \in 1..Len(header[q])
                                         /\ header'[q][i] = header[q][i - 1]
    BY <1>5, <1>6, ConcatProperties
  <1>8. FieldInv'
    <2>1. op' \in [Threads -> [at : Steps, pool : Nat, size : Nat, block : Nat]]
      BY <1>1, <1>3 DEF Steps
    <2>2. header' \in [PoolSizes -> Seq(Nat)]
      BY <1>1, <1>3, <1>5, <1>7
    <2>3. QED
      BY <1>1, <2>1, <2>2 DEF PoolIInv, FieldInv
  <1>9. Listed' = Listed \cup {b} /\ ListsApart'
    BY <1>1, <1>2, <1>8, ListTakes DEF PoolIInv, PlaceInv
  <1>10. InHand' = InHand \ {b} /\ HandsApart'
    <2>1. Others(t) /\ ~Carries(t)'
      BY <1>1, <1>4 DEF Others, Carries
    <2>2. QED
      BY <1>0, <1>2, <1>8, <2>1, HandGives DEF PoolIInv, PlaceInv
  <1>11. InUse' = InUse /\ ObjectsApart' /\ Blocks' = Blocks
    BY <1>1, UseStays DEF PoolIInv, PlaceInv, Blocks
  <1>12. PlaceInv'
    BY <1>2, <1>9, <1>10, <1>11 DEF PoolIInv, PlaceInv
  <1>13. OpInv'
    BY <1>2, <1>4, <1>11 DEF PoolIInv, OpInv
  <1>14. PhaseInv'
    BY <1>2 DEF PoolIInv, PhaseInv, Pooled, Printing
  <1>15. HeaderInv'
    <2>1. made[b] = [pool |-> q, allocSize |-> 0]
      BY <1>0, <1>1, <1>2 DEF PoolIInv, HeaderInv
    <2>2. ASSUME NEW p \in PoolSizes, NEW i \in 1..Len(header'[p])
          PROVE  made[header'[p][i]] = [pool |-> p, allocSize |-> 0]
      <3>1. CASE p = q /\ i = 1
        BY <1>7, <2>1, <3>1
      <3>2. CASE p = q /\ i # 1
        <4>1. i \in 2..Len(header'[q])
          BY <1>6, <1>7, <2>2, <3>2
        <4>2. i - 1 \in 1..Len(header[p]) /\ header'[p][i] = header[p][i - 1]
          BY <1>7, <3>2, <4>1
        <4>3. QED
          BY <4>2 DEF PoolIInv, HeaderInv
      <3>3. CASE p # q
        BY <1>5, <2>2, <3>3 DEF PoolIInv, HeaderInv
      <3>4. QED
        BY <3>1, <3>2, <3>3
    <2>3. \A u \in Threads : Carries(u)' => u # t /\ Carries(u) /\ op'[u] = op[u]
      BY <1>4 DEF Carries
    <2>4. HeaderInv
      BY DEF PoolIInv
    <2>5. \A u \in Threads : Carries(u)' =>
            made[op'[u].block] = [pool |-> op'[u].pool,
                                  allocSize |-> IF op'[u].at = "clear" THEN op'[u].size ELSE 0]
      BY <2>3, <2>4 DEF HeaderInv
    <2>6. \A u \in Threads : \A i \in 1..Len(objects'[u]) :
            objects'[u][i].block # NoBlock =>
              /\ objects'[u][i].size + HeaderSize \in DOMAIN PoolOf
              /\ made'[objects'[u][i].block]
                   = [pool |-> PoolOf[objects'[u][i].size + HeaderSize],
                      allocSize |-> objects'[u][i].size + HeaderSize]
      BY <1>1, <2>4 DEF HeaderInv, Labelled
    <2>7. made' = made
      BY <1>1
    <2>8. QED
      BY <2>2, <2>5, <2>6, <2>7 DEF HeaderInv, Labelled
  <1>16. CountsBehind(InUse)'
    <2>1. ASSUME NEW p \in PoolSizes PROVE CountKept(t, b, p)
      <3> DEFINE Member == IF q = p THEN 1 ELSE 0
      <3>1. UsedHere(b, p) = 0 /\ UsedHere(b, p)' = 0
        BY <1>2, <1>11 DEF UsedHere
      <3>2. /\ Here(t, p, CountedInUse) = Member /\ Here(t, p, CountedInUse)' = Member
            /\ Here(t, p, Reusing) = 0 /\ Here(t, p, Reusing)' = 0
            /\ Here(t, p, OutOfReserve) = 0 /\ Here(t, p, OutOfReserve)' = Member
        BY <1>1, <1>4 DEF Here, CountedInUse, Reusing, OutOfReserve
      <3>3. Len(header'[p]) = Len(header[p]) + Member /\ Member \in Int
        <4>1. Len(header[p]) \in Nat
          BY CountTerms DEF PoolIInv
        <4>2. CASE q = p
          <5>1. Len(header'[q]) = Len(header[q]) + 1
            BY <1>7
          <5>2. Member = 1
            BY <4>2
          <5> HIDE DEF Member
          <5>3. QED
            BY <4>2, <5>1, <5>2
        <4>3. CASE q # p
          BY <1>5, <4>1, <4>3
        <4>4. QED
          BY <4>2, <4>3
      <3>4. /\ useCount[p] \in Int /\ reserveCount[p] \in Int /\ Len(header[p]) \in Nat
        BY CountTerms DEF PoolIInv
      <3> HIDE DEF Member
      <3> HIDE MemoryPoolAssumption, PoolExperimentAssumption
      <3>5. QED
        <4>1. useCount'[p] = useCount[p] /\ reserveCount'[p] = reserveCount[p]
          BY <1>1
        <4> HIDE <1>1
        <4>2. useCount'[p] = useCount[p] - UsedHere(b, p) + UsedHere(b, p)'
                               - Here(t, p, CountedInUse) + Here(t, p, CountedInUse)'
          <5>1. useCount[p] = useCount[p] - 0 + 0 - Member + Member
            BY <3>3, <3>4
          <5>2. QED
            BY <3>1, <3>2, <4>1, <5>1
        <4>3. reserveCount'[p] = reserveCount[p] - Len(header[p]) + Len(header'[p])
                - Here(t, p, Reusing) + Here(t, p, Reusing)'
                + Here(t, p, OutOfReserve) - Here(t, p, OutOfReserve)'
          <5>1. reserveCount[p] = reserveCount[p] - Len(header[p]) + (Len(header[p]) + Member)
                                    - 0 + 0 + 0 - Member
            BY <3>3, <3>4
          <5>2. QED
            BY <3>2, <3>3, <4>1, <5>1
        <4>4. QED
          BY <4>2, <4>3 DEF CountKept
    <2>2. Others(t)
      BY <1>4 DEF Others
    <2>3. QED
      BY <1>1, <1>2, <1>8, <1>11, <2>1, <2>2, CountStep DEF PoolIInv
  <1>17. QED
    BY <1>8, <1>12, <1>13, <1>14, <1>15, <1>16 DEF PoolIInv

\* Constructed: the block is an object's.
LEMMA ConstructedStep ==
  ASSUME PoolIInv, NEW t \in Threads, Constructed(t)
  PROVE  PoolIInv'
  <1> DEFINE q == op[t].pool
  <1>0. PICK b \in Nat : b = op[t].block
    BY DEF PoolIInv, FieldInv
  <1> DEFINE X == [size : Int, block : Nat]
  <1>a. PICK x \in X : x = [size |-> op[t].size - HeaderSize, block |-> b]
    <2>1. op[t].size \in Nat
      BY DEF PoolIInv, FieldInv
    <2>2. op[t].size - HeaderSize \in Int
      BY <2>1
    <2>3. [size |-> op[t].size - HeaderSize, block |-> b] \in X
      BY <2>2
    <2>4. QED
      BY <2>3
  <1>1. /\ op[t].at = "attach" /\ op' = [op EXCEPT ![t] = Idle]
        /\ made' = [made EXCEPT ![b].allocSize = op[t].size]
        /\ objects' = [objects EXCEPT ![t] = Append(@, x)]
        /\ UNCHANGED <<header, useCount, reserveCount, test, left>>
    BY <1>0, <1>a DEF Constructed, Attach, Keep
  <1>2. /\ op[t].size \in DOMAIN PoolOf /\ op[t].size \in Nat /\ op[t].size > 0
        /\ q = PoolOf[op[t].size] /\ q \in PoolSizes
        /\ Pooled /\ ~Printing /\ InUse \subseteq Blocks /\ Carries(t)
        /\ b \in Blocks /\ b # NoBlock /\ b \in InHand /\ b \notin Listed /\ b \notin InUse
    BY <1>0, <1>1, Working DEF Carries
  <1>3. /\ op \in [Threads -> [at : Steps, pool : Nat, size : Nat, block : Nat]]
        /\ made \in Seq([pool : PoolSizes, allocSize : Nat])
        /\ objects \in [Threads -> Seq([size : Int, block : Nat])]
    BY DEF PoolIInv, FieldInv
  <1>4. /\ made' \in Seq([pool : PoolSizes, allocSize : Nat]) /\ Len(made') = Len(made)
        /\ \A c \in Blocks \ {b} : made'[c] = made[c]
        /\ made'[b] = [pool |-> made[b].pool, allocSize |-> op[t].size]
    BY <1>1, <1>2, <1>3, SizeIsSet
  <1>5. made[b].pool = q
    <2>1. made[b] = [pool |-> q, allocSize |-> 0]
      BY <1>0, <1>1, <1>2 DEF PoolIInv, HeaderInv
    <2>2. QED
      BY <2>1
  <1>6. /\ \A u \in Threads \ {t} : op'[u] = op[u]
        /\ op'[t] = Idle
    BY <1>1, <1>3
  <1>7. x.block = b /\ x.size + HeaderSize = op[t].size
    BY <1>a, <1>2
  <1>8. /\ \A u \in Threads \ {t} : objects'[u] = objects[u]
        /\ objects'[t] = Append(objects[t], x)
    BY <1>1, <1>3
  <1>9. /\ objects'[t] \in Seq([size : Int, block : Nat])
        /\ \A i \in 1..Len(objects'[t]) :
             objects'[t][i] = x \/ (i \in 1..Len(objects[t]) /\ objects'[t][i] = objects[t][i])
    <2>1. objects[t] \in Seq(X)
      BY <1>3
    <2> HIDE DEF X
    <2>2. objects'[t] \in Seq(X) /\ Len(objects'[t]) = Len(objects[t]) + 1
          /\ objects'[t][Len(objects[t]) + 1] = x
          /\ \A i \in 1..Len(objects[t]) : objects'[t][i] = objects[t][i]
      BY <1>8, <2>1, AppendProperties
    <2>3. Len(objects[t]) \in Nat
      BY <2>1
    <2>4. \A i \in 1..Len(objects[t]) + 1 : i = Len(objects[t]) + 1 \/ i \in 1..Len(objects[t])
      BY <2>3
    <2>5. \A i \in 1..Len(objects'[t]) :
            objects'[t][i] = x \/ (i \in 1..Len(objects[t]) /\ objects'[t][i] = objects[t][i])
      <3> SUFFICES ASSUME NEW i \in 1..Len(objects[t]) + 1
                   PROVE  objects'[t][i] = x
                          \/ (i \in 1..Len(objects[t]) /\ objects'[t][i] = objects[t][i])
        BY <2>2
      <3>1. CASE i = Len(objects[t]) + 1
        BY <2>2, <3>1
      <3>2. CASE i \in 1..Len(objects[t])
        BY <2>2, <3>2
      <3>3. QED
        BY <2>4, <3>1, <3>2
    <2>6. QED
      BY <2>2, <2>5 DEF X
  <1>10. FieldInv'
    <2>1. op' \in [Threads -> [at : Steps, pool : Nat, size : Nat, block : Nat]]
      BY <1>1, <1>3 DEF Steps, Idle, NoBlock
    <2>2. objects' \in [Threads -> Seq([size : Int, block : Nat])]
      BY <1>1, <1>3, <1>8, <1>9
    <2>3. QED
      BY <1>1, <1>4, <2>1, <2>2 DEF PoolIInv, FieldInv
  <1>11. InUse' = InUse \cup {b} /\ ObjectsApart'
    BY <1>1, <1>2, <1>7, <1>10, UseBegins DEF PoolIInv, PlaceInv
  <1>12. InHand' = InHand \ {b} /\ HandsApart'
    <2>1. Others(t) /\ ~Carries(t)'
      BY <1>6 DEF Others, Carries, Idle
    <2>2. QED
      BY <1>0, <1>2, <1>10, <2>1, HandGives DEF PoolIInv, PlaceInv
  <1>13. Listed' = Listed /\ ListsApart' /\ Blocks' = Blocks
    BY <1>1, <1>4, ListsStay DEF PoolIInv, PlaceInv, Blocks
  <1>14. PlaceInv'
    BY <1>2, <1>11, <1>12, <1>13 DEF PoolIInv, PlaceInv
  <1>15. OpInv'
    <2>1. op'[t].at = "idle" /\ op'[t].block = NoBlock
      BY <1>6 DEF Idle
    <2>2. QED
      BY <1>6, <1>13, <2>1 DEF PoolIInv, OpInv
  <1>16. PhaseInv'
    <2>1. \A u \in Threads : \A i \in 1..Len(objects[u]) : objects[u][i].block # NoBlock
      BY <1>2 DEF PoolIInv, PhaseInv
    <2>2. \A i \in 1..Len(objects'[t]) : objects'[t][i].block # NoBlock
      BY <1>2, <1>7, <1>9, <2>1
    <2>3. \A u \in Threads : \A i \in 1..Len(objects'[u]) : objects'[u][i].block # NoBlock
      BY <1>8, <2>1, <2>2
    <2>4. QED
      BY <1>1, <1>2, <2>3 DEF PhaseInv, Pooled, Printing
  <1>17. HeaderInv'
    <2>1. ASSUME NEW p \in PoolSizes, NEW i \in 1..Len(header[p])
          PROVE  made'[header[p][i]] = [pool |-> p, allocSize |-> 0]
      <3>1. header[p][i] \in Listed /\ header[p][i] \in Blocks
        BY Members DEF PoolIInv, PlaceInv
      <3>2. QED
        BY <1>2, <1>4, <3>1 DEF PoolIInv, HeaderInv
    <2>2. ASSUME NEW u \in Threads, Carries(u)'
          PROVE  made'[op'[u].block] = [pool |-> op'[u].pool,
                                 allocSize |-> IF op'[u].at = "clear" THEN op'[u].size ELSE 0]
      <3>1. u # t /\ Carries(u) /\ op'[u] = op[u]
        BY <1>6, <2>2 DEF Carries, Idle
      <3>2. op[u].block \in Blocks \ {b}
        BY <1>0, <1>2, <3>1 DEF PoolIInv, PlaceInv, HandsApart, InHand
      <3>3. made'[op[u].block] = made[op[u].block]
        BY <1>4, <3>2
      <3>4. HeaderInv
        BY DEF PoolIInv
      <3>5. QED
        BY <3>1, <3>3, <3>4 DEF HeaderInv
    <2>3. ASSUME NEW u \in Threads, NEW i \in 1..Len(objects'[u]), objects'[u][i].block # NoBlock
          PROVE  Labelled(objects[u][i])'
      <3>1. CASE i \in 1..Len(objects[u]) /\ objects'[u][i] = objects[u][i]
        <4>1. objects[u][i].block \in Blocks \ {b}
          BY <1>2, <2>3, <3>1, Used DEF PoolIInv, InUseMembers, PlaceInv
        <4>2. Labelled(objects[u][i])
          BY <2>3, <3>1 DEF PoolIInv, HeaderInv
        <4>3. QED
          BY <1>4, <3>1, <4>1, <4>2 DEF Labelled
      <3>2. CASE objects'[u][i] = x
        <4>1. Labelled(x)'
          BY <1>2, <1>4, <1>5, <1>7 DEF Labelled
        <4>2. QED
          BY <3>2, <4>1 DEF Labelled
      <3>3. QED
        BY <1>8, <1>9, <2>3, <3>1, <3>2
    <2>4. QED
      BY <1>1, <2>1, <2>2, <2>3 DEF HeaderInv
  <1>18. CountsBehind(InUse)'
    <2>1. ASSUME NEW p \in PoolSizes PROVE CountKept(t, b, p)
      <3> DEFINE Member == IF q = p THEN 1 ELSE 0
      <3>1. UsedHere(b, p) = 0 /\ UsedHere(b, p)' = Member
        <4>1. made'[b].pool = q
          BY <1>4, <1>5
        <4>2. b \notin InUse /\ b \in InUse'
          BY <1>2, <1>11
        <4>3. QED
          BY <4>1, <4>2 DEF UsedHere
      <3>2. /\ Here(t, p, CountedInUse) = Member /\ Here(t, p, CountedInUse)' = 0
            /\ Here(t, p, Reusing) = 0 /\ Here(t, p, Reusing)' = 0
            /\ Here(t, p, OutOfReserve) = 0 /\ Here(t, p, OutOfReserve)' = 0
        BY <1>1, <1>6 DEF Here, CountedInUse, Reusing, OutOfReserve, Idle
      <3>3. /\ useCount[p] \in Int /\ reserveCount[p] \in Int /\ Len(header[p]) \in Nat
        BY CountTerms DEF PoolIInv
      <3>4. Member \in Int
        OBVIOUS
      <3> HIDE DEF Member
      <3> HIDE MemoryPoolAssumption, PoolExperimentAssumption
      <3>5. QED
        BY <1>1, <3>1, <3>2, <3>3, <3>4 DEF CountKept
    <2>2. Others(t)
      BY <1>6 DEF Others
    <2>3. \A c \in InUse \ {b} : made'[c].pool = made[c].pool
      BY <1>2, <1>4
    <2>4. InUse' \ {b} = InUse \ {b}
      BY <1>11
    <2>5. QED
      BY <1>2, <1>10, <2>1, <2>2, <2>3, <2>4, CountStep DEF PoolIInv
  <1>19. QED
    BY <1>10, <1>14, <1>15, <1>16, <1>17, <1>18 DEF PoolIInv

\* Delete, in a test of the pools: the block is the thread's to release.
LEMMA PooledDeleteStep ==
  ASSUME PoolIInv, NEW t \in Threads, Pooled, Delete(t)
  PROVE  PoolIInv'
  <1>1. PICK i \in Chosen(t) : objects' = [objects EXCEPT ![t] = Without(t, i)]
                               /\ Release(t, objects[t][i].block)
    BY DEF Delete
  <1>2. /\ op[t] = Idle /\ ~Printing /\ test' = test
        /\ IF Test.pattern = "random" /\ left[t] > 0
           THEN left' = [left EXCEPT ![t] = @ - 1] ELSE left' = left
    BY DEF Delete, Runs, Iterate
  <1>3. FieldInv
    BY DEF PoolIInv
  <1>4. /\ i \in 1..Len(objects[t])
        /\ Without(t, i) \in Seq([size : Int, block : Nat])
        /\ Remains(objects[t], i, Without(t, i))
    BY <1>3, Deletes
  <1>5. /\ op \in [Threads -> [at : Steps, pool : Nat, size : Nat, block : Nat]]
        /\ objects \in [Threads -> Seq([size : Int, block : Nat])]
        /\ left \in [Threads -> 0..Iterations + ThreadIterations + StressIterations]
    BY <1>3 DEF FieldInv
  <1>6. PICK b \in Nat : b = objects[t][i].block
    <2> DEFINE X == [size : Int, block : Nat]
    <2>1. objects[t][i] \in X
      <3>1. objects[t] \in Seq(X)
        BY <1>5
      <3> HIDE DEF X
      <3>2. QED
        BY <1>4, <3>1
    <2>2. QED
      BY <2>1
  <1>7. b # NoBlock /\ Labelled(objects[t][i])
    BY <1>4, <1>6 DEF PoolIInv, PhaseInv, HeaderInv
  <1>8. PICK size \in DOMAIN PoolOf : made[b] = [pool |-> PoolOf[size], allocSize |-> size]
    BY <1>6, <1>7 DEF Labelled
  <1> DEFINE q == PoolOf[size]
  <1>9. /\ op' = [op EXCEPT ![t] = [at |-> "clear", pool |-> q, size |-> size, block |-> b]]
        /\ UNCHANGED <<header, useCount, reserveCount, made>>
    BY <1>1, <1>6, <1>8 DEF Release
  <1>10. size \in Nat /\ q \in PoolSizes /\ q \in Nat
    BY <1>8
  <1>11. /\ \A u \in Threads \ {t} : op'[u] = op[u]
         /\ op'[t] = [at |-> "clear", pool |-> q, size |-> size, block |-> b]
    BY <1>5, <1>9
  <1>12. /\ \A u \in Threads \ {t} : objects'[u] = objects[u]
         /\ objects'[t] = Without(t, i) /\ Remains(objects[t], i, objects'[t])
    BY <1>1, <1>4, <1>5
  <1>a. ASSUME NEW u \in Threads, NEW k \in 1..Len(objects'[u])
        PROVE  \E m \in 1..Len(objects[u]) : objects'[u][k] = objects[u][m]
    <2>1. CASE u = t
      BY <1>12, <1>a, <2>1 DEF Remains
    <2>2. CASE u # t
      BY <1>12, <1>a, <2>2
    <2>3. QED
      BY <2>1, <2>2
  <1>13. FieldInv'
    <2>1. op' \in [Threads -> [at : Steps, pool : Nat, size : Nat, block : Nat]]
      BY <1>5, <1>9, <1>10 DEF Steps
    <2>2. objects' \in [Threads -> Seq([size : Int, block : Nat])]
      BY <1>1, <1>4, <1>5
    <2>3. left' \in [Threads -> 0..Iterations + ThreadIterations + StressIterations]
      <3>1. CASE Test.pattern = "random" /\ left[t] > 0
        <4>1. left[t] - 1 \in 0..Iterations + ThreadIterations + StressIterations
          BY <1>5, <3>1
        <4>2. left' = [left EXCEPT ![t] = left[t] - 1]
          BY <1>2, <3>1
        <4>3. QED
          BY <1>5, <4>1, <4>2
      <3>2. CASE ~(Test.pattern = "random" /\ left[t] > 0)
        BY <1>2, <1>5, <3>2
      <3>3. QED
        BY <3>1, <3>2
    <2>4. QED
      BY <1>2, <1>3, <1>9, <2>1, <2>2, <2>3 DEF FieldInv
  <1>14. b \in InUse /\ InUse' = InUse \ {b} /\ ObjectsApart'
    BY <1>3, <1>4, <1>6, <1>7, <1>12, <1>13, UseEnds DEF PoolIInv, PlaceInv
  <1>15. Listed' = Listed /\ ListsApart' /\ Blocks' = Blocks
    BY <1>9, ListsStay DEF PoolIInv, PlaceInv, Blocks
  <1>16. InHand' = InHand \cup {b} /\ HandsApart'
    <2>1. Others(t) /\ ~Carries(t) /\ Carries(t)' /\ op'[t].block = b
      BY <1>2, <1>11 DEF Others, Carries, Idle
    <2>2. b \notin InHand
      BY <1>14 DEF PoolIInv, PlaceInv
    <2>3. QED
      BY <1>3, <1>13, <2>1, <2>2, HandTakes DEF PoolIInv, PlaceInv
  <1>17. PlaceInv'
    BY <1>14, <1>15, <1>16 DEF PoolIInv, PlaceInv
  <1>18. OpInv'
    <2>1. b \in Blocks
      BY <1>14 DEF PoolIInv, PlaceInv
    <2>2. QED
      BY <1>10, <1>11, <1>15, <2>1 DEF PoolIInv, OpInv
  <1>19. PhaseInv'
    <2>1. \A u \in Threads : \A k \in 1..Len(objects[u]) : objects[u][k].block # NoBlock
      BY DEF PoolIInv, PhaseInv
    <2>2. \A u \in Threads : \A k \in 1..Len(objects'[u]) : objects'[u][k].block # NoBlock
      BY <1>a, <2>1
    <2>3. QED
      BY <1>2, <2>2 DEF PhaseInv, Pooled, Printing
  <1>20. HeaderInv'
    <2>1. HeaderInv
      BY DEF PoolIInv
    <2>2. \A u \in Threads : Carries(u)' =>
            made[op'[u].block] = [pool |-> op'[u].pool,
                                  allocSize |-> IF op'[u].at = "clear" THEN op'[u].size ELSE 0]
      <3>1. \A u \in Threads \ {t} : Carries(u)' => Carries(u)
        BY <1>11 DEF Carries
      <3>2. QED
        BY <1>8, <1>11, <2>1, <3>1 DEF HeaderInv
    <2>3. ASSUME NEW u \in Threads, NEW k \in 1..Len(objects'[u]), objects'[u][k].block # NoBlock
          PROVE  Labelled(objects'[u][k])
      <3>1. PICK m \in 1..Len(objects[u]) : objects'[u][k] = objects[u][m]
        BY <1>a
      <3>2. QED
        BY <2>1, <2>3, <3>1 DEF HeaderInv
    <2>4. QED
      BY <1>9, <2>1, <2>2, <2>3 DEF HeaderInv, Labelled
  <1>21. CountsBehind(InUse)'
    <2>1. ASSUME NEW p \in PoolSizes PROVE CountKept(t, b, p)
      <3> DEFINE Member == IF q = p THEN 1 ELSE 0
      <3>1. UsedHere(b, p) = Member /\ UsedHere(b, p)' = 0
        <4>1. made[b].pool = q
          BY <1>8
        <4>2. b \in InUse /\ b \notin InUse'
          BY <1>14
        <4>3. QED
          BY <4>1, <4>2 DEF UsedHere
      <3>2. /\ Here(t, p, CountedInUse) = 0 /\ Here(t, p, CountedInUse)' = Member
            /\ Here(t, p, Reusing) = 0 /\ Here(t, p, Reusing)' = 0
            /\ Here(t, p, OutOfReserve) = 0 /\ Here(t, p, OutOfReserve)' = 0
        BY <1>2, <1>11 DEF Here, CountedInUse, Reusing, OutOfReserve, Idle
      <3>3. /\ useCount[p] \in Int /\ reserveCount[p] \in Int /\ Len(header[p]) \in Nat
            /\ Member \in Int
        BY CountTerms DEF PoolIInv
      <3> HIDE DEF Member
      <3> HIDE MemoryPoolAssumption, PoolExperimentAssumption
      <3>4. QED
        BY <1>9, <3>1, <3>2, <3>3 DEF CountKept
    <2>2. Others(t)
      BY <1>11 DEF Others
    <2>3. InUse' \ {b} = InUse \ {b} /\ InUse \subseteq Blocks
      BY <1>14 DEF PoolIInv, PlaceInv
    <2>4. QED
      BY <1>3, <1>9, <1>13, <2>1, <2>2, <2>3, CountStep DEF PoolIInv
  <1>22. QED
    BY <1>13, <1>17, <1>18, <1>19, <1>20, <1>21 DEF PoolIInv

\* A step of a test of new and delete, whose objects are in no block.
LEMMA UnpooledStep ==
  ASSUME PoolIInv, FieldInv', ~Pooled, ~Printing, UNCHANGED <<poolVars, test>>,
         \A u \in Threads : \A i \in 1..Len(objects'[u]) : objects'[u][i].block = NoBlock
  PROVE  PoolIInv'
  <1>1. UNCHANGED <<header, useCount, reserveCount, made, op, test>>
    BY DEF poolVars
  <1>2. \A u \in Threads : op[u] = Idle
                           /\ \A i \in 1..Len(objects[u]) : objects[u][i].block = NoBlock
    BY DEF PoolIInv, PhaseInv
  <1>3. OpInv' /\ PhaseInv'
    BY <1>1, <1>2 DEF PoolIInv, OpInv, PhaseInv, Pooled, Printing, Blocks
  <1>4. InUseMembers /\ InUseMembers'
    <2>1. FieldInv
      BY DEF PoolIInv
    <2>2. InUseMembers
      BY <2>1, Used
    <2>3. InUseMembers'
      BY Used, PTL
    <2>4. QED
      BY <2>2, <2>3
  <1>5. InUse' = InUse /\ ObjectsApart'
    <2>1. \A b : b \notin InUse /\ b \notin InUse'
      BY <1>2, <1>4 DEF InUseMembers
    <2>2. ObjectsApart'
      BY <1>4 DEF InUseMembers
    <2>3. QED
      BY <2>1, <2>2
  <1>6. Listed' = Listed /\ ListsApart' /\ InHand' = InHand /\ HandsApart' /\ Blocks' = Blocks
    BY <1>1 DEF PoolIInv, PlaceInv, Listed, ListsApart, InHand, HandsApart, Carries, Blocks
  <1>7. PlaceInv'
    BY <1>5, <1>6 DEF PoolIInv, PlaceInv
  <1>8. HeaderInv'
    BY <1>1 DEF PoolIInv, HeaderInv, Carries
  <1>9. CountsBehind(InUse)'
    BY <1>1, <1>5 DEF PoolIInv, CountsBehind, At
  <1>10. QED
    BY <1>3, <1>7, <1>8, <1>9 DEF PoolIInv

LEMMA NewStep ==
  ASSUME PoolIInv, NEW t \in Threads, New(t)
  PROVE  PoolIInv'
  <1> DEFINE X == [size : Int, block : Nat]
  <1>1. /\ ~Pooled /\ ~Printing /\ UNCHANGED <<poolVars, test>>
        /\ left[t] > 0 /\ left' = [left EXCEPT ![t] = @ - 1]
    BY DEF New, Runs, MayMake, Iterate
  <1>2. PICK n \in Test.sizes :
          objects' = [objects EXCEPT ![t] = Append(@, [size |-> n, block |-> NoBlock])]
    BY DEF New, Keep
  <1>3. n \in Int
    <2>1. n \in TypeSizes
      BY <1>1, Planning DEF PoolIInv, Planned
    <2>2. QED
      BY <2>1 DEF TypeSizes
  <1>4. PICK x \in X : x = [size |-> n, block |-> NoBlock]
    BY <1>3 DEF NoBlock
  <1>5. objects \in [Threads -> Seq(X)]
    BY DEF PoolIInv, FieldInv
  <1> HIDE DEF X
  <1>6. /\ objects'[t] = Append(objects[t], x)
        /\ \A u \in Threads \ {t} : objects'[u] = objects[u]
        /\ objects' = [objects EXCEPT ![t] = Append(objects[t], x)]
    BY <1>2, <1>4, <1>5
  <1>7. /\ objects'[t] \in Seq(X) /\ Len(objects'[t]) = Len(objects[t]) + 1
        /\ objects'[t][Len(objects[t]) + 1] = x
        /\ \A i \in 1..Len(objects[t]) : objects'[t][i] = objects[t][i]
    BY <1>5, <1>6, AppendProperties
  <1>8. Len(objects[t]) \in Nat
    BY <1>5
  <1>9. FieldInv'
    <2>1. objects' \in [Threads -> Seq(X)]
      BY <1>5, <1>6, <1>7
    <2>2. left[t] - 1 \in 0..Iterations + ThreadIterations + StressIterations
      BY <1>1 DEF PoolIInv, FieldInv
    <2>3. left' \in [Threads -> 0..Iterations + ThreadIterations + StressIterations]
      BY <1>1, <2>2 DEF PoolIInv, FieldInv
    <2>4. UNCHANGED <<header, useCount, reserveCount, made, op, test>>
      BY <1>1 DEF poolVars
    <2>5. QED
      BY <2>1, <2>3, <2>4 DEF PoolIInv, FieldInv, X
  <1>10. ASSUME NEW u \in Threads, NEW i \in 1..Len(objects'[u])
         PROVE  objects'[u][i].block = NoBlock
    <2>1. \A v \in Threads : \A k \in 1..Len(objects[v]) : objects[v][k].block = NoBlock
      BY <1>1 DEF PoolIInv, PhaseInv
    <2>2. CASE u # t
      BY <1>6, <1>10, <2>1, <2>2
    <2>3. CASE u = t
      <3>1. i = Len(objects[t]) + 1 \/ i \in 1..Len(objects[t])
        BY <1>7, <1>8, <1>10, <2>3
      <3>2. CASE i = Len(objects[t]) + 1
        BY <1>4, <1>7, <2>3, <3>2
      <3>3. CASE i \in 1..Len(objects[t])
        BY <1>7, <2>1, <2>3, <3>3
      <3>4. QED
        BY <3>1, <3>2, <3>3
    <2>4. QED
      BY <2>2, <2>3
  <1>11. QED
    BY <1>1, <1>9, <1>10, UnpooledStep

LEMMA UnpooledDeleteStep ==
  ASSUME PoolIInv, NEW t \in Threads, ~Pooled, Delete(t)
  PROVE  PoolIInv'
  <1> DEFINE N == Iterations + ThreadIterations + StressIterations
  <1>1. PICK i \in Chosen(t) : objects' = [objects EXCEPT ![t] = Without(t, i)]
    BY DEF Delete
  <1>2. /\ ~Printing /\ UNCHANGED <<poolVars, test>>
        /\ \/ left[t] > 0 /\ left' = [left EXCEPT ![t] = @ - 1]
           \/ left' = left
    BY DEF Delete, Runs, Iterate
  <1>3. FieldInv
    BY DEF PoolIInv
  <1>4. /\ Without(t, i) \in Seq([size : Int, block : Nat])
        /\ Remains(objects[t], i, Without(t, i))
    BY <1>3, Deletes
  <1>5. /\ objects \in [Threads -> Seq([size : Int, block : Nat])]
        /\ left \in [Threads -> 0..N]
    BY <1>3 DEF FieldInv
  <1>6. /\ \A u \in Threads \ {t} : objects'[u] = objects[u]
        /\ Remains(objects[t], i, objects'[t])
    BY <1>1, <1>4, <1>5
  <1>7. FieldInv'
    <2>1. objects' \in [Threads -> Seq([size : Int, block : Nat])]
      BY <1>1, <1>4, <1>5
    <2>2. left' \in [Threads -> 0..N]
      <3>1. CASE left[t] > 0 /\ left' = [left EXCEPT ![t] = @ - 1]
        <4>1. left[t] - 1 \in 0..N
          BY <1>5, <3>1
        <4>2. QED
          BY <1>5, <3>1, <4>1
      <3>2. QED
        BY <1>2, <1>5, <3>1
    <2>3. UNCHANGED <<header, useCount, reserveCount, made, op, test>>
      BY <1>2 DEF poolVars
    <2>4. QED
      BY <1>3, <2>1, <2>2, <2>3 DEF FieldInv
  <1>8. ASSUME NEW u \in Threads, NEW k \in 1..Len(objects'[u])
        PROVE  objects'[u][k].block = NoBlock
    <2>1. \A v \in Threads : \A m \in 1..Len(objects[v]) : objects[v][m].block = NoBlock
      BY DEF PoolIInv, PhaseInv
    <2>2. CASE u # t
      BY <1>6, <1>8, <2>1, <2>2
    <2>3. CASE u = t
      <3>1. PICK m \in 1..Len(objects[t]) : objects'[t][k] = objects[t][m]
        BY <1>6, <1>8, <2>3 DEF Remains
      <3>2. QED
        BY <2>1, <2>3, <3>1
    <2>4. QED
      BY <2>2, <2>3
  <1>9. QED
    BY <1>2, <1>7, <1>8, UnpooledStep

\* The iterations that a test begins with.
LEMMA StartsType ==
  ASSUME NEW n \in Nat \ {0}
  PROVE  StartsWith(n) \in [Threads -> 0..Iterations + ThreadIterations + StressIterations]
  <1>1. ASSUME n <= Tests
        PROVE  Plan[(n + 1) \div 2].n \in 0..Iterations + ThreadIterations + StressIterations
    <2>1. n \in 1..Tests
      BY <1>1, PlanType
    <2>2. Plan[(n + 1) \div 2].n \in {Iterations, ThreadIterations, StressIterations}
      BY <2>1, TestType DEF Planned
    <2>3. QED
      BY <2>2
  <1>2. 0 \in 0..Iterations + ThreadIterations + StressIterations
    OBVIOUS
  <1>3. QED
    BY <1>1, <1>2 DEF StartsWith

LEMMA NextTestStep ==
  ASSUME PoolIInv, NextTest
  PROVE  PoolIInv'
  <1>1. /\ ~Printing /\ test' = test + 1 /\ left' = StartsWith(test + 1)
        /\ UNCHANGED <<header, useCount, reserveCount, made, op, objects>>
        /\ \A t \in Threads : op[t] = Idle /\ objects[t] = <<>>
    BY DEF NextTest, poolVars
  <1>2. FieldInv'
    <2>1. test' \in 1..Tests + 1 /\ test + 1 \in Nat \ {0}
      BY <1>1, PlanType DEF PoolIInv, FieldInv, Printing
    <2>2. left' \in [Threads -> 0..Iterations + ThreadIterations + StressIterations]
      BY <1>1, <2>1, StartsType
    <2>3. QED
      BY <1>1, <2>1, <2>2 DEF PoolIInv, FieldInv
  <1>3. OpInv'
    BY <1>1 DEF PoolIInv, OpInv, Blocks
  <1>4. PhaseInv'
    <2>1. \A t \in Threads : Len(objects'[t]) = 0
      BY <1>1
    <2>2. \A t \in Threads : 1..Len(objects'[t]) = {}
      BY <2>1
    <2>3. QED
      BY <1>1, <2>2 DEF PhaseInv
  <1>5. InUse' = InUse /\ ObjectsApart'
    BY <1>1, UseStays DEF PoolIInv, PlaceInv
  <1>6. Listed' = Listed /\ ListsApart' /\ InHand' = InHand /\ HandsApart' /\ Blocks' = Blocks
    BY <1>1 DEF PoolIInv, PlaceInv, Listed, ListsApart, InHand, HandsApart, Carries, Blocks
  <1>7. PlaceInv'
    BY <1>5, <1>6 DEF PoolIInv, PlaceInv
  <1>8. HeaderInv'
    BY <1>1 DEF PoolIInv, HeaderInv, Carries, Labelled
  <1>9. CountsBehind(InUse)'
    BY <1>1, <1>5 DEF PoolIInv, CountsBehind, At
  <1>10. QED
    BY <1>2, <1>3, <1>4, <1>7, <1>8, <1>9 DEF PoolIInv

LEMMA PoolIInit == Init => PoolIInv
  <1> SUFFICES ASSUME Init PROVE PoolIInv
    OBVIOUS
  <1>1. /\ header = [p \in PoolSizes |-> <<>>]
        /\ useCount = [p \in PoolSizes |-> 0] /\ reserveCount = [p \in PoolSizes |-> 0]
        /\ made = <<>> /\ op = [t \in Threads |-> Idle]
        /\ test = 1 /\ left = StartsWith(1) /\ objects = [t \in Threads |-> <<>>]
    BY DEF Init, PoolInit
  <1>2. FieldInv
    <2>1. op \in [Threads -> [at : Steps, pool : Nat, size : Nat, block : Nat]]
      BY <1>1 DEF Steps, Idle, NoBlock
    <2>2. test \in 1..Tests + 1
      BY <1>1, PlanType
    <2>3. left \in [Threads -> 0..Iterations + ThreadIterations + StressIterations]
      BY <1>1, StartsType
    <2>4. made \in Seq([pool : PoolSizes, allocSize : Nat]) /\ Len(made) <= MaxBlocks
      BY <1>1
    <2>5. QED
      BY <1>1, <2>1, <2>2, <2>3, <2>4 DEF FieldInv
  <1>3. /\ \A t \in Threads : op[t] = Idle /\ Len(objects[t]) = 0 /\ objects[t] = <<>>
        /\ \A p \in PoolSizes : Len(header[p]) = 0
    BY <1>1
  <1>4. \A t \in Threads : op[t].at = "idle" /\ op[t].block = NoBlock
    BY <1>3 DEF Idle
  <1>5. OpInv /\ PhaseInv
    BY <1>3, <1>4 DEF OpInv, PhaseInv
  <1>6. Blocks = {}
    BY <1>1 DEF Blocks
  <1>7. Listed = {} /\ InHand = {} /\ InUse = {} /\ ObjectsApart
    <2>1. \A b : b \notin Listed
      BY <1>3, Members
    <2>2. \A t \in Threads : ~Carries(t)
      BY <1>4 DEF Carries
    <2>3. InHand = {}
      BY <2>2 DEF InHand
    <2>4. InUseMembers
      BY <1>2, Used
    <2>5. (\A b : b \notin InUse) /\ ObjectsApart
      BY <1>3, <2>4 DEF InUseMembers
    <2>6. QED
      BY <2>1, <2>3, <2>5
  <1>8. PlaceInv
    BY <1>3, <1>4, <1>6, <1>7 DEF PlaceInv, ListsApart, HandsApart, Carries
  <1>9. HeaderInv
    BY <1>3, <1>4 DEF HeaderInv, Carries
  <1>10. CountsBehind(InUse)
    <2>1. ASSUME NEW p \in PoolSizes
          PROVE  /\ {b \in InUse : made[b].pool = p} = {}
                 /\ At(p, {"attach", "clear", "push", "unuse"}) = {}
                 /\ At(p, {"reuse"}) = {} /\ At(p, {"unuse", "reserve"}) = {}
      BY <1>4, <1>7 DEF At
    <2>2. Cardinality({}) = 0
      BY FS_EmptySet
    <2>3. ASSUME NEW p \in PoolSizes
          PROVE  /\ Cardinality({b \in InUse : made[b].pool = p}) = 0
                 /\ Cardinality(At(p, {"attach", "clear", "push", "unuse"})) = 0
                 /\ Cardinality(At(p, {"reuse"})) = 0
                 /\ Cardinality(At(p, {"unuse", "reserve"})) = 0
      BY <2>1, <2>2
    <2>4. \A p \in PoolSizes : useCount[p] = 0 /\ reserveCount[p] = 0 /\ Len(header[p]) = 0
      BY <1>1, <1>3
    <2>5. 0 + 0 = 0 /\ 0 + 0 - 0 = 0
      OBVIOUS
    <2>6. QED
      BY <2>3, <2>4, <2>5, Zenon DEF CountsBehind
  <1>11. QED
    BY <1>2, <1>5, <1>8, <1>9, <1>10 DEF PoolIInv

LEMMA PoolINext == PoolIInv /\ [Next]_vars => PoolIInv'
  <1> SUFFICES ASSUME PoolIInv, [Next]_vars PROVE PoolIInv'
    OBVIOUS
  <1>1. CASE NextTest
    BY <1>1, NextTestStep
  <1>2. CASE \E t \in Threads : Thread(t)
    <2>1. PICK t \in Threads : Thread(t)
      BY <1>2
    <2>2. CASE New(t)
      BY <2>2, NewStep
    <2>3. CASE Xnew(t)
      BY <2>3, XnewStep
    <2>4. CASE Constructed(t)
      BY <2>4, ConstructedStep
    <2>5. CASE Delete(t)
      BY <2>5, PooledDeleteStep, UnpooledDeleteStep
    <2>6. CASE PoolStep(t) /\ UNCHANGED <<test, left, objects>>
      <3>1. CASE PopEntry(t)
        <4>1. op[t].at = "pop"
          BY <3>1 DEF PopEntry
        <4>2. PopsNone(t) \/ PopsBlock(t)
          BY <3>1, <4>1 DEF PopsNone, PopsBlock
        <4>3. QED
          BY <2>6, <4>2, PopsNoneStep, PopsBlockStep
      <3>2. CASE CountingStep(t)
        BY <2>6, <3>2, CountingSteps
      <3>3. CASE PopMake(t)
        BY <2>6, <3>3, MakeStep
      <3>4. CASE PushClear(t)
        BY <2>6, <3>4, ClearStep
      <3>5. CASE PushEntry(t)
        BY <2>6, <3>5, PushStep
      <3>6. QED
        BY <2>6, <3>1, <3>2, <3>3, <3>4, <3>5 DEF PoolStep, CountingStep
    <2>7. QED
      BY <2>1, <2>2, <2>3, <2>4, <2>5, <2>6 DEF Thread
  <1>3. CASE UNCHANGED vars
    <2>1. UNCHANGED <<header, useCount, reserveCount, made, op, test, left, objects>>
      BY <1>3 DEF vars, poolVars
    <2>2. FieldInv' /\ OpInv' /\ PhaseInv'
      BY <2>1 DEF PoolIInv, FieldInv, OpInv, PhaseInv, Pooled, Printing, Blocks
    <2>3. InUse' = InUse /\ ObjectsApart'
      BY <2>1, UseStays DEF PoolIInv, PlaceInv
    <2>4. Listed' = Listed /\ ListsApart' /\ InHand' = InHand /\ HandsApart' /\ Blocks' = Blocks
      BY <2>1 DEF PoolIInv, PlaceInv, Listed, ListsApart, InHand, HandsApart, Carries, Blocks
    <2>5. PlaceInv'
      BY <2>3, <2>4 DEF PoolIInv, PlaceInv
    <2>6. HeaderInv'
      BY <2>1 DEF PoolIInv, HeaderInv, Carries, Labelled
    <2>7. CountsBehind(InUse)'
      BY <2>1, <2>3 DEF PoolIInv, CountsBehind, At
    <2>8. QED
      BY <2>2, <2>5, <2>6, <2>7 DEF PoolIInv
  <1>4. QED
    BY <1>1, <1>2, <1>3 DEF Next

THEOREM PoolIsInvariant == Spec => []PoolIInv
  BY PoolIInit, PoolINext, PTL DEF Spec

-----------------------------------------------------------------------------
\* A list is no longer than the number of its pool's blocks; when all of these
\* are in it, it is as long as that.
Made(p) == {b \in Blocks : made[b].pool = p}
LEMMA ListLength ==
  ASSUME PoolIInv, NEW p \in PoolSizes
  PROVE  /\ IsFiniteSet(Made(p)) /\ Cardinality(Made(p)) <= Len(made)
         /\ Len(header[p]) <= Cardinality(Made(p))
         /\ Made(p) \subseteq Listed => Len(header[p]) = Cardinality(Made(p))
  <1> DEFINE I == 1..Len(header[p])
             f == [i \in I |-> header[p][i]]
  <1>0. ASSUME NEW n \in Nat PROVE IsFiniteSet(1..n) /\ Cardinality(1..n) = n
    <2> HIDE MemoryPoolAssumption, PoolExperimentAssumption
    <2>1. IsFiniteSet(1..n) /\ Cardinality(1..n) = IF 1 > n THEN 0 ELSE n - 1 + 1
      BY FS_Interval
    <2>2. (IF 1 > n THEN 0 ELSE n - 1 + 1) = n
      OBVIOUS
    <2>3. QED
      BY <2>1, <2>2
  <1>1. Len(header[p]) \in Nat /\ Len(made) \in Nat
    BY DEF PoolIInv, FieldInv
  <1>2. IsFiniteSet(Blocks) /\ Cardinality(Blocks) = Len(made)
    BY <1>0, <1>1 DEF Blocks
  <1>3. IsFiniteSet(Made(p)) /\ Cardinality(Made(p)) <= Len(made)
    <2>1. Made(p) \in SUBSET Blocks
      BY DEF Made
    <2>2. QED
      BY <1>2, <2>1, FS_Subset
  <1>4. IsFiniteSet(I) /\ Cardinality(I) = Len(header[p])
    BY <1>0, <1>1
  <1>5. \A i \in I : header[p][i] \in Made(p)
    <2> SUFFICES ASSUME NEW i \in I PROVE header[p][i] \in Made(p)
      OBVIOUS
    <2>1. header[p][i] \in Blocks
      BY Members DEF PoolIInv, PlaceInv
    <2>2. made[header[p][i]] = [pool |-> p, allocSize |-> 0]
      BY DEF PoolIInv, HeaderInv
    <2>3. QED
      BY <2>1, <2>2 DEF Made
  <1>6. f \in Injection(I, Made(p))
    <2>1. \A i, k \in I : header[p][i] = header[p][k] => i = k
      BY DEF PoolIInv, PlaceInv, ListsApart
    <2>2. QED
      BY <1>5, <2>1 DEF Injection, IsInjective
  <1>7. Len(header[p]) <= Cardinality(Made(p))
    BY <1>3, <1>4, <1>6, FS_Injection
  <1>8. ASSUME Made(p) \subseteq Listed
        PROVE  Len(header[p]) = Cardinality(Made(p))
    <2>1. ASSUME NEW b \in Made(p) PROVE \E i \in I : f[i] = b
      <3>0. PICK q \in PoolSizes : \E i \in 1..Len(header[q]) : header[q][i] = b
        BY <1>8, <2>1, Members
      <3>1. PICK i \in 1..Len(header[q]) : header[q][i] = b
        BY <3>0
      <3>2. made[b] = [pool |-> q, allocSize |-> 0]
        BY <3>1 DEF PoolIInv, HeaderInv
      <3>3. p = q
        BY <3>2 DEF Made
      <3>4. QED
        BY <3>1, <3>3
    <2>2. f \in [I -> Made(p)]
      BY <1>5
    <2>3. f \in Surjection(I, Made(p))
      BY <2>1, <2>2 DEF Surjection
    <2>4. QED
      BY <1>3, <1>4, <1>6, <2>3, FS_Injection
  <1>9. QED
    BY <1>3, <1>7, <1>8

\* A block is in at most one place, and in one of them.
LEMMA OnePlace ==
  ASSUME PoolIInv, NEW b \in Blocks
  PROVE  /\ Cardinality(Places(b)) = IF b \in Listed THEN 1 ELSE 0
         /\ Cardinality(Carriers(b)) = IF b \in InHand THEN 1 ELSE 0
  <1>1. \A p \in PoolSizes : DOMAIN header[p] = 1..Len(header[p])
    BY DEF PoolIInv, FieldInv
  <1>2. \A x : x \in Places(b) <=> \E p \in PoolSizes : \E i \in 1..Len(header[p]) :
                                     x = <<p, i>> /\ header[p][i] = b
    BY <1>1 DEF Places
  <1>3. Cardinality(Places(b)) = IF b \in Listed THEN 1 ELSE 0
    <2>1. CASE b \in Listed
      <3>0. PICK p \in PoolSizes : \E i \in 1..Len(header[p]) : header[p][i] = b
        BY <2>1, Members
      <3>1. PICK i \in 1..Len(header[p]) : header[p][i] = b
        BY <3>0
      <3>2. \A q \in PoolSizes : \A k \in 1..Len(header[q]) : header[q][k] = b => q = p /\ k = i
        BY <3>1 DEF PoolIInv, PlaceInv, ListsApart
      <3>3. \A x : x \in Places(b) <=> x = <<p, i>>
        BY <1>2, <3>1, <3>2
      <3>4. Places(b) = {<<p, i>>}
        BY <3>3
      <3>5. QED
        BY <2>1, <3>4, FS_Singleton
    <2>2. CASE b \notin Listed
      <3>1. Places(b) = {}
        BY <1>2, <2>2, Members
      <3>2. QED
        BY <2>2, <3>1, FS_EmptySet
    <2>3. QED
      BY <2>1, <2>2
  <1>4. Cardinality(Carriers(b)) = IF b \in InHand THEN 1 ELSE 0
    <2>1. \A t : t \in Carriers(b) <=> t \in Threads /\ Carries(t) /\ op[t].block = b
      BY DEF Carriers, Carries
    <2>2. CASE b \in InHand
      <3>1. PICK t \in Threads : Carries(t) /\ op[t].block = b
        BY <2>2 DEF InHand
      <3>2. \A u : u \in Carriers(b) <=> u = t
        BY <2>1, <3>1 DEF PoolIInv, PlaceInv, HandsApart
      <3>3. Carriers(b) = {t}
        BY <3>2
      <3>4. QED
        BY <2>2, <3>3, FS_Singleton
    <2>3. CASE b \notin InHand
      <3>1. Carriers(b) = {}
        BY <2>1, <2>3 DEF InHand
      <3>2. QED
        BY <2>3, <3>1, FS_EmptySet
    <2>4. QED
      BY <2>2, <2>3
  <1>5. QED
    BY <1>3, <1>4

\* What the header of a block in use tells.
LEMMA HeaderOfUsed ==
  ASSUME PoolIInv, NEW b \in InUse
  PROVE  /\ made[b].allocSize \in DOMAIN PoolOf /\ made[b].allocSize > 0
         /\ PoolOf[made[b].allocSize] = made[b].pool
         /\ made[b].pool \in PoolSizes /\ made[b].allocSize <= made[b].pool
  <1>0. InUseMembers
    BY Used DEF PoolIInv
  <1>1. PICK t \in Threads : \E i \in 1..Len(objects[t]) : objects[t][i].block = b /\ b # NoBlock
    BY <1>0 DEF InUseMembers
  <1>2. PICK i \in 1..Len(objects[t]) : objects[t][i].block = b /\ b # NoBlock
    BY <1>1
  <1>3. Labelled(objects[t][i])
    BY <1>2 DEF PoolIInv, HeaderInv
  <1>4. PICK size \in DOMAIN PoolOf : made[b] = [pool |-> PoolOf[size], allocSize |-> size]
    BY <1>2, <1>3 DEF Labelled
  <1>5. size \in Nat /\ size > 0 /\ PoolOf[size] \in PoolSizes /\ size <= PoolOf[size]
    BY <1>4
  <1>6. made[b].allocSize = size /\ made[b].pool = PoolOf[size]
    BY <1>4
  <1>7. QED
    BY <1>5, <1>6

LEMMA BlocksSound == PoolIInv => BlocksInv
  <1> SUFFICES ASSUME PoolIInv PROVE BlocksInv
    OBVIOUS
  <1>1. TypeOK
    <2>1. ASSUME NEW p \in PoolSizes PROVE Len(header[p]) <= MaxBlocks
      <3>1. Len(header[p]) \in Nat /\ Len(made) \in Nat /\ Len(made) <= MaxBlocks
        BY DEF PoolIInv, FieldInv
      <3>2. Len(header[p]) <= Cardinality(Made(p)) /\ Cardinality(Made(p)) <= Len(made)
            /\ Cardinality(Made(p)) \in Nat
        BY ListLength, FS_CardinalityType
      <3>3. QED
        BY <3>1, <3>2
    <2>2. ASSUME NEW p \in PoolSizes, NEW i \in 1..Len(header[p]) PROVE header[p][i] \in Blocks
      BY Members DEF PoolIInv, PlaceInv
    <2>3. ASSUME NEW b \in Blocks
          PROVE  /\ made[b].pool \in PoolSizes
                 /\ made[b].allocSize = 0 \/ made[b].allocSize \in DOMAIN PoolOf
      <3>1. b \in Listed \/ b \in InHand \/ b \in InUse
        BY DEF PoolIInv, PlaceInv
      <3>2. CASE b \in Listed
        <4>0. PICK p \in PoolSizes : \E i \in 1..Len(header[p]) : header[p][i] = b
          BY <3>2, Members
        <4>1. made[b] = [pool |-> p, allocSize |-> 0]
          BY <4>0 DEF PoolIInv, HeaderInv
        <4>2. QED
          BY <4>1
      <3>3. CASE b \in InHand
        <4>1. PICK t \in Threads : Carries(t) /\ op[t].block = b
          BY <3>3 DEF InHand
        <4>2. made[b] = [pool |-> op[t].pool,
                         allocSize |-> IF op[t].at = "clear" THEN op[t].size ELSE 0]
          BY <4>1 DEF PoolIInv, HeaderInv
        <4>3. op[t].pool \in PoolSizes /\ op[t].size \in DOMAIN PoolOf
          BY <4>1, Working DEF Carries
        <4>4. QED
          BY <4>2, <4>3
      <3>4. CASE b \in InUse
        BY <3>4, HeaderOfUsed
      <3>5. QED
        BY <3>1, <3>2, <3>3, <3>4
    <2>4. PoolTypeOK
      BY <2>1, <2>2, <2>3 DEF PoolTypeOK, PoolIInv, FieldInv, OpInv
    <2>5. QED
      BY <2>4 DEF TypeOK, PoolIInv, FieldInv
  <1>2. BlocksOnce(InUse)
    <2>1. ASSUME NEW b \in Blocks
          PROVE  Cardinality(Places(b)) + Cardinality(Carriers(b))
                   + (IF b \in InUse THEN 1 ELSE 0) = 1
      <3>1. \/ b \in Listed /\ b \notin InHand /\ b \notin InUse
            \/ b \notin Listed /\ b \in InHand /\ b \notin InUse
            \/ b \notin Listed /\ b \notin InHand /\ b \in InUse
        BY DEF PoolIInv, PlaceInv
      <3>2. QED
        BY <3>1, OnePlace
    <2>2. QED
      BY <2>1 DEF BlocksOnce, PoolIInv, PlaceInv, HeaderInv
  <1>3. HeadersTell(InUse)
    <2>1. ASSUME NEW t \in Threads, op[t].at = "reuse" PROVE made[op[t].block].allocSize = 0
      <3>1. made[op[t].block] = [pool |-> op[t].pool, allocSize |-> 0]
        BY <2>1 DEF PoolIInv, HeaderInv, Carries
      <3>2. QED
        BY <3>1
    <2>2. QED
      BY <2>1, HeaderOfUsed DEF HeadersTell
  <1>4. StatisticsExact
    <2> SUFFICES ASSUME Printing, NEW p \in PoolSizes
                 PROVE  useCount[p] = 0 /\ reserveCount[p] = Cardinality(Made(p))
      BY DEF StatisticsExact, Made
    <2>1. \A t \in Threads : op[t] = Idle /\ objects[t] = <<>>
      BY DEF PoolIInv, PhaseInv
    <2>2. InUse = {} /\ InHand = {}
      <3>1. InUseMembers
        BY Used DEF PoolIInv
      <3>2. \A t \in Threads : Len(objects[t]) = 0 /\ ~Carries(t)
        BY <2>1 DEF Carries, Idle
      <3>3. \A b : b \notin InUse
        BY <3>1, <3>2 DEF InUseMembers
      <3>4. QED
        BY <3>2, <3>3 DEF InHand
    <2>3. Len(header[p]) = Cardinality(Made(p)) /\ Len(header[p]) \in Nat
      <3>1. Made(p) \subseteq Listed
        BY <2>2 DEF PoolIInv, PlaceInv, Made
      <3>2. QED
        BY <3>1, ListLength DEF PoolIInv, FieldInv
    <2>4. /\ {b \in InUse : made[b].pool = p} = {}
          /\ At(p, {"attach", "clear", "push", "unuse"}) = {}
          /\ At(p, {"reuse"}) = {} /\ At(p, {"unuse", "reserve"}) = {}
      BY <2>1, <2>2 DEF At, Idle
    <2>5. /\ useCount[p] = Cardinality({}) + Cardinality({})
          /\ reserveCount[p] = Len(header[p]) + Cardinality({}) - Cardinality({})
      BY <2>4 DEF PoolIInv, CountsBehind
    <2>6. QED
      BY <2>3, <2>5, FS_EmptySet
  <1>5. QED
    BY <1>1, <1>2, <1>3, <1>4 DEF BlocksInv, PoolIInv, PlaceInv

THEOREM BlocksAreSound == Spec => []BlocksInv
  BY PoolIsInvariant, BlocksSound, PTL

-----------------------------------------------------------------------------
\* The store that the pools implement.
Room == [b \in 1..MaxBlocks |-> IF b \in Blocks THEN made[b].pool ELSE 0]
Entry(t, x) == [user |-> t, block |-> x.block, size |-> x.size + HeaderSize]
Given == {[user |-> o[1], block |-> BlockOf(o),
           size |-> objects[o[1]][o[2]].size + HeaderSize] : o \in Live}

Grows ==
  /\ \E b \in 1..MaxBlocks : Room[b] = 0 /\ \E n \in PoolSizes : Room' = [Room EXCEPT ![b] = n]
  /\ Given' = Given
Gets ==
  /\ \E t \in Threads, b \in 1..MaxBlocks, n \in DOMAIN PoolOf :
       /\ n <= Room[b] /\ \A u \in Given : u.block # b
       /\ Given' = Given \cup {[user |-> t, block |-> b, size |-> n]}
  /\ Room' = Room
GivesBack == (\E u \in Given : Given' = Given \ {u}) /\ Room' = Room
Stutters == Given' = Given /\ Room' = Room
StoreStep == Grows \/ Gets \/ GivesBack \/ Stutters

GivenMembers ==
  \A r : r \in Given <=> \E t \in Threads : \E i \in 1..Len(objects[t]) :
                           r = Entry(t, objects[t][i]) /\ objects[t][i].block # NoBlock
LEMMA GivenHas == FieldInv => GivenMembers
  <1> SUFFICES ASSUME FieldInv PROVE GivenMembers
    OBVIOUS
  <1>1. \A t \in Threads : DOMAIN objects[t] = 1..Len(objects[t])
    BY DEF FieldInv
  <1>2. \A o : o \in Live <=> \E t \in Threads : \E i \in 1..Len(objects[t]) :
                                o = <<t, i>> /\ objects[t][i].block # NoBlock
    BY <1>1 DEF Live, BlockOf
  <1>3. ASSUME NEW o \in Live
        PROVE  \E t \in Threads : \E i \in 1..Len(objects[t]) :
                 /\ objects[t][i].block # NoBlock
                 /\ [user |-> o[1], block |-> BlockOf(o),
                     size |-> objects[o[1]][o[2]].size + HeaderSize] = Entry(t, objects[t][i])
    BY <1>2 DEF BlockOf, Entry
  <1>4. ASSUME NEW t \in Threads, NEW i \in 1..Len(objects[t]), objects[t][i].block # NoBlock
        PROVE  Entry(t, objects[t][i]) \in Given
    <2>1. <<t, i>> \in Live
      BY <1>2, <1>4
    <2>2. <<t, i>>[1] = t /\ <<t, i>>[2] = i
      OBVIOUS
    <2>3. QED
      BY <2>1, <2>2 DEF Given, Entry, BlockOf
  <1>5. ASSUME NEW r \in Given
        PROVE  \E o \in Live : r = [user |-> o[1], block |-> BlockOf(o),
                                    size |-> objects[o[1]][o[2]].size + HeaderSize]
    BY DEF Given
  <1>6. QED
    BY <1>3, <1>4, <1>5 DEF GivenMembers

LEMMA RoomStays ==
  ASSUME Blocks' = Blocks, \A c \in Blocks : made'[c].pool = made[c].pool
  PROVE  Room' = Room
  BY DEF Room

LEMMA GivenStays ==
  ASSUME objects' = objects
  PROVE  Given' = Given
  BY DEF Given, Live, BlockOf

\* Storage that is in no block is not the pools'.
LEMMA NothingGiven ==
  ASSUME FieldInv, \A t \in Threads : \A i \in 1..Len(objects[t]) : objects[t][i].block = NoBlock
  PROVE  Given = {}
  BY GivenHas DEF GivenMembers

LEMMA MakeGrows ==
  ASSUME PoolIInv, NEW t \in Threads, PopMake(t), objects' = objects
  PROVE  Grows
  <1> DEFINE q == op[t].pool
  <1>1. PICK b \in Nat : b = Len(made) + 1
    BY DEF PoolIInv, FieldInv
  <1>2. /\ op[t].at = "make" /\ Len(made) < MaxBlocks
        /\ made' = Append(made, [pool |-> q, allocSize |-> 0])
    BY DEF PopMake
  <1>3. q \in PoolSizes
    BY <1>2, Working
  <1>4. /\ Len(made) \in Nat /\ Len(made') = b
        /\ made'[b] = [pool |-> q, allocSize |-> 0]
        /\ \A c \in 1..Len(made) : made'[c] = made[c]
    <2> DEFINE x == [pool |-> q, allocSize |-> 0]
               H == [pool : PoolSizes, allocSize : Nat]
    <2>1. x \in H /\ made \in Seq(H)
      BY <1>3 DEF PoolIInv, FieldInv
    <2> HIDE DEF x, H
    <2>2. made' = Append(made, x)
      BY <1>2 DEF x
    <2>3. /\ Len(made) \in Nat /\ Len(made') = b /\ made'[b] = x
          /\ \A c \in 1..Len(made) : made'[c] = made[c]
      BY <1>1, <2>1, <2>2, AppendProperties
    <2>4. QED
      BY <2>3 DEF x
  <1>5. b \in 1..MaxBlocks /\ b \notin Blocks /\ Blocks' = Blocks \cup {b}
    BY <1>1, <1>2, <1>4 DEF Blocks
  <1>6. Room[b] = 0
    BY <1>5 DEF Room
  <1>7. \A c \in 1..MaxBlocks : Room'[c] = IF c = b THEN q ELSE Room[c]
    BY <1>4, <1>5 DEF Room, Blocks
  <1>8. Room' = [Room EXCEPT ![b] = q]
    <2>1. Room = [c \in 1..MaxBlocks |-> Room[c]] /\ Room' = [c \in 1..MaxBlocks |-> Room'[c]]
      BY DEF Room
    <2>2. QED
      BY <1>5, <1>7, <2>1
  <1>9. QED
    BY <1>3, <1>5, <1>6, <1>8, GivenStays DEF Grows

LEMMA ConstructedGets ==
  ASSUME PoolIInv, PoolIInv', NEW t \in Threads, Constructed(t)
  PROVE  Gets
  <1> DEFINE X == [size : Int, block : Nat]
  <1>0. PICK b \in Nat : b = op[t].block
    BY DEF PoolIInv, FieldInv
  <1>a. PICK n \in Nat : n = op[t].size
    BY DEF PoolIInv, FieldInv
  <1>b. PICK x \in X : x = [size |-> n - HeaderSize, block |-> b]
    <2>1. n - HeaderSize \in Int
      OBVIOUS
    <2>2. [size |-> n - HeaderSize, block |-> b] \in X
      BY <2>1
    <2>3. QED
      BY <2>2
  <1>1. /\ op[t].at = "attach"
        /\ made' = [made EXCEPT ![b].allocSize = n]
        /\ objects' = [objects EXCEPT ![t] = Append(@, x)]
    BY <1>0, <1>a, <1>b DEF Constructed, Attach, Keep
  <1>2. /\ n \in DOMAIN PoolOf /\ op[t].pool = PoolOf[n] /\ Carries(t)
        /\ b \in Blocks /\ b # NoBlock /\ b \notin InUse
    BY <1>0, <1>a, <1>1, Working DEF Carries
  <1>3. made[b].pool = PoolOf[n]
    <2>1. made[b] = [pool |-> op[t].pool, allocSize |-> 0]
      BY <1>0, <1>1, <1>2 DEF PoolIInv, HeaderInv
    <2>2. QED
      BY <1>2, <2>1
  <1>4. /\ Len(made') = Len(made) /\ \A c \in Blocks \ {b} : made'[c] = made[c]
        /\ made'[b] = [pool |-> made[b].pool, allocSize |-> n]
    BY <1>1, <1>2, SizeIsSet DEF PoolIInv, FieldInv
  <1>5. Room' = Room
    <2>1. Blocks' = Blocks
      BY <1>4 DEF Blocks
    <2>2. \A c \in Blocks : made'[c].pool = made[c].pool
      BY <1>4
    <2>3. QED
      BY <2>1, <2>2, RoomStays
  <1>6. b \in 1..MaxBlocks /\ n <= Room[b]
    <2>1. Len(made) \in Nat /\ Len(made) <= MaxBlocks
      BY DEF PoolIInv, FieldInv
    <2>2. b \in 1..MaxBlocks
      BY <1>2, <2>1 DEF Blocks
    <2>3. Room[b] = PoolOf[n]
      BY <1>2, <1>3, <2>2 DEF Room
    <2>4. QED
      BY <1>2, <2>2, <2>3
  <1>7. GivenMembers /\ GivenMembers' /\ InUseMembers
    <2>1. FieldInv
      BY DEF PoolIInv
    <2>2. FieldInv'
      BY DEF PoolIInv
    <2>3. GivenMembers'
      BY <2>2, GivenHas, PTL
    <2>4. QED
      BY <2>1, <2>3, GivenHas, Used
  <1>8. \A u \in Given : u.block # b
    <2> SUFFICES ASSUME NEW u \in Given PROVE u.block \in InUse
      BY <1>2
    <2>1. PICK v \in Threads : \E i \in 1..Len(objects[v]) :
            u = Entry(v, objects[v][i]) /\ objects[v][i].block # NoBlock
      BY <1>7 DEF GivenMembers
    <2>2. PICK i \in 1..Len(objects[v]) :
            u = Entry(v, objects[v][i]) /\ objects[v][i].block # NoBlock
      BY <2>1
    <2>3. u.block = objects[v][i].block
      BY <2>2 DEF Entry
    <2>4. QED
      BY <1>7, <2>2, <2>3 DEF InUseMembers
  <1>9. Given' = Given \cup {[user |-> t, block |-> b, size |-> n]}
    <2>1. objects \in [Threads -> Seq(X)]
      BY DEF PoolIInv, FieldInv
    <2> HIDE DEF X
    <2>2. /\ objects'[t] = Append(objects[t], x) /\ Len(objects[t]) \in Nat
          /\ \A u \in Threads \ {t} : objects'[u] = objects[u]
      BY <1>1, <2>1
    <2>3. /\ Len(objects'[t]) = Len(objects[t]) + 1
          /\ objects'[t][Len(objects[t]) + 1] = x
          /\ \A i \in 1..Len(objects[t]) : objects'[t][i] = objects[t][i]
      BY <2>1, <2>2, AppendProperties
    <2>4. Entry(t, x) = [user |-> t, block |-> b, size |-> n] /\ x.block = b
      <3>1. x.block = b /\ x.size + HeaderSize = n
        BY <1>b
      <3>2. QED
        BY <3>1 DEF Entry
    <2>5. ASSUME NEW r \in Given PROVE r \in Given'
      <3>1. PICK u \in Threads : \E i \in 1..Len(objects[u]) :
              r = Entry(u, objects[u][i]) /\ objects[u][i].block # NoBlock
        BY <1>7 DEF GivenMembers
      <3>2. PICK i \in 1..Len(objects[u]) :
              r = Entry(u, objects[u][i]) /\ objects[u][i].block # NoBlock
        BY <3>1
      <3>3. i \in 1..Len(objects'[u]) /\ objects'[u][i] = objects[u][i]
        BY <2>2, <2>3
      <3>4. QED
        BY <1>7, <3>2, <3>3 DEF GivenMembers, Entry
    <2>6. Entry(t, x) \in Given'
      <3>1. Len(objects[t]) + 1 \in 1..Len(objects'[t])
        BY <2>2, <2>3
      <3>2. QED
        BY <1>2, <1>7, <2>3, <2>4, <3>1 DEF GivenMembers, Entry
    <2>7. ASSUME NEW r \in Given' PROVE r \in Given \/ r = Entry(t, x)
      <3>1. PICK u \in Threads : \E i \in 1..Len(objects'[u]) :
              r = Entry(u, objects'[u][i]) /\ objects'[u][i].block # NoBlock
        BY <1>7 DEF GivenMembers, Entry
      <3>2. PICK i \in 1..Len(objects'[u]) :
              r = Entry(u, objects'[u][i]) /\ objects'[u][i].block # NoBlock
        BY <3>1
      <3>3. CASE u = t /\ i = Len(objects[t]) + 1
        BY <2>3, <3>2, <3>3
      <3>4. CASE ~(u = t /\ i = Len(objects[t]) + 1)
        <4>1. i \in 1..Len(objects[u])
          BY <2>2, <2>3, <3>4
        <4>2. objects'[u][i] = objects[u][i]
          BY <2>2, <2>3, <4>1
        <4>3. QED
          BY <1>7, <3>2, <4>1, <4>2 DEF GivenMembers
      <3>5. QED
        BY <3>3, <3>4
    <2>8. QED
      BY <2>4, <2>5, <2>6, <2>7
  <1>10. QED
    BY <1>2, <1>5, <1>6, <1>8, <1>9 DEF Gets

LEMMA DeleteGivesBack ==
  ASSUME PoolIInv, PoolIInv', NEW t \in Threads, Pooled, Delete(t)
  PROVE  GivesBack
  <1>1. PICK i \in Chosen(t) : objects' = [objects EXCEPT ![t] = Without(t, i)]
                               /\ Release(t, objects[t][i].block)
    BY DEF Delete
  <1>2. FieldInv /\ made' = made
    BY <1>1 DEF PoolIInv, Release
  <1>3. i \in 1..Len(objects[t]) /\ Remains(objects[t], i, Without(t, i))
    BY <1>2, Deletes
  <1>4. /\ \A u \in Threads \ {t} : objects'[u] = objects[u]
        /\ Remains(objects[t], i, objects'[t])
    BY <1>1, <1>2, <1>3 DEF FieldInv
  <1>5. GivenMembers /\ GivenMembers' /\ InUseMembers
    <2>1. FieldInv'
      BY DEF PoolIInv
    <2>2. GivenMembers'
      BY <2>1, GivenHas, PTL
    <2>3. QED
      BY <1>2, <2>2, GivenHas, Used
  <1>6. objects[t][i].block # NoBlock
    BY <1>3 DEF PoolIInv, PhaseInv
  <1> DEFINE g == Entry(t, objects[t][i])
  <1>7. g \in Given
    BY <1>3, <1>5, <1>6 DEF GivenMembers
  <1>8. \A u \in Threads : \A k \in 1..Len(objects[u]) :
          objects[u][k].block = objects[t][i].block => u = t /\ k = i
    BY <1>3, <1>5, <1>6 DEF InUseMembers, PoolIInv, PlaceInv
  <1>9. ASSUME NEW r \in Given, r # g PROVE r \in Given'
    <2>1. PICK u \in Threads : \E k \in 1..Len(objects[u]) :
            r = Entry(u, objects[u][k]) /\ objects[u][k].block # NoBlock
      BY <1>5 DEF GivenMembers
    <2>2. PICK k \in 1..Len(objects[u]) :
            r = Entry(u, objects[u][k]) /\ objects[u][k].block # NoBlock
      BY <2>1
    <2>3. ~(u = t /\ k = i)
      BY <1>9, <2>2
    <2>4. \E m \in 1..Len(objects'[u]) : objects'[u][m] = objects[u][k]
      <3>1. CASE u = t
        BY <1>4, <2>3, <3>1 DEF Remains
      <3>2. CASE u # t
        BY <1>4, <3>2
      <3>3. QED
        BY <3>1, <3>2
    <2>5. QED
      BY <1>5, <2>2, <2>4 DEF GivenMembers, Entry
  <1>10. ASSUME NEW r \in Given' PROVE r \in Given /\ r # g
    <2>1. PICK u \in Threads : \E k \in 1..Len(objects'[u]) :
            r = Entry(u, objects'[u][k]) /\ objects'[u][k].block # NoBlock
      BY <1>5 DEF GivenMembers, Entry
    <2>2. PICK k \in 1..Len(objects'[u]) :
            r = Entry(u, objects'[u][k]) /\ objects'[u][k].block # NoBlock
      BY <2>1
    <2>3. \E m \in 1..Len(objects[u]) : ~(u = t /\ m = i) /\ objects'[u][k] = objects[u][m]
      <3>1. CASE u = t
        BY <1>4, <3>1 DEF Remains
      <3>2. CASE u # t
        BY <1>4, <3>2
      <3>3. QED
        BY <3>1, <3>2
    <2>4. PICK m \in 1..Len(objects[u]) : ~(u = t /\ m = i) /\ objects'[u][k] = objects[u][m]
      BY <2>3
    <2>5. objects[u][m].block # objects[t][i].block
      BY <1>8, <2>4
    <2>6. r.block = objects[u][m].block /\ g.block = objects[t][i].block
      BY <2>2, <2>4 DEF Entry
    <2>7. QED
      BY <1>5, <2>2, <2>4, <2>5, <2>6 DEF GivenMembers
  <1>11. Given' = Given \ {g}
    BY <1>9, <1>10
  <1>12. Room' = Room
    BY <1>2, RoomStays DEF Blocks
  <1>13. QED
    BY <1>7, <1>11, <1>12 DEF GivesBack

LEMMA PoolsStore == PoolIInv /\ PoolIInv' /\ [Next]_vars => StoreStep
  <1> SUFFICES ASSUME PoolIInv, PoolIInv', [Next]_vars PROVE StoreStep
    OBVIOUS
  <1>1. ASSUME made' = made, objects' = objects PROVE StoreStep
    <2>1. Room' = Room
      BY <1>1, RoomStays DEF Blocks
    <2>2. QED
      BY <1>1, <2>1, GivenStays DEF StoreStep, Stutters
  <1>2. ASSUME made' = made, ~Pooled, test' = test PROVE StoreStep
    <2>1. Room' = Room
      BY <1>2, RoomStays DEF Blocks
    <2>2. Given = {}
      BY <1>2, NothingGiven DEF PoolIInv, PhaseInv
    <2>3. FieldInv' /\ \A t \in Threads : \A i \in 1..Len(objects'[t]) :
                         objects'[t][i].block = NoBlock
      BY <1>2 DEF PoolIInv, PhaseInv, Pooled
    <2>4. GivenMembers'
      BY <2>3, GivenHas, PTL
    <2>5. Given' = {}
      BY <2>3, <2>4 DEF GivenMembers
    <2>6. QED
      BY <2>1, <2>2, <2>5 DEF StoreStep, Stutters
  <1>3. CASE NextTest \/ UNCHANGED vars
    BY <1>1, <1>3 DEF NextTest, vars, poolVars
  <1>4. ASSUME NEW t \in Threads, Thread(t) PROVE StoreStep
    <2>1. CASE New(t)
      BY <1>2, <2>1 DEF New, poolVars
    <2>2. CASE Xnew(t)
      BY <1>1, <2>2 DEF Xnew, Allocate
    <2>3. CASE Constructed(t)
      BY <2>3, ConstructedGets DEF StoreStep
    <2>4. CASE Delete(t) /\ Pooled
      BY <2>4, DeleteGivesBack DEF StoreStep
    <2>5. CASE Delete(t) /\ ~Pooled
      BY <1>2, <2>5 DEF Delete, poolVars
    <2>6. CASE PoolStep(t) /\ UNCHANGED <<test, left, objects>>
      <3>1. CASE PopMake(t)
        BY <2>6, <3>1, MakeGrows DEF StoreStep
      <3>2. CASE PushClear(t)
        <4>1. /\ op[t].at = "clear" /\ made' = [made EXCEPT ![op[t].block].allocSize = 0]
          BY <3>2 DEF PushClear
        <4>2. op[t].block \in Blocks
          BY <4>1, Working DEF Carries
        <4>3. made \in Seq([pool : PoolSizes, allocSize : Nat])
          BY DEF PoolIInv, FieldInv
        <4>4. /\ Len(made') = Len(made) /\ \A c \in Blocks \ {op[t].block} : made'[c] = made[c]
              /\ made'[op[t].block] = [pool |-> made[op[t].block].pool, allocSize |-> 0]
          BY <4>1, <4>2, <4>3, SizeIsSet
        <4>5. Blocks' = Blocks /\ \A c \in Blocks : made'[c].pool = made[c].pool
          BY <4>4 DEF Blocks
        <4>6. QED
          BY <2>6, <4>5, RoomStays, GivenStays DEF StoreStep, Stutters
      <3>3. CASE PopEntry(t) \/ PopReuse(t) \/ PopUse(t)
        BY <1>1, <2>6, <3>3 DEF PopEntry, PopReuse, PopUse
      <3>4. CASE PushEntry(t) \/ PushUnuse(t) \/ PushReserve(t)
        BY <1>1, <2>6, <3>4 DEF PushEntry, PushUnuse, PushReserve
      <3>5. QED
        BY <2>6, <3>1, <3>2, <3>3, <3>4 DEF PoolStep
    <2>7. QED
      BY <1>4, <2>1, <2>2, <2>3, <2>4, <2>5, <2>6 DEF Thread
  <1>5. QED
    BY <1>3, <1>4 DEF Next

\* The pools implement the store: a thread gets a block that is large enough and
\* that no other object is in, whatever the interleaving of pops and pushes.
THEOREM PoolsAreAStore == Spec => RefinesBlockStore
  <1>1. Init => Store!Init
    <2> SUFFICES ASSUME Init PROVE Store!Init
      OBVIOUS
    <2>1. Blocks = {}
      BY DEF Init, PoolInit, Blocks
    <2>2. \A t \in Threads : Len(objects[t]) = 0
      BY DEF Init
    <2>3. Given = {}
      BY <2>2, PoolIInit, NothingGiven DEF PoolIInv
    <2>4. Room = [b \in 1..MaxBlocks |-> 0]
      BY <2>1 DEF Room
    <2>5. QED
      BY <2>3, <2>4 DEF Store!Init, Room, Given
  <1>2. PoolIInv /\ PoolIInv' /\ [Next]_vars => [Store!Next]_(Store!vars)
    <2> SUFFICES ASSUME PoolIInv, PoolIInv', [Next]_vars PROVE [Store!Next]_(Store!vars)
      OBVIOUS
    <2>1. StoreStep
      BY PoolsStore
    <2>2. QED
      BY <2>1 DEF StoreStep, Grows, Gets, GivesBack, Stutters, Room, Given, Store!Next,
                  Store!vars, Store!Grow, Store!Get, Store!GiveBack
  <1>3. QED
    BY <1>1, <1>2, PoolIsInvariant, PTL DEF Spec, RefinesBlockStore, Store!Spec
=============================================================================
