--------------------------- MODULE PoolExperiment ---------------------------
(***************************************************************************)
(* The memory pool experiment: main runs its tests one after the other,    *)
(* each with new and delete and then with xnew and xdelete, some of them   *)
(* in several threads, and prints the counters of the pools at the end.    *)
(* Objects are told apart by their size only.                              *)
(***************************************************************************)
EXTENDS MemoryPool, SequencesExt

CONSTANTS
    Main, Workers,      \* the threads
    ObjectSizes,        \* the types that are tested
    HeaderSize,         \* sizeof(MemoryHeader)
    Iterations, ThreadIterations, StressIterations,     \* bounds of the tests
    Batch               \* "Allocate 100, free 100"

\* sizeof SmallObject, MediumObject, LargeObject and HugeObject
TypeSizes == {4 + 16, 4 + 4 + 8 + 112, 32 * 4 + 32 * 8 + 256, 128 * 4 + 128 * 8 + 1024}

ASSUME PoolExperimentAssumption ==
    /\ Threads = {Main} \cup Workers /\ ObjectSizes \subseteq TypeSizes
    /\ HeaderSize \in Nat
    /\ \A n \in ObjectSizes : n + HeaderSize \in DOMAIN PoolOf
    /\ Iterations \in Nat /\ ThreadIterations \in Nat /\ StressIterations \in Nat
    /\ Batch \in Nat \ {0}

VARIABLES
    test,       \* the test that is running, and ...
    left,       \* of each of its threads: the iterations to go,
    objects     \* and the objects it keeps, in its vector's order

vars == <<poolVars, test, left, objects>>

-----------------------------------------------------------------------------
MAX_ALLOC_SIZE == 4096

\* Initialize makes the pools; Allocate and Release find one by doubling.
ExperimentSizes == {32, 64, 128, 256, 512, 1024, 2048, MAX_ALLOC_SIZE}
PoolFor(allocSize) ==
    LET search[poolSize \in Nat] ==
            IF poolSize < allocSize THEN search[2 * poolSize] ELSE poolSize
    IN search[32]

-----------------------------------------------------------------------------
PlannedTest(pattern, who, sizes, n) == [pattern |-> pattern, who |-> who, sizes |-> sizes, n |-> n]
Smaller(n) == {m \in ObjectSizes : m < n}

\* Allocation and shared pointer tests, which use their objects alike.
TypeTests ==
    [k \in 1..Cardinality(ObjectSizes) |->
        PlannedTest("all", {Main}, {n \in ObjectSizes : Cardinality(Smaller(n)) = k - 1}, Iterations)]

MixedTests ==
    <<PlannedTest("mixed", {Main}, ObjectSizes, Iterations),
      PlannedTest("mixed", Workers, ObjectSizes, ThreadIterations)>>

StressTests ==
    [k \in 1..4 |->
        PlannedTest(<<"all", "one", "batch", "random">>[k], {Main}, ObjectSizes, StressIterations)]

Plan == TypeTests \o MixedTests \o StressTests

\* Each is run with new and delete, and then with the pools.
Tests == Len(Plan) * 2
Test == Plan[(test + 1) \div 2]
Pooled == test % 2 = 0
Printing == test = Tests + 1

Runs(t) == ~Printing /\ t \in Test.who /\ op[t] = Idle

StartsWith(n) ==
    [t \in Threads |-> IF n <= Tests /\ t \in Plan[(n + 1) \div 2].who
                       THEN Plan[(n + 1) \div 2].n ELSE 0]

Init ==
    /\ PoolInit
    /\ test = 1 /\ left = StartsWith(1)
    /\ objects = [t \in Threads |-> <<>>]

Round(t) == Test.n - left[t]

\* The thread makes one more object in this iteration.
MayMake(t) ==
    /\ left[t] > 0
    /\ Test.pattern = "one" => objects[t] = <<>>
    /\ Test.pattern = "batch" => objects[t] = <<>> \/ Round(t) % Batch # 0

MayDelete(t) ==
    \/ left[t] = 0 \/ Test.pattern \in {"one", "random"}
    \/ Test.pattern = "batch" /\ Round(t) % Batch = 0

\* Which one it deletes: any, mixed sizes being shuffled, or the first.
Chosen(t) ==
    IF Test.pattern = "mixed" \/ (Test.pattern = "random" /\ left[t] > 0)
    THEN DOMAIN objects[t] ELSE {1} \cap DOMAIN objects[t]

\* The random pattern moves the last pointer into the place of the deleted one.
Without(t, i) ==
    LET s == objects[t] IN
    IF Test.pattern = "random" /\ left[t] > 0
    THEN Front([s EXCEPT ![i] = Last(s)]) ELSE RemoveAt(s, i)

Keep(t, size, block) ==
    objects' = [objects EXCEPT ![t] = Append(@, [size |-> size, block |-> block])]

Iterate(t) == left' = [left EXCEPT ![t] = @ - 1]

-----------------------------------------------------------------------------
New(t) ==
    /\ Runs(t) /\ MayMake(t) /\ ~Pooled
    /\ \E n \in Test.sizes : Keep(t, n, NoBlock)
    /\ Iterate(t) /\ UNCHANGED <<poolVars, test>>

Xnew(t) ==
    /\ Runs(t) /\ MayMake(t) /\ Pooled
    /\ \E n \in Test.sizes : Allocate(t, n + HeaderSize)
    /\ Iterate(t) /\ UNCHANGED <<test, objects>>

Constructed(t) ==
    /\ Attach(t) /\ Keep(t, op[t].size - HeaderSize, op[t].block)
    /\ UNCHANGED <<test, left>>

\* A deletion of the random pattern is an iteration of its own.
Delete(t) ==
    /\ Runs(t) /\ MayDelete(t)
    /\ \E i \in Chosen(t) :
        /\ objects' = [objects EXCEPT ![t] = Without(t, i)]
        /\ IF Pooled THEN Release(t, objects[t][i].block) ELSE UNCHANGED poolVars
    /\ IF Test.pattern = "random" /\ left[t] > 0 THEN Iterate(t) ELSE UNCHANGED left
    /\ UNCHANGED test

\* The test ends, after its threads were joined.
NextTest ==
    /\ ~Printing
    /\ \A t \in Threads : op[t] = Idle /\ objects[t] = <<>> /\ left[t] = 0
    /\ test' = test + 1 /\ left' = StartsWith(test')
    /\ UNCHANGED <<poolVars, objects>>

Thread(t) ==
    \/ New(t) \/ Xnew(t) \/ Constructed(t) \/ Delete(t)
    \/ PoolStep(t) /\ UNCHANGED <<test, left, objects>>

Next == NextTest \/ \E t \in Threads : Thread(t)

Spec == Init /\ [][Next]_vars

-----------------------------------------------------------------------------
BlockOf(o) == objects[o[1]][o[2]].block
Live == {o \in UNION {{t} \X DOMAIN objects[t] : t \in Threads} : BlockOf(o) # NoBlock}
InUse == {BlockOf(o) : o \in Live}

TypeOK ==
    /\ PoolTypeOK
    /\ test \in 1..Tests + 1
    /\ \A t \in Threads : left[t] \in 0..Iterations + ThreadIterations + StressIterations

\* Two objects are never in the same block.
ObjectsApart == \A o, p \in Live : o # p => BlockOf(o) # BlockOf(p)

\* The statistics that main prints are exact: nothing is in use, and every
\* block that was made is in reserve (main.cpp:597).
StatisticsExact ==
    Printing => \A p \in PoolSizes :
        /\ useCount[p] = 0
        /\ reserveCount[p] = Cardinality({b \in Blocks : made[b].pool = p})

BlocksInv ==
    /\ TypeOK /\ BlocksOnce(InUse) /\ HeadersTell(InUse) /\ CountsBehind(InUse)
    /\ ObjectsApart /\ StatisticsExact

Store == INSTANCE BlockStore WITH
    Users <- Threads,
    Blocks <- 1..MaxBlocks,
    Sizes <- PoolSizes,
    Requests <- DOMAIN PoolOf,
    room <- [b \in 1..MaxBlocks |-> IF b \in Blocks THEN made[b].pool ELSE 0],
    inUse <- {[user |-> o[1], block |-> BlockOf(o),
               size |-> objects[o[1]][o[2]].size + HeaderSize] : o \in Live}
RefinesBlockStore == Store!Spec
=============================================================================
