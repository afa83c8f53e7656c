----------------------------- MODULE MemoryPool -----------------------------
(***************************************************************************)
(* The memory pools: one free list of blocks for each block size, which    *)
(* all threads pop from and push to without a lock, and two counters for   *)
(* the statistics.  A list is an interlocked SList of Windows: its pop and *)
(* its push are atomic; every other access of a block's header or of a     *)
(* counter is a step of its own.  A block is named by the order in which   *)
(* it was made; an object is known by the block it lies in.                *)
(***************************************************************************)
EXTENDS Naturals, Integers, Sequences, FiniteSets

CONSTANTS
    Threads,
    PoolSizes,      \* the block size of each pool
    PoolOf,         \* the pool for each size with its header
    MaxBlocks       \* bound: blocks that are ever made

ASSUME MemoryPoolAssumption ==
    /\ IsFiniteSet(Threads)
    /\ PoolSizes \subseteq Nat \ {0} /\ MaxBlocks \in Nat
    /\ DOMAIN PoolOf \subseteq Nat \ {0}
    /\ \A size \in DOMAIN PoolOf : PoolOf[size] \in PoolSizes /\ size <= PoolOf[size]

NoBlock == 0
Idle == [at |-> "idle", pool |-> 0, size |-> 0, block |-> NoBlock]

VARIABLES
    header,         \* the SList of each pool, the last block pushed first
    useCount, reserveCount,
    made,           \* of each block: its pool and its allocSize
    op              \* what each thread does in the pools

poolVars == <<header, useCount, reserveCount, made, op>>

Blocks == 1..Len(made)

PoolInit ==
    /\ header = [p \in PoolSizes |-> <<>>]
    /\ useCount = [p \in PoolSizes |-> 0] /\ reserveCount = [p \in PoolSizes |-> 0]
    /\ made = <<>>
    /\ op = [t \in Threads |-> Idle]

Goto(t, at) == op' = [op EXCEPT ![t].at = at]

-----------------------------------------------------------------------------
(* Memory::Allocate, MemoryPool::Pop.                                      *)

Allocate(t, size) ==
    /\ op[t] = Idle
    /\ op' = [op EXCEPT ![t] = [at |-> "pop", pool |-> PoolOf[size], size |-> size,
                                block |-> NoBlock]]
    /\ UNCHANGED <<header, useCount, reserveCount, made>>

\* A bug for comparison: the first block is read, and taken off the list later.
PopEntryLate(t) ==
    /\ op[t].at = "pop"
    /\ LET list == header[op[t].pool] IN
        \/ list = <<>> /\ Goto(t, "make") /\ UNCHANGED header
        \/ /\ list # <<>> /\ op[t].block = NoBlock
           /\ op' = [op EXCEPT ![t].block = Head(list)] /\ UNCHANGED header
        \/ /\ list # <<>> /\ op[t].block # NoBlock
           /\ Goto(t, "reuse") /\ header' = [header EXCEPT ![op[t].pool] = Tail(list)]
    /\ UNCHANGED <<useCount, reserveCount, made>>

PopEntry(t) ==
    /\ op[t].at = "pop"
    /\ LET list == header[op[t].pool] IN
        \/ list = <<>> /\ Goto(t, "make") /\ UNCHANGED header
        \/ /\ list # <<>>
           /\ op' = [op EXCEPT ![t].block = Head(list), ![t].at = "reuse"]
           /\ header' = [header EXCEPT ![op[t].pool] = Tail(list)]
    /\ UNCHANGED <<useCount, reserveCount, made>>

\* A new block has no header yet; what allocSize is in it is arbitrary.
PopMake(t) ==
    /\ op[t].at = "make" /\ Len(made) < MaxBlocks
    /\ made' = Append(made, [pool |-> op[t].pool, allocSize |-> 0])
    /\ op' = [op EXCEPT ![t].block = Len(made'), ![t].at = "use"]
    /\ UNCHANGED <<header, useCount, reserveCount>>

\* A bug for comparison: a counter that other threads are behind with is kept
\* from becoming negative.
PopReuseClamped(t) ==
    /\ op[t].at = "reuse" /\ made[op[t].block].allocSize = 0
    /\ reserveCount' = [reserveCount EXCEPT ![op[t].pool] = IF @ > 0 THEN @ - 1 ELSE @]
    /\ Goto(t, "use")
    /\ UNCHANGED <<header, useCount, made>>

\* ASSERT_CRASH(memory->allocSize == 0)
PopReuse(t) ==
    /\ op[t].at = "reuse" /\ made[op[t].block].allocSize = 0
    /\ reserveCount' = [reserveCount EXCEPT ![op[t].pool] = @ - 1]
    /\ Goto(t, "use")
    /\ UNCHANGED <<header, useCount, made>>

PopUse(t) ==
    /\ op[t].at = "use"
    /\ useCount' = [useCount EXCEPT ![op[t].pool] = @ + 1]
    /\ Goto(t, "attach")
    /\ UNCHANGED <<header, reserveCount, made>>

\* AttachHeader; Allocate returns the block.
Attach(t) ==
    /\ op[t].at = "attach"
    /\ made' = [made EXCEPT ![op[t].block].allocSize = op[t].size]
    /\ op' = [op EXCEPT ![t] = Idle]
    /\ UNCHANGED <<header, useCount, reserveCount>>

-----------------------------------------------------------------------------
(* Memory::Release, MemoryPool::Push.                                      *)

\* DetachHeader; the pool is found by the size in the header.
\* ASSERT_CRASH(allocSize > 0)
Release(t, block) ==
    /\ op[t] = Idle
    /\ LET size == made[block].allocSize IN
        /\ size > 0
        /\ op' = [op EXCEPT ![t] = [at |-> "clear", pool |-> PoolOf[size], size |-> size,
                                    block |-> block]]
    /\ UNCHANGED <<header, useCount, reserveCount, made>>

PushClear(t) ==
    /\ op[t].at = "clear"
    /\ made' = [made EXCEPT ![op[t].block].allocSize = 0]
    /\ Goto(t, "push")
    /\ UNCHANGED <<header, useCount, reserveCount>>

PushEntry(t) ==
    /\ op[t].at = "push"
    /\ header' = [header EXCEPT ![op[t].pool] = <<op[t].block>> \o @]
    /\ Goto(t, "unuse")
    /\ UNCHANGED <<useCount, reserveCount, made>>

PushUnuse(t) ==
    /\ op[t].at = "unuse"
    /\ useCount' = [useCount EXCEPT ![op[t].pool] = @ - 1]
    /\ Goto(t, "reserve")
    /\ UNCHANGED <<header, reserveCount, made>>

PushReserve(t) ==
    /\ op[t].at = "reserve"
    /\ reserveCount' = [reserveCount EXCEPT ![op[t].pool] = @ + 1]
    /\ op' = [op EXCEPT ![t] = Idle]
    /\ UNCHANGED <<header, useCount, made>>

PoolStep(t) ==
    \/ PopEntry(t) \/ PopMake(t) \/ PopReuse(t) \/ PopUse(t)
    \/ PushClear(t) \/ PushEntry(t) \/ PushUnuse(t) \/ PushReserve(t)

-----------------------------------------------------------------------------
(* Where the blocks are.                                                   *)

Places(block) ==
    {x \in UNION {{p} \X DOMAIN header[p] : p \in PoolSizes} : header[x[1]][x[2]] = block}
Carriers(block) ==
    {t \in Threads : op[t].block = block
                     /\ op[t].at \in {"reuse", "use", "attach", "clear", "push"}}
At(p, steps) == {t \in Threads : op[t].pool = p /\ op[t].at \in steps}

\* A block is in one place: in its pool's list, in the hands of one thread, or
\* in use, which is for the callers to know.
BlocksOnce(inUse) ==
    /\ inUse \subseteq Blocks
    /\ \A b \in Blocks :
        Cardinality(Places(b)) + Cardinality(Carriers(b))
            + (IF b \in inUse THEN 1 ELSE 0) = 1
    /\ \A p \in PoolSizes : \A i \in 1..Len(header[p]) :
        made[header[p][i]] = [pool |-> p, allocSize |-> 0]

\* A block in use has the size it was asked for in its header, which is how
\* Release finds the pool it came from; a block that is reused has none.
HeadersTell(inUse) ==
    /\ \A b \in inUse : made[b].allocSize > 0 /\ PoolOf[made[b].allocSize] = made[b].pool
                        /\ made[b].allocSize <= made[b].pool
    /\ \A t \in Threads : op[t].at = "reuse" => made[op[t].block].allocSize = 0

\* The counters are behind by exactly the steps that threads have yet to take;
\* reserveCount may be negative meanwhile.
CountsBehind(inUse) ==
    \A p \in PoolSizes :
        /\ useCount[p] = Cardinality({b \in inUse : made[b].pool = p})
                         + Cardinality(At(p, {"attach", "clear", "push", "unuse"}))
        /\ reserveCount[p] = Len(header[p]) + Cardinality(At(p, {"reuse"}))
                             - Cardinality(At(p, {"unuse", "reserve"}))

PoolTypeOK ==
    /\ \A p \in PoolSizes : Len(header[p]) <= MaxBlocks
    /\ \A p \in PoolSizes : \A i \in 1..Len(header[p]) : header[p][i] \in Blocks
    /\ useCount \in [PoolSizes -> Int] /\ reserveCount \in [PoolSizes -> Int]
    /\ \A b \in Blocks : made[b].pool \in PoolSizes
                         /\ (made[b].allocSize = 0 \/ made[b].allocSize \in DOMAIN PoolOf)
    /\ \A t \in Threads : op[t].block \in {NoBlock} \cup Blocks
=============================================================================
