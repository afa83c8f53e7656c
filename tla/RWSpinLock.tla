----------------------------- MODULE RWSpinLock -----------------------------
(***************************************************************************)
(* ServerCore/Lock.h, Lock.cpp: the recursive reader/writer spin lock      *)
(* behind every WRITE_LOCK and READ_LOCK of the server.  _lockFlag packs   *)
(* the writer's thread id (upper half) and the number of read guards       *)
(* (lower half) in one atomic word; _writeCount is a plain integer.        *)
(* Threads use the lock through scoped guards, hence last in, first out.   *)
(* Every atomic access of _lockFlag and every access of _writeCount is a   *)
(* step of its own.                                                        *)
(***************************************************************************)
EXTENDS Naturals, Sequences, FiniteSets

CONSTANTS Threads,    \* the values of LThreadId in use
          MaxDepth,   \* bound: guards one thread nests on this lock
          ReadSpan    \* READ_COUNT_MASK + 1, 2^16 in the code

ASSUME LockAssumption ==
  /\ Threads \subseteq 1..(ReadSpan - 1)
  /\ MaxDepth \in Nat \ {0}
  /\ ReadSpan \in Nat
  /\ Cardinality(Threads) * MaxDepth < ReadSpan

VARIABLES
  flag,        \* _lockFlag: [owner, readers], owner 0 when nobody writes
  writeCount,  \* _writeCount
  pc,          \* pc[t]: where thread t is inside the four operations
  expected,    \* expected[t]: the read count loaded by ReadLock
  held,        \* held[t]: thread t's live guards, innermost last
  crash        \* the CRASH that stopped the process, if any

vars == <<flag, writeCount, pc, expected, held, crash>>

Guard == {"R", "W"}
Spin  == {"wspin", "rload", "rcas"}
Pc    == {"idle", "winc", "wdec", "wstore", "radd"} \union Spin
Flag  == [owner : 0..(ReadSpan - 1), readers : 0..(ReadSpan - 1)]
Empty == [owner |-> 0, readers |-> 0]
Running == [why |-> "none", who |-> 0]

\* fetch_add(1) and fetch_sub(1) on the packed word: a carry out of the lower
\* half lands in the owner's bits.
PlusOne(f) ==
  IF f.readers + 1 < ReadSpan
  THEN [f EXCEPT !.readers = @ + 1]
  ELSE [owner |-> (f.owner + 1) % ReadSpan, readers |-> 0]

MinusOne(f) ==
  IF f.readers > 0
  THEN [f EXCEPT !.readers = @ - 1]
  ELSE [owner |-> (f.owner + ReadSpan - 1) % ReadSpan, readers |-> ReadSpan - 1]

Holds(t, g) == \E i \in 1..Len(held[t]) : held[t][i] = g
Top(t)      == held[t][Len(held[t])]

Init ==
  /\ flag = Empty
  /\ writeCount = 0
  /\ pc = [t \in Threads |-> "idle"]
  /\ expected = [t \in Threads |-> 0]
  /\ held = [t \in Threads |-> <<>>]
  /\ crash = Running

Goto(t, l) == pc' = [pc EXCEPT ![t] = l]
PushGuard(t, g) == held' = [held EXCEPT ![t] = Append(@, g)]
PopGuard(t) == held' = [held EXCEPT ![t] = SubSeq(@, 1, Len(@) - 1)]
Abort(t, why) == crash' = [why |-> why, who |-> t]

-----------------------------------------------------------------------------
\* Mutant: any owner passes for the own thread.
WriteLockAnyOwner(t) ==
  /\ pc[t] = "idle"
  /\ Len(held[t]) < MaxDepth
  /\ Goto(t, IF flag.owner # 0 THEN "winc" ELSE "wspin")
  /\ UNCHANGED <<flag, writeCount, expected, held, crash>>

\* WriteLock: recognise the own lock, otherwise spin.
WriteLock(t) ==
  /\ pc[t] = "idle"
  /\ Len(held[t]) < MaxDepth
  /\ Goto(t, IF flag.owner = t THEN "winc" ELSE "wspin")
  /\ UNCHANGED <<flag, writeCount, expected, held, crash>>

\* Mutant: the compare-exchange looks at the owner bits only.
WriteCasOwnerOnly(t) ==
  /\ pc[t] = "wspin"
  /\ flag.owner = 0
  /\ flag' = [flag EXCEPT !.owner = t]
  /\ Goto(t, "winc")
  /\ UNCHANGED <<writeCount, expected, held, crash>>

\* A compare-exchange that succeeds; one that fails changes nothing.
WriteCas(t) ==
  /\ pc[t] = "wspin"
  /\ flag = Empty
  /\ flag' = [owner |-> t, readers |-> 0]
  /\ Goto(t, "winc")
  /\ UNCHANGED <<writeCount, expected, held, crash>>

WriteAcquired(t) ==
  /\ pc[t] = "winc"
  /\ writeCount' = (writeCount + 1) % ReadSpan
  /\ Goto(t, "idle")
  /\ PushGuard(t, "W")
  /\ UNCHANGED <<flag, expected, crash>>

\* Mutant: the word is cleared before the counter is taken down.
WriteUnlockEarlyStore(t) ==
  /\ pc[t] = "idle"
  /\ held[t] # <<>> /\ Top(t) = "W"
  /\ IF flag.readers # 0
     THEN Abort(t, "INVALID_UNLOCK_ORDER") /\ UNCHANGED <<pc, flag>>
     ELSE Goto(t, "wdec") /\ flag' = Empty /\ UNCHANGED crash
  /\ UNCHANGED <<writeCount, expected, held>>

\* WriteUnlock: refuse while anybody reads, then count down.
WriteUnlock(t) ==
  /\ pc[t] = "idle"
  /\ held[t] # <<>> /\ Top(t) = "W"
  /\ IF flag.readers # 0
     THEN Abort(t, "INVALID_UNLOCK_ORDER") /\ UNCHANGED pc
     ELSE Goto(t, "wdec") /\ UNCHANGED crash
  /\ UNCHANGED <<flag, writeCount, expected, held>>

WriteDec(t) ==
  /\ pc[t] = "wdec"
  /\ writeCount' = (writeCount + ReadSpan - 1) % ReadSpan
  /\ Goto(t, IF writeCount' = 0 THEN "wstore" ELSE "idle")
  /\ PopGuard(t)
  /\ UNCHANGED <<flag, expected, crash>>

WriteStore(t) ==
  /\ pc[t] = "wstore"
  /\ flag' = Empty
  /\ Goto(t, "idle")
  /\ UNCHANGED <<writeCount, expected, held, crash>>

-----------------------------------------------------------------------------
\* ReadLock: a writer reads under its own lock, others wait for it to leave.
ReadLock(t) ==
  /\ pc[t] = "idle"
  /\ Len(held[t]) < MaxDepth
  /\ Goto(t, IF flag.owner = t THEN "radd" ELSE "rload")
  /\ UNCHANGED <<flag, writeCount, expected, held, crash>>

\* Mutant: a read guard under the own write lock is not counted.
ReadAddUncounted(t) ==
  /\ pc[t] = "radd"
  /\ Goto(t, "idle")
  /\ PushGuard(t, "R")
  /\ UNCHANGED <<flag, writeCount, expected, crash>>

ReadAdd(t) ==
  /\ pc[t] = "radd"
  /\ flag' = PlusOne(flag)
  /\ Goto(t, "idle")
  /\ PushGuard(t, "R")
  /\ UNCHANGED <<writeCount, expected, crash>>

\* Mutant: the loaded word is not masked with READ_COUNT_MASK.
ReadLoadUnmasked(t) ==
  /\ pc[t] = "rload"
  /\ expected' = [expected EXCEPT ![t] = flag.owner * ReadSpan + flag.readers]
  /\ Goto(t, "rcas")
  /\ UNCHANGED <<flag, writeCount, held, crash>>

ReadLoad(t) ==
  /\ pc[t] = "rload"
  /\ expected' = [expected EXCEPT ![t] = flag.readers]
  /\ Goto(t, "rcas")
  /\ UNCHANGED <<flag, writeCount, held, crash>>

\* Mutant: the expected value is loaded once, before the spin loop.
ReadCasStale(t) ==
  /\ pc[t] = "rcas"
  /\ IF flag = [owner |-> 0, readers |-> expected[t]]
     THEN /\ flag' = PlusOne(flag) /\ Goto(t, "idle") /\ PushGuard(t, "R")
          /\ expected' = [expected EXCEPT ![t] = 0]
     ELSE UNCHANGED <<flag, pc, held, expected>>
  /\ UNCHANGED <<writeCount, crash>>

\* The compare-exchange on "no writer and as many readers as I loaded"; the
\* local copy goes out of scope.
ReadCas(t) ==
  /\ pc[t] = "rcas"
  /\ IF flag = [owner |-> 0, readers |-> expected[t]]
     THEN flag' = PlusOne(flag) /\ Goto(t, "idle") /\ PushGuard(t, "R")
     ELSE Goto(t, "rload") /\ UNCHANGED <<flag, held>>
  /\ expected' = [expected EXCEPT ![t] = 0]
  /\ UNCHANGED <<writeCount, crash>>

ReadUnlock(t) ==
  /\ pc[t] = "idle"
  /\ held[t] # <<>> /\ Top(t) = "R"
  /\ flag' = MinusOne(flag)
  /\ IF flag.readers = 0
     THEN Abort(t, "MULTIPLE_UNLOCK") /\ UNCHANGED held
     ELSE PopGuard(t) /\ UNCHANGED crash
  /\ UNCHANGED <<writeCount, pc, expected>>

\* ACQUIRE_TIMEOUT_TICK passed while spinning.
LockTimeout(t) ==
  /\ pc[t] \in {"wspin", "rload"}
  /\ Abort(t, "LOCK_TIMEOUT")
  /\ UNCHANGED <<flag, writeCount, pc, expected, held>>

-----------------------------------------------------------------------------
\* What a thread does on its own once an operation has begun.
Inside(t) ==
  \/ WriteCas(t) \/ WriteAcquired(t) \/ WriteDec(t) \/ WriteStore(t)
  \/ ReadAdd(t) \/ ReadLoad(t) \/ ReadCas(t)

Step(t) ==
  \/ WriteLock(t) \/ WriteUnlock(t)
  \/ ReadLock(t) \/ ReadUnlock(t)
  \/ Inside(t) \/ LockTimeout(t)

\* A CRASH ends the process.
Next == crash = Running /\ \E t \in Threads : Step(t)

Spec == Init /\ [][Next]_vars

\* Every thread that is inside an operation keeps running; it need not begin
\* another, and the timeout need not fire.
FairSpec == Spec /\ \A t \in Threads : WF_vars(crash = Running /\ Inside(t))

-----------------------------------------------------------------------------
\* Type invariant.
TypeOK ==
  /\ flag \in Flag
  /\ writeCount \in 0..(ReadSpan - 1)
  /\ pc \in [Threads -> Pc]
  /\ expected \in [Threads -> 0..(ReadSpan - 1)]
  /\ held \in [Threads -> Seq(Guard)]
  /\ \A t \in Threads : Len(held[t]) <= MaxDepth
  /\ crash \in [why : {"none", "LOCK_TIMEOUT", "INVALID_UNLOCK_ORDER", "MULTIPLE_UNLOCK"},
                who : Threads \union {0}]

\* A thread with a write guard is alone: no other thread has any guard, in
\* spite of nesting in both modes and of the load/compare-exchange gaps.
MutualExclusion ==
  \A t, u \in Threads : t # u /\ Holds(t, "W") => held[u] = <<>>

\* _writeCount is not atomic: two threads are never both about to touch it.
TouchesCount(t) == pc[t] \in {"winc", "wdec"}
WriteCountRaceFree ==
  \A t, u \in Threads : TouchesCount(t) /\ TouchesCount(u) => t = u

\* Guards destroyed in reverse order never trip the lock's own checks, except
\* for a thread that took a write guard inside a read guard of its own.
OnlyUpgradesCrash ==
  /\ crash.why # "MULTIPLE_UNLOCK"
  /\ crash.why = "INVALID_UNLOCK_ORDER" =>
       \E i, j \in 1..Len(held[crash.who]) :
         i < j /\ held[crash.who][i] = "R" /\ held[crash.who][j] = "W"

\* When every guard is gone and nobody is inside an operation the word is
\* EMPTY_FLAG again: no exit path leaks a reader or an owner.
Quiescent == \A t \in Threads : held[t] = <<>> /\ pc[t] \in {"idle"} \union Spin
FreeWhenQuiescent == Quiescent => flag = Empty /\ writeCount = 0

-----------------------------------------------------------------------------
\* The read guards of all threads, and the write guards of one.
ReadHolds ==
  {p \in Threads \X (1..MaxDepth) :
     p[2] <= Len(held[p[1]]) /\ held[p[1]][p[2]] = "R"}
WriteHolds(t) == {i \in 1..MaxDepth : i <= Len(held[t]) /\ held[t][i] = "W"}

\* Who owns the word is who writes, or is about to have or to have had the
\* outermost write guard.
OwnerInv ==
  /\ flag.owner \in Threads \union {0}
  /\ \A t \in Threads :
       /\ Holds(t, "W") \/ pc[t] \in {"winc", "wdec", "wstore", "radd"} => flag.owner = t
       /\ flag.owner = t => Holds(t, "W") \/ pc[t] \in {"winc", "wstore"}
       /\ pc[t] = "winc" /\ Holds(t, "R") => Holds(t, "W")
       /\ pc[t] = "wdec" => held[t] # <<>> /\ Top(t) = "W"
       /\ pc[t] = "radd" => Holds(t, "W")
       /\ pc[t] = "wstore" => ~ Holds(t, "W")
       /\ pc[t] \in {"winc", "radd"} \union Spin => Len(held[t]) < MaxDepth

\* The lower half counts the read guards, and _writeCount the owner's write
\* guards; while somebody writes only he reads, and not while he leaves.
CountInv ==
  /\ flag.readers = Cardinality(ReadHolds)
  /\ flag.owner = 0 => writeCount = 0
  /\ \A t \in Threads :
       /\ flag.owner = t => writeCount = Cardinality(WriteHolds(t))
       /\ flag.owner \notin {0, t} => ~ Holds(t, "R")
       /\ pc[t] \in {"wdec", "wstore"} => flag.readers = 0

\* The inductive invariant: what the counters in _lockFlag and _writeCount
\* mean, at every point inside the four operations.
LockInv == TypeOK /\ OwnerInv /\ CountInv /\ OnlyUpgradesCrash

-----------------------------------------------------------------------------
\* Every behaviour of Lock.cpp's guards is one of the abstract reader/writer
\* lock: a guard constructed while the abstract lock forbids it, or one that
\* disappears without its destructor, is a violation.
Abstract == INSTANCE RWLock
RefinesRWLock == Abstract!Spec

\* A free lock with a thread spinning on it does not stay free: the spin
\* loops re-read the word and so see the release.
FreeLockIsTaken ==
  (flag = Empty /\ \E t \in Threads : pc[t] \in Spin)
    ~> (flag # Empty \/ crash # Running)
=============================================================================
