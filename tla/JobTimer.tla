------------------------------ MODULE JobTimer ------------------------------
(***************************************************************************)
(* ServerCore/JobTimer and DistributeReservedJobs, on top of JobQueue: a   *)
(* job reserved with DoTimer waits in _items until a worker that won the   *)
(* _distributing flag hands it to its owner with JobQueue::Push, which may *)
(* execute it, and reserve the next one, before Distribute goes on.        *)
(*                                                                         *)
(* A critical section of _items' lock is one step; GetTickCount64, the     *)
(* exchange and the store are steps of their own.  The priority queue is a *)
(* set: jobs with equal ticks leave it in any order.                       *)
(***************************************************************************)
EXTENDS JobQueue

CONSTANTS MethodJobs,      \* jobs built from a member function: they own their queue
          Delays,          \* values of tickAfter
          MaxTick,         \* bound: GetTickCount64
          MaxTimerClears   \* bound: calls of JobTimer::Clear

ASSUME JobTimerAssumption ==
  /\ MethodJobs \subseteq Jobs
  /\ Delays \subseteq Nat
  /\ MaxTick \in Nat /\ MaxTimerClears \in Nat

VARIABLES
  clock,         \* GetTickCount64()
  items,         \* _items
  distributing,  \* _distributing
  dist,          \* dist[t]: the call of Distribute thread t is inside
  reserve,       \* reserve[t]: the item thread t is about to insert, in Reserve
  alive,         \* alive[q]: some shared_ptr to q is left
  reserved,      \* history: every job whose Reserve has begun
  together,      \* history: <<a, b>> were in _items together, a due before b
  timerClears    \* calls of Clear so far

timerVars == <<clock, items, distributing, dist, reserve, alive, reserved, together, timerClears>>
allVars == <<vars, timerVars>>

NoDist == [stage |-> "none", now |-> 0, taken |-> {}]
NoItem == [tick |-> 0, q |-> NoQueue, job |-> NoJob]
Item == [tick : Nat, q : Queues, job : Jobs]

TimerInit ==
  /\ Init
  /\ clock = 0
  /\ items = {}
  /\ distributing = FALSE
  /\ dist = [t \in Threads |-> NoDist]
  /\ reserve = [t \in Threads |-> NoItem]
  /\ alive = [q \in Queues |-> TRUE]
  /\ reserved = {}
  /\ together = {}
  /\ timerClears = 0

\* What waits in the timer, or has been taken out and not handed over yet.
Waits     == items \union UNION {dist[t].taken : t \in Threads}
Timed     == Waits \union {reserve[t] : t \in {u \in Threads : reserve[u] # NoItem}}
Timing(j) == \E x \in Timed : x.job = j

-----------------------------------------------------------------------------
Tick ==
  /\ clock < MaxTick
  /\ clock' = clock + 1
  /\ UNCHANGED <<vars, items, distributing, dist, reserve, alive, reserved, together, timerClears>>

\* DoTimer, in a handler or in a job; Reserve reads the clock before it locks.
ReserveRead(t, q, j) ==
  /\ reserve[t] = NoItem /\ push[t] = NoPush
  /\ (exec[t] = NoExec /\ ctx[t] = "io") \/ exec[t].stage = "job"
  /\ alive[q]
  /\ j \notin pushed \union reserved
  /\ reserved' = reserved \union {j}
  /\ \E after \in Delays :
       /\ clock + after <= MaxTick
       /\ reserve' = [reserve EXCEPT ![t] = [tick |-> clock + after, q |-> q, job |-> j]]
  /\ UNCHANGED <<vars, clock, items, distributing, dist, alive, together, timerClears>>

Earlier(X, Y) ==
  {ab \in Jobs \X Jobs : \E x \in X, y \in Y : x.tick < y.tick /\ ab = <<x.job, y.job>>}

ReserveInsert(t) ==
  /\ reserve[t] # NoItem
  /\ items' = items \union {reserve[t]}
  /\ together' = together \union Earlier({reserve[t]}, items) \union Earlier(items, {reserve[t]})
  /\ reserve' = [reserve EXCEPT ![t] = NoItem]
  /\ UNCHANGED <<vars, clock, distributing, dist, alive, reserved, timerClears>>

-----------------------------------------------------------------------------
\* DistributeReservedJobs: const uint64 now = GetTickCount64().
DistRead(t) ==
  /\ Idle(t) /\ ctx[t] = "timer" /\ dist[t] = NoDist
  /\ dist' = [dist EXCEPT ![t] = [stage |-> "read", now |-> clock, taken |-> {}]]
  /\ UNCHANGED <<vars, clock, items, distributing, reserve, alive, reserved, together, timerClears>>

\* _distributing.exchange(true) finds another distributor: Distribute returns.
DistSkip(t) ==
  /\ dist[t].stage = "read" /\ distributing
  /\ EndTimers(t)
  /\ dist' = [dist EXCEPT ![t] = NoDist]
  /\ UNCHANGED <<clock, items, distributing, reserve, alive, reserved, together, timerClears>>

\* Mutant: the result of the exchange is ignored.
DistEnterAnyway(t) ==
  /\ dist[t].stage = "read"
  /\ distributing' = TRUE
  /\ dist' = [dist EXCEPT ![t].stage = "collect"]
  /\ UNCHANGED <<vars, clock, items, reserve, alive, reserved, together, timerClears>>

DistEnter(t) ==
  /\ dist[t].stage = "read" /\ ~ distributing
  /\ distributing' = TRUE
  /\ dist' = [dist EXCEPT ![t].stage = "collect"]
  /\ UNCHANGED <<vars, clock, items, reserve, alive, reserved, together, timerClears>>

\* Mutant: top without pop.
DistCollectKeeping(t) ==
  /\ dist[t].stage = "collect"
  /\ LET due == {x \in items : x.tick <= dist[t].now} IN
       /\ items' = items
       /\ dist' = [dist EXCEPT ![t].stage = "push", ![t].taken = due]
  /\ UNCHANGED <<vars, clock, distributing, reserve, alive, reserved, together, timerClears>>

\* Mutant: the tick is not compared.
DistCollectEarly(t) ==
  /\ dist[t].stage = "collect"
  /\ LET due == items IN
       /\ items' = {}
       /\ dist' = [dist EXCEPT ![t].stage = "push", ![t].taken = due]
  /\ UNCHANGED <<vars, clock, distributing, reserve, alive, reserved, together, timerClears>>

\* Mutant: the container is emptied after the loop.
DistCollectDropping(t) ==
  /\ dist[t].stage = "collect"
  /\ LET due == {x \in items : x.tick <= dist[t].now} IN
       /\ items' = {}
       /\ dist' = [dist EXCEPT ![t].stage = "push", ![t].taken = due]
  /\ UNCHANGED <<vars, clock, distributing, reserve, alive, reserved, together, timerClears>>

\* Under the lock: pop until now < executeTick.
DistCollect(t) ==
  /\ dist[t].stage = "collect"
  /\ LET due == {x \in items : x.tick <= dist[t].now} IN
       /\ items' = items \ due
       /\ dist' = [dist EXCEPT ![t].stage = "push", ![t].taken = due]
  /\ UNCHANGED <<vars, clock, distributing, reserve, alive, reserved, together, timerClears>>

\* The next job in the order of the vector, which is the order of the heap.
Foremost(S) == {x \in S : \A y \in S : x.tick <= y.tick}

\* Mutant: the job goes into the owner's container without Push.
DistPushRaw(t) ==
  /\ dist[t].stage = "push" /\ Idle(t)
  /\ \E x \in Foremost(dist[t].taken) :
       /\ alive[x.q]
       /\ jobs' = [jobs EXCEPT ![x.q] = Append(@, x.job)]
       /\ pushed' = pushed \union {x.job}
       /\ dist' = [dist EXCEPT ![t].taken = @ \ {x}]
  /\ UNCHANGED <<jobCount, globalQ, cur, push, exec, ctx, expired, clears,
                 clock, items, distributing, reserve, alive, reserved, together, timerClears>>

\* owner.lock() succeeds: owner->Push(job); the next round follows its return.
DistPush(t) ==
  /\ dist[t].stage = "push" /\ Idle(t)
  /\ \E x \in Foremost(dist[t].taken) :
       /\ alive[x.q]
       /\ PushCount(t, x.q, x.job)
       /\ dist' = [dist EXCEPT ![t].taken = @ \ {x}]
  /\ UNCHANGED <<clock, items, distributing, reserve, alive, reserved, together, timerClears>>

\* The owner is gone: the job is given back to its pool.
DistDrop(t) ==
  /\ dist[t].stage = "push" /\ Idle(t)
  /\ \E x \in Foremost(dist[t].taken) :
       /\ ~ alive[x.q]
       /\ dist' = [dist EXCEPT ![t].taken = @ \ {x}]
  /\ UNCHANGED <<vars, clock, items, distributing, reserve, alive, reserved, together, timerClears>>

\* Mutant: the flag is not reset.
DistEndHolding(t) ==
  /\ dist[t].stage = "push" /\ dist[t].taken = {}
  /\ EndTimers(t)
  /\ dist' = [dist EXCEPT ![t] = NoDist]
  /\ UNCHANGED <<clock, items, distributing, reserve, alive, reserved, together, timerClears>>

\* _distributing.store(false).
DistEnd(t) ==
  /\ dist[t].stage = "push" /\ dist[t].taken = {}
  /\ EndTimers(t)
  /\ distributing' = FALSE
  /\ dist' = [dist EXCEPT ![t] = NoDist]
  /\ UNCHANGED <<clock, items, reserve, alive, reserved, together, timerClears>>

ClearTimer ==
  /\ timerClears < MaxTimerClears
  /\ timerClears' = timerClears + 1
  /\ items' = {}
  /\ UNCHANGED <<vars, clock, distributing, dist, reserve, alive, reserved, together>>

-----------------------------------------------------------------------------
\* The shared_ptrs to q the modelled code holds: this of a running Push, Execute
\* or Reserve, an element of the global queue, a job made of a member function.
Referenced(q) ==
  \/ Waiting(q) \/ \E t \in Threads : push[t].q = q \/ exec[t].q = q \/ reserve[t].q = q
  \/ \E i \in 1..Len(jobs[q]) : jobs[q][i] \in MethodJobs
  \/ \E x \in Waits : x.q = q /\ x.job \in MethodJobs

\* The last holder outside drops its shared_ptr.
Release(q) ==
  /\ alive[q] /\ ~ Referenced(q)
  /\ alive' = [alive EXCEPT ![q] = FALSE]
  /\ UNCHANGED <<vars, clock, items, distributing, dist, reserve, reserved, together, timerClears>>

\* A step of the worker loop outside Reserve and Distribute.
QueueStep(t) ==
  /\ reserve[t] = NoItem
  /\ Idle(t) => ctx[t] # "timer"
  /\ ThreadStep(t)
  /\ UNCHANGED timerVars

\* A handler or a job calls DoAsync or Push.
DirectPush(t, q, j) ==
  /\ reserve[t] = NoItem
  /\ Idle(t) => ctx[t] # "timer"
  /\ alive[q] /\ j \notin reserved
  /\ PushCount(t, q, j)
  /\ UNCHANGED timerVars

TimerClearJobs(q) == alive[q] /\ ClearJobs(q) /\ UNCHANGED timerVars

WorkerStep(t) ==
  \/ QueueStep(t) \/ ReserveInsert(t)
  \/ DistRead(t) \/ DistSkip(t) \/ DistEnter(t) \/ DistCollect(t)
  \/ DistPush(t) \/ DistDrop(t) \/ DistEnd(t)

TimerNext ==
  \/ \E t \in Threads : WorkerStep(t)
  \/ \E t \in Threads, q \in Queues, j \in Jobs : ReserveRead(t, q, j) \/ DirectPush(t, q, j)
  \/ \E q \in Queues : Release(q) \/ TimerClearJobs(q)
  \/ ClearTimer
  \/ Tick

TimerSpec == TimerInit /\ [][TimerNext]_allVars

\* Time passes and every worker runs; nobody has to post, reserve or release.  A
\* thread that goes round in Execute for ever reaches LEndTickCount.
TimerFairSpec ==
  /\ TimerSpec
  /\ WF_allVars(Tick)
  /\ \A t \in Threads : WF_allVars(WorkerStep(t)) /\ SF_allVars(ExecYield(t) /\ QueueStep(t))

-----------------------------------------------------------------------------
TimerTypeOK ==
  /\ clock \in Nat
  /\ items \in SUBSET Item
  /\ distributing \in BOOLEAN
  /\ dist \in [Threads -> [stage : {"none", "read", "collect", "push"}, now : Nat,
                           taken : SUBSET Item]]
  /\ reserve \in [Threads -> Item \union {NoItem}]
  /\ alive \in [Queues -> BOOLEAN]
  /\ reserved \in SUBSET Jobs
  /\ together \in SUBSET (Jobs \X Jobs)
  /\ timerClears \in Nat

\* Distribute is entered by one thread at a time, as its comment says.
Distributes(t) == dist[t].stage \in {"collect", "push"}
FlagInv ==
  /\ \A t, u \in Threads : Distributes(t) /\ Distributes(u) => t = u
  /\ distributing <=> \E t \in Threads : Distributes(t)

DistInv ==
  \A t \in Threads :
    /\ dist[t].stage = "none" => dist[t] = NoDist
    /\ dist[t].stage # "none" => ctx[t] = "timer"
    /\ dist[t].stage \in {"read", "collect"} => Idle(t) /\ dist[t].taken = {}
    /\ dist[t].now <= clock
    /\ \A x \in dist[t].taken : x.tick <= dist[t].now

\* A job is in one place: about to be inserted, in _items, taken, or pushed.
PlaceInv ==
  /\ \A x, y \in Timed : x.job = y.job => x = y
  /\ \A x \in Timed : x.job \in reserved \ pushed
  /\ \A t \in Threads : dist[t].taken \intersect items = {}
  /\ \A t \in Threads : reserve[t] # NoItem => reserve[t] \notin Waits
  /\ \A t, u \in Threads : reserve[t] = reserve[u] => reserve[t] = NoItem \/ t = u

\* Together and not yet handed over: the earlier is still in _items only if the
\* later is, that is, no distributor holds the later one alone.
OrderInv ==
  /\ \A x, y \in Waits : <<x.job, y.job>> \in together =>
       x.tick < y.tick /\ (x \in items => y \in items)
  /\ \A ab \in together : ab[1] \in reserved /\ ab[2] \in reserved
  /\ \A t \in Threads : reserve[t] # NoItem =>
       \A ab \in together : ab[1] # reserve[t].job /\ ab[2] # reserve[t].job

TimerInv == TimerTypeOK /\ FlagInv /\ DistInv /\ PlaceInv /\ OrderInv

-----------------------------------------------------------------------------
\* A job is never handed to its queue before its tick, however stale the time a
\* distributor has read and whoever distributes.
NotEarly ==
  [][\A x \in Timed : x.job \in pushed' \ pushed => x.tick <= clock]_allVars

\* Of two jobs that were in the timer together the later one is not handed over
\* while the earlier one still waits, whichever workers win the flag and
\* whatever times they have read.
TickOrder == \A x \in Waits : \A j \in pushed : <<x.job, j>> \notin together

\* A reserved job is lost only when its owner is gone or the timer was cleared.
NothingLost ==
  [][\A x \in Timed :
       \/ x \in Timed'
       \/ x.job \in pushed'
       \/ ~ alive[x.q]
       \/ timerClears' # timerClears]_allVars

\* Every reserved job leaves the timer: no flag stays set, no tick is skipped.
TimersFire == \A j \in Jobs : Timing(j) ~> ~ Timing(j)

\* The timer and the handlers use the queues by their operations alone: what is
\* checked and proved of JobQueue holds with the timer in place.
RefinesJobQueue == Spec
=============================================================================
