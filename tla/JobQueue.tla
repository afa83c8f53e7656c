------------------------------ MODULE JobQueue ------------------------------
(***************************************************************************)
(* ServerCore/JobQueue, GlobalQueue, LockQueue and the worker loop of      *)
(* GameServer.cpp: jobs pushed to a queue are executed by whichever thread *)
(* raised the queue's counter from zero, inline if that thread executes no *)
(* other queue, otherwise by a worker that finds the queue in the global   *)
(* queue.                                                                  *)
(*                                                                         *)
(* A LockQueue operation is one step: it is a critical section of its      *)
(* WRITE_LOCK (RWSpinLock).  _jobCount is atomic: each fetch_add or        *)
(* fetch_sub is a step.  Time is abstract: the deadline LEndTickCount can  *)
(* pass while a job runs or while Execute loops, not in an idle iteration  *)
(* of the worker loop (Dispatch waits 10 ms, WORKER_TICK is 64 ms).        *)
(***************************************************************************)
EXTENDS Naturals, Sequences, FiniteSets

CONSTANTS Threads, Queues, Jobs,
          NoQueue, NoJob,   \* nullptr
          PushModes,        \* the values of pushOnly callers pass
          MaxClears         \* bound: calls of ClearJobs

ASSUME JobQueueAssumption ==
  /\ IsFiniteSet(Threads)
  /\ NoQueue \notin Queues /\ NoJob \notin Jobs
  /\ PushModes \subseteq BOOLEAN
  /\ MaxClears \in Nat

VARIABLES
  jobs,       \* jobs[q]: _jobs of queue q
  jobCount,   \* jobCount[q]: _jobCount of queue q
  globalQ,    \* GGlobalQueue
  cur,        \* cur[t]: LCurrentJobQueue of thread t
  push,       \* push[t]: the call of JobQueue::Push thread t is inside
  exec,       \* exec[t]: the call of JobQueue::Execute thread t is inside
  ctx,        \* ctx[t]: the part of the worker loop thread t is in
  expired,    \* expired[t]: now has passed LEndTickCount of thread t
  pushed,     \* history: every job whose Push has begun
  clears      \* calls of ClearJobs so far

vars == <<jobs, jobCount, globalQ, cur, push, exec, ctx, expired, pushed, clears>>

NoPush == [stage |-> "none", q |-> NoQueue, job |-> NoJob, first |-> FALSE]
NoExec == [stage |-> "none", q |-> NoQueue, batch |-> <<>>, n |-> 0]

Init ==
  /\ jobs = [q \in Queues |-> <<>>]
  /\ jobCount = [q \in Queues |-> 0]
  /\ globalQ = <<>>
  /\ cur = [t \in Threads |-> NoQueue]
  /\ push = [t \in Threads |-> NoPush]
  /\ exec = [t \in Threads |-> NoExec]
  /\ ctx = [t \in Threads |-> "io"]
  /\ expired = [t \in Threads |-> FALSE]
  /\ pushed = {}
  /\ clears = 0

\* Between two calls of the worker loop's body, and at the top level of it.
Idle(t) == push[t] = NoPush /\ exec[t] = NoExec

\* A handler or the timer (no queue is executing) or a job may call Push.
CanPush(t) ==
  \/ Idle(t) /\ ctx[t] \in {"io", "timer"}
  \/ push[t] = NoPush /\ exec[t].stage = "job"

\* Mutant: LCurrentJobQueue is not set.
BeginExecuteUnmarked(t, q) ==
  /\ exec' = [exec EXCEPT ![t] = [stage |-> "pop", q |-> q, batch |-> <<>>, n |-> 0]]
  /\ UNCHANGED cur

BeginExecute(t, q) ==
  /\ exec' = [exec EXCEPT ![t] = [stage |-> "pop", q |-> q, batch |-> <<>>, n |-> 0]]
  /\ cur' = [cur EXCEPT ![t] = q]

EndExecute(t) ==
  /\ exec' = [exec EXCEPT ![t] = NoExec]
  /\ cur' = [cur EXCEPT ![t] = NoQueue]

-----------------------------------------------------------------------------
\* Mutant: the first pusher is recognised by the empty container.
PushCountByContainer(t, q, j) ==
  /\ CanPush(t)
  /\ j \notin pushed
  /\ pushed' = pushed \union {j}
  /\ jobCount' = [jobCount EXCEPT ![q] = @ + 1]
  /\ push' = [push EXCEPT ![t] =
       [stage |-> "item", q |-> q, job |-> j, first |-> jobs[q] = <<>>]]
  /\ UNCHANGED <<jobs, globalQ, cur, exec, ctx, expired, clears>>

\* Push, first half: prevCount = _jobCount.fetch_add(1).
PushCount(t, q, j) ==
  /\ CanPush(t)
  /\ j \notin pushed
  /\ pushed' = pushed \union {j}
  /\ jobCount' = [jobCount EXCEPT ![q] = @ + 1]
  /\ push' = [push EXCEPT ![t] =
       [stage |-> "item", q |-> q, job |-> j, first |-> jobCount[q] = 0]]
  /\ UNCHANGED <<jobs, globalQ, cur, exec, ctx, expired, clears>>

\* _jobs.Push(job); only the first pusher goes on.
PushItem(t) ==
  /\ push[t].stage = "item"
  /\ jobs' = [jobs EXCEPT ![push[t].q] = Append(@, push[t].job)]
  /\ push' = [push EXCEPT ![t] = IF @.first THEN [@ EXCEPT !.stage = "route"] ELSE NoPush]
  /\ UNCHANGED <<jobCount, globalQ, cur, exec, ctx, expired, pushed, clears>>

\* The first pusher executes the queue itself when it executes no other and
\* its caller did not pass pushOnly.
PushInline(t) ==
  /\ push[t].stage = "route"
  /\ \E pushOnly \in PushModes : cur[t] = NoQueue /\ ~ pushOnly
  /\ BeginExecute(t, push[t].q)
  /\ push' = [push EXCEPT ![t] = NoPush]
  /\ UNCHANGED <<jobs, jobCount, globalQ, ctx, expired, pushed, clears>>

\* Otherwise it leaves the queue to whoever pops the global queue.
PushGlobal(t) ==
  /\ push[t].stage = "route"
  /\ \E pushOnly \in PushModes : cur[t] # NoQueue \/ pushOnly
  /\ globalQ' = Append(globalQ, push[t].q)
  /\ push' = [push EXCEPT ![t] = NoPush]
  /\ UNCHANGED <<jobs, jobCount, cur, exec, ctx, expired, pushed, clears>>

-----------------------------------------------------------------------------
\* Mutant: the jobs are copied out of the container and stay in it.
ExecCopyAll(t) ==
  /\ exec[t].stage = "pop"
  /\ LET q == exec[t].q IN
       exec' = [exec EXCEPT ![t].stage = "run", ![t].batch = jobs[q], ![t].n = Len(jobs[q])]
  /\ UNCHANGED <<jobs, jobCount, globalQ, cur, push, ctx, expired, pushed, clears>>

\* Execute: PopAll.
ExecPopAll(t) ==
  /\ exec[t].stage = "pop"
  /\ LET q == exec[t].q IN
       /\ exec' = [exec EXCEPT ![t].stage = "run", ![t].batch = jobs[q], ![t].n = Len(jobs[q])]
       /\ jobs' = [jobs EXCEPT ![q] = <<>>]
  /\ UNCHANGED <<jobCount, globalQ, cur, push, ctx, expired, pushed, clears>>

JobBegin(t) ==
  /\ exec[t].stage = "run" /\ exec[t].batch # <<>>
  /\ exec' = [exec EXCEPT ![t].stage = "job"]
  /\ UNCHANGED <<jobs, jobCount, globalQ, cur, push, ctx, expired, pushed, clears>>

\* A job returns, after any Push of its own; it may have used up the time.
JobEnd(t) ==
  /\ exec[t].stage = "job" /\ push[t] = NoPush
  /\ exec' = [exec EXCEPT ![t].stage = "run", ![t].batch = Tail(@)]
  /\ \E late \in BOOLEAN : expired' = [expired EXCEPT ![t] = @ \/ late]
  /\ UNCHANGED <<jobs, jobCount, globalQ, cur, push, ctx, pushed, clears>>

\* Mutant: the executor leaves when it sees an empty container.
ExecSubByContainer(t) ==
  /\ exec[t].stage = "run" /\ exec[t].batch = <<>>
  /\ LET q == exec[t].q IN
       /\ jobCount' = [jobCount EXCEPT ![q] = @ - exec[t].n]
       /\ IF jobs[q] = <<>>
          THEN EndExecute(t)
          ELSE exec' = [exec EXCEPT ![t].stage = "check", ![t].n = 0] /\ UNCHANGED cur
  /\ UNCHANGED <<jobs, globalQ, push, ctx, expired, pushed, clears>>

\* Mutant: the comparison never holds.
ExecSubNeverLeaves(t) ==
  /\ exec[t].stage = "run" /\ exec[t].batch = <<>>
  /\ LET q == exec[t].q IN
       /\ jobCount' = [jobCount EXCEPT ![q] = @ - exec[t].n]
       /\ IF jobCount[q] < exec[t].n
          THEN EndExecute(t)
          ELSE exec' = [exec EXCEPT ![t].stage = "check", ![t].n = 0] /\ UNCHANGED cur
  /\ UNCHANGED <<jobs, globalQ, push, ctx, expired, pushed, clears>>

\* _jobCount.fetch_sub(jobCount): leave when nothing was pushed meanwhile.
ExecSub(t) ==
  /\ exec[t].stage = "run" /\ exec[t].batch = <<>>
  /\ LET q == exec[t].q IN
       /\ jobCount' = [jobCount EXCEPT ![q] = @ - exec[t].n]
       /\ IF jobCount[q] = exec[t].n
          THEN EndExecute(t)
          ELSE exec' = [exec EXCEPT ![t].stage = "check", ![t].n = 0] /\ UNCHANGED cur
  /\ UNCHANGED <<jobs, globalQ, push, ctx, expired, pushed, clears>>

\* now < LEndTickCount: go round again.
ExecAgain(t) ==
  /\ exec[t].stage = "check" /\ ~ expired[t]
  /\ exec' = [exec EXCEPT ![t].stage = "pop"]
  /\ UNCHANGED <<jobs, jobCount, globalQ, cur, push, ctx, expired, pushed, clears>>

\* Mutant: the time is up and the queue is not handed over.
ExecYieldDrops(t) ==
  /\ exec[t].stage = "check"
  /\ expired' = [expired EXCEPT ![t] = TRUE]
  /\ EndExecute(t)
  /\ UNCHANGED <<jobs, jobCount, globalQ, push, ctx, pushed, clears>>

\* now >= LEndTickCount: hand the queue to the global queue.
ExecYield(t) ==
  /\ exec[t].stage = "check"
  /\ expired' = [expired EXCEPT ![t] = TRUE]
  /\ globalQ' = Append(globalQ, exec[t].q)
  /\ EndExecute(t)
  /\ UNCHANGED <<jobs, jobCount, push, ctx, pushed, clears>>

-----------------------------------------------------------------------------
\* DoWorkerJob: Dispatch returns, and later DistributeReservedJobs.
EndDispatch(t) ==
  /\ Idle(t) /\ ctx[t] = "io"
  /\ ctx' = [ctx EXCEPT ![t] = "timer"]
  /\ UNCHANGED <<jobs, jobCount, globalQ, cur, push, exec, expired, pushed, clears>>

EndTimers(t) ==
  /\ Idle(t) /\ ctx[t] = "timer"
  /\ ctx' = [ctx EXCEPT ![t] = "global"]
  /\ UNCHANGED <<jobs, jobCount, globalQ, cur, push, exec, expired, pushed, clears>>

\* DoGlobalQueueWork: one queue per round, until the deadline or nothing is left.
GlobalPop(t) ==
  /\ Idle(t) /\ ctx[t] = "global"
  /\ ~ expired[t] /\ globalQ # <<>>
  /\ globalQ' = Tail(globalQ)
  /\ BeginExecute(t, Head(globalQ))
  /\ UNCHANGED <<jobs, jobCount, push, ctx, expired, pushed, clears>>

\* The next iteration begins with a fresh LEndTickCount.
EndGlobalWork(t) ==
  /\ Idle(t) /\ ctx[t] = "global"
  /\ expired[t] \/ globalQ = <<>>
  /\ ctx' = [ctx EXCEPT ![t] = "io"]
  /\ expired' = [expired EXCEPT ![t] = FALSE]
  /\ UNCHANGED <<jobs, jobCount, globalQ, cur, push, exec, pushed, clears>>

\* ClearJobs empties the container and leaves the counter alone.
ClearJobs(q) ==
  /\ clears < MaxClears
  /\ clears' = clears + 1
  /\ jobs' = [jobs EXCEPT ![q] = <<>>]
  /\ UNCHANGED <<jobCount, globalQ, cur, push, exec, ctx, expired, pushed>>

-----------------------------------------------------------------------------
\* What a thread does without anybody posting a new job.
ThreadStep(t) ==
  \/ PushItem(t) \/ PushInline(t) \/ PushGlobal(t)
  \/ ExecPopAll(t) \/ JobBegin(t) \/ JobEnd(t)
  \/ ExecSub(t) \/ ExecAgain(t) \/ ExecYield(t)
  \/ EndDispatch(t) \/ EndTimers(t) \/ GlobalPop(t) \/ EndGlobalWork(t)

Next ==
  \/ \E t \in Threads : ThreadStep(t)
  \/ \E t \in Threads, q \in Queues, j \in Jobs : PushCount(t, q, j)
  \/ \E q \in Queues : ClearJobs(q)

Spec == Init /\ [][Next]_vars

\* The operating system runs every worker; jobs terminate; nobody has to post.
FairSpec == Spec /\ \A t \in Threads : WF_vars(ThreadStep(t))

-----------------------------------------------------------------------------
TypeOK ==
  /\ jobs \in [Queues -> Seq(Jobs)]
  /\ jobCount \in [Queues -> Nat]
  /\ globalQ \in Seq(Queues)
  /\ cur \in [Threads -> Queues \union {NoQueue}]
  /\ push \in [Threads -> [stage : {"none", "item", "route"}, q : Queues \union {NoQueue},
                           job : Jobs \union {NoJob}, first : BOOLEAN]]
  /\ exec \in [Threads -> [stage : {"none", "pop", "run", "job", "check"},
                           q : Queues \union {NoQueue}, batch : Seq(Jobs), n : Nat]]
  /\ ctx \in [Threads -> {"io", "timer", "global"}]
  /\ expired \in [Threads -> BOOLEAN]
  /\ pushed \in SUBSET Jobs
  /\ clears \in Nat

\* The frames a thread is inside agree with each other and with LCurrentJobQueue.
FrameOK(t) ==
  /\ push[t].stage = "none" => push[t] = NoPush
  /\ push[t].stage # "none" =>
       /\ push[t].q \in Queues /\ push[t].job \in pushed
       /\ exec[t].stage \in {"none", "job"}
       /\ push[t].stage = "route" => push[t].first
  /\ exec[t].stage = "none" => exec[t] = NoExec
  /\ exec[t].stage # "none" => exec[t].q \in Queues
  /\ exec[t].stage \in {"pop", "check"} => exec[t].batch = <<>> /\ exec[t].n = 0
  /\ exec[t].stage = "job" => exec[t].batch # <<>>
  /\ cur[t] = exec[t].q
FrameInv == \A t \in Threads : FrameOK(t)

\* The right and duty to execute q: with its first pusher, with the thread that
\* executes it, or in the global queue.
Pushing(t, q)   == push[t].q = q /\ push[t].first
Executing(t, q) == exec[t].q = q
Waiting(q)      == \E i \in 1..Len(globalQ) : globalQ[i] = q
HasToken(t, q)  == Pushing(t, q) \/ Executing(t, q)

TokenOK(q) ==
  /\ \A t, u \in Threads : HasToken(t, q) /\ HasToken(u, q) => t = u
  /\ \A t \in Threads : ~ (Pushing(t, q) /\ Executing(t, q))
  /\ \A t \in Threads : HasToken(t, q) => ~ Waiting(q)
  /\ \A i, j \in 1..Len(globalQ) : globalQ[i] = q /\ globalQ[j] = q => i = j
  /\ jobCount[q] > 0 <=> Waiting(q) \/ \E t \in Threads : HasToken(t, q)
TokenInv == \A q \in Queues : TokenOK(q)

\* _jobCount is at least what it has to account for: pushes under way, jobs in
\* the container, the batch being executed (more, once ClearJobs was called).
InFlight(q) == {t \in Threads : push[t].q = q /\ push[t].stage = "item"}
Fetched(q)  == {t \in Threads : exec[t].q = q}
CountOK(q) ==
  /\ jobCount[q] >= Cardinality(InFlight(q)) + Len(jobs[q])
  /\ \A t \in Fetched(q) : jobCount[q] >= Cardinality(InFlight(q)) + Len(jobs[q]) + exec[t].n
CountInv == \A q \in Queues : CountOK(q)

\* The inductive invariant: the counter is positive exactly while one thread, or
\* the global queue, owns the queue, at every point inside Push and Execute.
QueueInv == TypeOK /\ FrameInv /\ TokenInv /\ CountInv

-----------------------------------------------------------------------------
\* Two threads never execute jobs of the same queue at the same time.
SerialExecution ==
  \A t, u \in Threads :
    exec[t].stage = "job" /\ exec[u].stage = "job" /\ exec[t].q = exec[u].q => t = u

\* A queue with a job in its container is never forgotten: a thread is executing
\* it or about to, or it waits in the global queue.
NoLostWakeup ==
  \A q \in Queues :
    jobs[q] # <<>> => Waiting(q) \/ \E t \in Threads : HasToken(t, q)

-----------------------------------------------------------------------------
\* The refinement mapping.  Submitted is what reached a container; what is left
\* of the executing thread's batch, without the running job, precedes it.
Started(t)    == exec[t].stage = "job"
Rest(t)       == IF Started(t) THEN Tail(exec[t].batch) ELSE exec[t].batch
RestOf(q)     == IF Fetched(q) = {} THEN <<>> ELSE Rest(CHOOSE t \in Fetched(q) : TRUE)
ActiveOf(q)   == IF \E t \in Fetched(q) : Started(t)
                 THEN Head(exec[CHOOSE t \in Fetched(q) : Started(t)].batch)
                 ELSE NoJob
SubmittedJobs == {j \in pushed : \A t \in Threads : push[t].stage = "item" => push[t].job # j}

Serial == INSTANCE SerialQueue WITH
  submitted <- SubmittedJobs,
  pending   <- [q \in Queues |-> RestOf(q) \o jobs[q]],
  active    <- [q \in Queues |-> ActiveOf(q)]

\* Every behaviour of Push, Execute and the worker loop is one of the abstract
\* serial queue: first in first out per queue, one job at a time, none twice.
RefinesSerialQueue == Serial!Spec

\* A job whose Push has begun gets out of the system: it is executed, or dropped
\* by ClearJobs; it is never left behind in a queue that nobody executes.
Outstanding(j) ==
  \/ \E t \in Threads : push[t].job = j /\ push[t].stage = "item"
  \/ \E q \in Queues : \E i \in 1..Len(jobs[q]) : jobs[q][i] = j
  \/ \E t \in Threads : \E i \in 1..Len(exec[t].batch) : exec[t].batch[i] = j
EveryJobLeaves == \A j \in Jobs : Outstanding(j) ~> ~ Outstanding(j)

\* Unless ClearJobs desynchronises the counter, the workers come to rest once
\* the jobs are done: no queue circulates in the global queue for nothing.
AtRest == globalQ = <<>> /\ \A t \in Threads : Idle(t)
ComesToRest == [](clears = 0) => <>[]AtRest
=============================================================================
