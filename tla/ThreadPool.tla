----------------------------- MODULE ThreadPool -----------------------------
(***************************************************************************)
(* ThreadPoolTest/ThreadPool: workers take jobs from a queue guarded by    *)
(* m_job_q_ and sleep on cv_job_q_; the main thread enqueues jobs and then *)
(* destroys the pool, which sets stop_all and joins the workers.           *)
(*                                                                         *)
(* cv_job_q_.wait tests its predicate with the mutex held and then unlocks *)
(* and blocks in one step; stop_all is a plain bool that the destructor    *)
(* writes without the mutex.                                               *)
(***************************************************************************)
EXTENDS Naturals, Sequences, FiniteSets

CONSTANTS Workers, Main, Jobs, NoJob, NoThread,
          MaxSpurious    \* bound: wakeups nobody asked for

ASSUME ThreadPoolAssumption ==
  /\ Main \notin Workers /\ NoThread \notin Workers \union {Main} /\ NoJob \notin Jobs
  /\ MaxSpurious \in Nat

Callers == Workers \union {Main}

VARIABLES
  queue,      \* jobs_
  mutex,      \* owner of m_job_q_
  stop,       \* stop_all
  sleeping,   \* the workers blocked on cv_job_q_
  pc,         \* pc[w]: where worker w is in WorkerThread
  call,       \* call[c]: the call of EnqueueJob caller c is inside
  main,       \* where the main thread is, "terminated" once there is no process
  submitted,  \* history: every job EnqueueJob was called with
  started,    \* history: every job a worker has taken
  spurious    \* wakeups nobody asked for, so far

vars == <<queue, mutex, stop, sleeping, pc, call, main, submitted, started, spurious>>

NoCall == [stage |-> "none", job |-> NoJob]

Init ==
  /\ queue = <<>>
  /\ mutex = NoThread
  /\ stop = FALSE
  /\ sleeping = {}
  /\ pc = [w \in Workers |-> "loop"]
  /\ call = [c \in Callers |-> NoCall]
  /\ main = "running"
  /\ submitted = {}
  /\ started = {}
  /\ spurious = 0

-----------------------------------------------------------------------------
\* EnqueueJob, by the main thread or by a running job.
Enqueue(c, j) ==
  /\ call[c] = NoCall
  /\ IF c = Main THEN main = "running" ELSE pc[c] = "run"
  /\ ~ stop
  /\ j \notin submitted
  /\ submitted' = submitted \union {j}
  /\ call' = [call EXCEPT ![c] = [stage |-> "push", job |-> j]]
  /\ UNCHANGED <<queue, mutex, stop, sleeping, pc, main, started, spurious>>

\* Once stop_all is set EnqueueJob throws. Only a job can call it then, and what
\* it does not catch leaves its thread's function: the process is terminated. (A
\* job that catches it goes on as if it had not called.)
EnqueueThrows(w, j) ==
  /\ stop /\ main # "terminated"
  /\ pc[w] = "run" /\ call[w] = NoCall
  /\ j \notin submitted
  /\ main' = "terminated"
  /\ UNCHANGED <<queue, mutex, stop, sleeping, pc, call, submitted, started, spurious>>

\* The block under the lock_guard.
EnqueuePush(c) ==
  /\ call[c].stage = "push" /\ mutex = NoThread
  /\ queue' = Append(queue, call[c].job)
  /\ call' = [call EXCEPT ![c].stage = "notify"]
  /\ UNCHANGED <<mutex, stop, sleeping, pc, main, submitted, started, spurious>>

\* Mutant: nobody is notified.
EnqueueSilently(c) ==
  /\ call[c].stage = "notify"
  /\ call' = [call EXCEPT ![c] = NoCall]
  /\ UNCHANGED <<queue, mutex, stop, sleeping, pc, main, submitted, started, spurious>>

\* notify_one wakes one sleeping worker, if there is one.
EnqueueNotify(c) ==
  /\ call[c].stage = "notify"
  /\ IF sleeping = {} THEN UNCHANGED <<sleeping, pc>>
     ELSE \E w \in sleeping :
            sleeping' = sleeping \ {w} /\ pc' = [pc EXCEPT ![w] = "woken"]
  /\ call' = [call EXCEPT ![c] = NoCall]
  /\ UNCHANGED <<queue, mutex, stop, main, submitted, started, spurious>>

-----------------------------------------------------------------------------
\* unique_lock, at the top of the loop and when wait returns from its sleep.
WorkerLock(w) ==
  /\ pc[w] \in {"loop", "woken"} /\ mutex = NoThread
  /\ mutex' = w
  /\ pc' = [pc EXCEPT ![w] = "test"]
  /\ UNCHANGED <<queue, stop, sleeping, call, main, submitted, started, spurious>>

\* The predicate of wait.
WorkerTest(w) ==
  /\ pc[w] = "test"
  /\ pc' = [pc EXCEPT ![w] = IF queue # <<>> \/ stop THEN "ready" ELSE "block"]
  /\ UNCHANGED <<queue, mutex, stop, sleeping, call, main, submitted, started, spurious>>

WorkerBlock(w) ==
  /\ pc[w] = "block"
  /\ mutex' = NoThread
  /\ sleeping' = sleeping \union {w}
  /\ pc' = [pc EXCEPT ![w] = "asleep"]
  /\ UNCHANGED <<queue, stop, call, main, submitted, started, spurious>>

SpuriousWakeup(w) ==
  /\ main # "terminated"
  /\ w \in sleeping /\ spurious < MaxSpurious
  /\ spurious' = spurious + 1
  /\ sleeping' = sleeping \ {w}
  /\ pc' = [pc EXCEPT ![w] = "woken"]
  /\ UNCHANGED <<queue, mutex, stop, call, main, submitted, started>>

\* Mutant: a worker returns as soon as it sees stop_all.
WorkerReturnEarly(w) ==
  /\ pc[w] = "ready" /\ stop
  /\ mutex' = NoThread
  /\ pc' = [pc EXCEPT ![w] = "done"]
  /\ UNCHANGED <<queue, stop, sleeping, call, main, submitted, started, spurious>>

WorkerReturn(w) ==
  /\ pc[w] = "ready" /\ stop /\ queue = <<>>
  /\ mutex' = NoThread
  /\ pc' = [pc EXCEPT ![w] = "done"]
  /\ UNCHANGED <<queue, stop, sleeping, call, main, submitted, started, spurious>>

\* Mutant: the front is read and not popped.
WorkerPeek(w) ==
  /\ pc[w] = "ready" /\ queue # <<>>
  /\ started' = started \union {Head(queue)}
  /\ mutex' = NoThread
  /\ pc' = [pc EXCEPT ![w] = "run"]
  /\ UNCHANGED <<queue, stop, sleeping, call, main, submitted, spurious>>

\* Pop and unlock.
WorkerTake(w) ==
  /\ pc[w] = "ready" /\ queue # <<>>
  /\ started' = started \union {Head(queue)}
  /\ queue' = Tail(queue)
  /\ mutex' = NoThread
  /\ pc' = [pc EXCEPT ![w] = "run"]
  /\ UNCHANGED <<stop, sleeping, call, main, submitted, spurious>>

WorkerFinish(w) ==
  /\ pc[w] = "run" /\ call[w] = NoCall
  /\ pc' = [pc EXCEPT ![w] = "loop"]
  /\ UNCHANGED <<queue, mutex, stop, sleeping, call, main, submitted, started, spurious>>

-----------------------------------------------------------------------------
\* ~ThreadPool: stop_all = true, without the mutex.
Stop ==
  /\ main = "running" /\ call[Main] = NoCall
  /\ stop' = TRUE
  /\ main' = "notify"
  /\ UNCHANGED <<queue, mutex, sleeping, pc, call, submitted, started, spurious>>

NotifyAll ==
  /\ main = "notify"
  /\ pc' = [w \in Workers |-> IF w \in sleeping THEN "woken" ELSE pc[w]]
  /\ sleeping' = {}
  /\ main' = "join"
  /\ UNCHANGED <<queue, mutex, stop, call, submitted, started, spurious>>

\* The joins have all returned.
Join ==
  /\ main = "join" /\ \A w \in Workers : pc[w] = "done"
  /\ main' = "joined"
  /\ UNCHANGED <<queue, mutex, stop, sleeping, pc, call, submitted, started, spurious>>

-----------------------------------------------------------------------------
CallStep(c) == EnqueuePush(c) \/ EnqueueNotify(c)

WorkerStep(w) ==
  /\ main # "terminated"
  /\ \/ CallStep(w) \/ WorkerLock(w) \/ WorkerTest(w) \/ WorkerBlock(w)
     \/ WorkerReturn(w) \/ WorkerTake(w) \/ WorkerFinish(w)

MainStep == CallStep(Main) \/ NotifyAll \/ Join

Next ==
  \/ MainStep \/ Stop
  \/ \E w \in Workers : WorkerStep(w) \/ SpuriousWakeup(w)
  \/ \E c \in Callers, j \in Jobs : Enqueue(c, j)
  \/ \E w \in Workers, j \in Jobs : EnqueueThrows(w, j)

Spec == Init /\ [][Next]_vars

\* The threads run; nobody is woken without a notification, nobody has to enqueue,
\* and the pool need not be destroyed.
FairSpec ==
  /\ Spec
  /\ WF_vars(MainStep)
  /\ \A w \in Workers : WF_vars(WorkerStep(w))

-----------------------------------------------------------------------------
TypeOK ==
  /\ queue \in Seq(Jobs)
  /\ mutex \in Workers \union {NoThread}
  /\ stop \in BOOLEAN
  /\ sleeping \in SUBSET Workers
  /\ pc \in [Workers -> {"loop", "test", "block", "asleep", "woken", "ready", "run", "done"}]
  /\ call \in [Callers -> [stage : {"none", "push", "notify"}, job : Jobs \union {NoJob}]]
  /\ main \in {"running", "notify", "join", "joined", "terminated"}
  /\ submitted \in SUBSET Jobs /\ started \in SUBSET Jobs
  /\ spurious \in Nat

\* The mutex is held exactly around wait's test, and a job is either about to be
\* pushed, in the queue once, or taken.
PoolInv ==
  /\ TypeOK
  /\ \A w \in Workers : pc[w] \in {"test", "block", "ready"} <=> mutex = w
  /\ \A w \in Workers : pc[w] = "asleep" <=> w \in sleeping
  /\ \A i, k \in 1..Len(queue) : queue[i] = queue[k] => i = k
  /\ \A i \in 1..Len(queue) : queue[i] \notin started
  /\ stop <=> main # "running"

\* When the destructor returns every submitted job has been taken by a worker,
\* those that jobs submitted while the pool was being destroyed included.
NoJobAbandoned == main = "joined" => started = submitted

\* A job in the queue is taken by a worker, before or after stop_all is set, unless
\* a job calls EnqueueJob so late that the exception ends the process.
EveryJobStarts == \A j \in Jobs : j \in submitted ~> j \in started \/ main = "terminated"

\* stop_all ends every worker (ThreadPool.h: "end all threads"), so that the
\* destructor's joins return.
StopEndsWorkers == stop ~> main = "terminated" \/ \A w \in Workers : pc[w] = "done"
=============================================================================
