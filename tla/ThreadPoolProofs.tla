-------------------------- MODULE ThreadPoolProofs --------------------------
(***************************************************************************)
(* Proofs about ThreadPool, for any number of workers and jobs: what guards*)
(* m_job_q_ and who owns a job (PoolInv), and that the destructor abandons *)
(* no job (NoJobAbandoned).                                                *)
(***************************************************************************)
EXTENDS ThreadPool, TLAPS, SequenceTheorems

USE ThreadPoolAssumption

\* The states a worker goes through with m_job_q_ in hand.
Inside(w) == pc[w] \in {"test", "block", "ready"}

\* EnqueueJob has checked stop_all and has not pushed yet.
Pushing(c) == call[c].stage = "push"

\* A call of EnqueueJob is made by a job, or by the main thread before it
\* destroys the pool.
CallInv ==
  /\ \A c \in Callers : call[c].stage = "none" => call[c] = NoCall
  /\ \A c \in Callers : call[c].stage # "none" => call[c].job \in submitted
  /\ \A w \in Workers : call[w].stage # "none" => pc[w] = "run"
  /\ call[Main].stage # "none" => main = "running"

\* Who holds the mutex, and who sleeps.
ThreadInv ==
  /\ \A w \in Workers : Inside(w) <=> mutex = w
  /\ \A w \in Workers : pc[w] = "asleep" <=> w \in sleeping
  /\ stop <=> main # "running"

\* A job in the queue is there once, was submitted and is not taken yet; a job
\* that was taken was submitted.
QueueInv ==
  /\ \A i, k \in 1..Len(queue) : queue[i] = queue[k] => i = k
  /\ \A i \in 1..Len(queue) : queue[i] \in submitted /\ queue[i] \notin started
  /\ started \subseteq submitted

\* A job about to be pushed is nowhere else.
PushInv ==
  /\ \A c \in Callers : Pushing(c) => call[c].job \notin started
  /\ \A c \in Callers : Pushing(c) => \A i \in 1..Len(queue) : queue[i] # call[c].job
  /\ \A c, d \in Callers : Pushing(c) /\ Pushing(d) /\ call[c].job = call[d].job => c = d

\* The inductive invariant of PoolInv.
PoolIInv == TypeOK /\ CallInv /\ ThreadInv /\ QueueInv /\ PushInv

\* A submitted job is about to be pushed, in the queue, or taken; a worker has
\* returned only once stop_all was set, and somebody is left to empty the queue.
DutyInv ==
  /\ \A j \in submitted : \/ j \in started
                          \/ \E i \in 1..Len(queue) : queue[i] = j
                          \/ \E c \in Callers : Pushing(c) /\ call[c].job = j
  /\ \A w \in Workers : pc[w] = "done" => stop
  /\ queue # <<>> => \E w \in Workers : pc[w] # "done"
  /\ main = "joined" => \A w \in Workers : pc[w] = "done"

-----------------------------------------------------------------------------
\* The step of a behaviour, sorted by who takes it: a call of EnqueueJob by
\* anybody, a worker, or the main thread.
LEMMA PoolSteps ==
  ASSUME [Next]_vars
  PROVE  \/ UNCHANGED vars
         \/ \E c \in Callers, j \in Jobs : Enqueue(c, j)
         \/ \E c \in Callers : EnqueuePush(c) \/ EnqueueNotify(c)
         \/ \E w \in Workers : \/ WorkerLock(w) \/ WorkerTest(w) \/ WorkerBlock(w)
                               \/ WorkerReturn(w) \/ WorkerTake(w) \/ WorkerFinish(w)
                               \/ SpuriousWakeup(w)
         \/ Stop \/ NotifyAll \/ Join
         \/ \E w \in Workers, j \in Jobs : EnqueueThrows(w, j)
  BY DEF Next, MainStep, WorkerStep, CallStep, Callers

\* Type correctness of every step.
LEMMA PoolTypeStep ==
  ASSUME TypeOK, CallInv, [Next]_vars
  PROVE  TypeOK'
  <1> USE DEF TypeOK
  <1>1. CASE UNCHANGED vars
    BY <1>1 DEF vars
  <1>2. ASSUME NEW c \in Callers, NEW j \in Jobs, Enqueue(c, j) PROVE TypeOK'
    <2>1. [stage |-> "push", job |-> j] \in [stage : {"none", "push", "notify"}, job : Jobs \union {NoJob}]
      OBVIOUS
    <2>2. QED
      BY <1>2, <2>1 DEF Enqueue
  <1>3. ASSUME NEW c \in Callers, EnqueuePush(c) PROVE TypeOK'
    <2>1. call[c].job \in Jobs
      BY <1>3 DEF EnqueuePush, CallInv
    <2>2. QED
      BY <1>3, <2>1 DEF EnqueuePush
  <1>4. ASSUME NEW c \in Callers, EnqueueNotify(c) PROVE TypeOK'
    BY <1>4 DEF EnqueueNotify, NoCall
  <1>5. ASSUME NEW w \in Workers, \/ WorkerLock(w) \/ WorkerTest(w) \/ WorkerBlock(w)
                                  \/ WorkerReturn(w) \/ WorkerFinish(w) \/ SpuriousWakeup(w)
        PROVE  TypeOK'
    BY <1>5 DEF WorkerLock, WorkerTest, WorkerBlock, WorkerReturn, WorkerFinish, SpuriousWakeup
  <1>6. ASSUME NEW w \in Workers, WorkerTake(w) PROVE TypeOK'
    BY <1>6, HeadTailProperties DEF WorkerTake
  <1>7. CASE Stop \/ NotifyAll \/ Join \/ \E w \in Workers, j \in Jobs : EnqueueThrows(w, j)
    BY <1>7 DEF Stop, NotifyAll, Join, EnqueueThrows
  <1>8. QED
    BY <1>1, <1>2, <1>3, <1>4, <1>5, <1>6, <1>7, PoolSteps

\* Who is inside EnqueueJob.
LEMMA PoolCallStep ==
  ASSUME TypeOK, CallInv, ThreadInv, [Next]_vars
  PROVE  CallInv'
  <1> USE DEF TypeOK, CallInv, Callers
  <1>1. CASE UNCHANGED vars
    BY <1>1 DEF vars
  <1>2. ASSUME NEW c \in Callers, NEW j \in Jobs, Enqueue(c, j) PROVE CallInv'
    BY <1>2 DEF Enqueue
  <1>3. ASSUME NEW c \in Callers, EnqueuePush(c) PROVE CallInv'
    BY <1>3 DEF EnqueuePush
  <1>4. ASSUME NEW c \in Callers, EnqueueNotify(c) PROVE CallInv'
    <2>1. \A w \in Workers : pc[w] = "run" => pc'[w] = "run"
      BY <1>4 DEF EnqueueNotify, ThreadInv
    <2>2. call' = [call EXCEPT ![c] = NoCall] /\ UNCHANGED <<main, submitted>>
      BY <1>4 DEF EnqueueNotify
    <2>3. QED
      BY <2>1, <2>2 DEF NoCall
  <1>5. ASSUME NEW w \in Workers, \/ WorkerLock(w) \/ WorkerTest(w) \/ WorkerBlock(w)
                                  \/ WorkerReturn(w) \/ WorkerTake(w) \/ WorkerFinish(w)
                                  \/ SpuriousWakeup(w)
        PROVE  CallInv'
    <2>1. UNCHANGED <<call, main, submitted>>
      BY <1>5 DEF WorkerLock, WorkerTest, WorkerBlock, WorkerReturn, WorkerTake, WorkerFinish, SpuriousWakeup
    <2>2. \A v \in Workers : call[v].stage # "none" => pc'[v] = "run"
      BY <1>5 DEF WorkerLock, WorkerTest, WorkerBlock, WorkerReturn, WorkerTake, WorkerFinish,
                  SpuriousWakeup, NoCall, ThreadInv
    <2>3. QED
      BY <2>1, <2>2
  <1>6. CASE Stop \/ NotifyAll \/ Join \/ \E w \in Workers, j \in Jobs : EnqueueThrows(w, j)
    BY <1>6 DEF Stop, NotifyAll, Join, EnqueueThrows, ThreadInv, NoCall
  <1>7. QED
    BY <1>1, <1>2, <1>3, <1>4, <1>5, <1>6, PoolSteps

\* The mutex and the condition variable.
LEMMA PoolThreadStep ==
  ASSUME TypeOK, ThreadInv, [Next]_vars
  PROVE  ThreadInv'
  <1> USE DEF TypeOK, ThreadInv, Inside
  <1>1. CASE UNCHANGED vars
    BY <1>1 DEF vars
  <1>2. ASSUME NEW c \in Callers, EnqueuePush(c) \/ \E j \in Jobs : Enqueue(c, j) PROVE ThreadInv'
    BY <1>2 DEF EnqueuePush, Enqueue
  <1>3. ASSUME NEW c \in Callers, EnqueueNotify(c) PROVE ThreadInv'
    BY <1>3 DEF EnqueueNotify
  <1>4. ASSUME NEW w \in Workers, \/ WorkerLock(w) \/ WorkerTest(w) \/ WorkerBlock(w)
                                  \/ WorkerReturn(w) \/ WorkerTake(w) \/ WorkerFinish(w)
                                  \/ SpuriousWakeup(w)
        PROVE  ThreadInv'
    BY <1>4 DEF WorkerLock, WorkerTest, WorkerBlock, WorkerReturn, WorkerTake, WorkerFinish, SpuriousWakeup
  <1>5. CASE Stop \/ NotifyAll \/ Join \/ \E w \in Workers, j \in Jobs : EnqueueThrows(w, j)
    BY <1>5 DEF Stop, NotifyAll, Join, EnqueueThrows
  <1>6. QED
    BY <1>1, <1>2, <1>3, <1>4, <1>5, PoolSteps

\* The jobs, in the queue and on their way there.
LEMMA PoolJobStep ==
  ASSUME PoolIInv, [Next]_vars
  PROVE  QueueInv' /\ PushInv'
  <1> USE DEF PoolIInv, TypeOK, CallInv, QueueInv, PushInv, Pushing
  <1>1. CASE UNCHANGED vars
    BY <1>1 DEF vars
  <1>2. ASSUME NEW c \in Callers, NEW j \in Jobs, Enqueue(c, j) PROVE QueueInv' /\ PushInv'
    BY <1>2 DEF Enqueue
  <1>3. ASSUME NEW c \in Callers, EnqueuePush(c) PROVE QueueInv' /\ PushInv'
    BY <1>3 DEF EnqueuePush
  <1>4. ASSUME NEW c \in Callers, EnqueueNotify(c) PROVE QueueInv' /\ PushInv'
    BY <1>4 DEF EnqueueNotify, NoCall
  <1>5. ASSUME NEW w \in Workers, WorkerTake(w) PROVE QueueInv' /\ PushInv'
    <2>1. /\ Len(queue') = Len(queue) - 1 /\ Len(queue) \in Nat \ {0}
          /\ \A i \in 1..Len(queue') : queue'[i] = queue[i + 1]
          /\ started' = started \union {queue[1]}
          /\ UNCHANGED <<call, submitted>>
      BY <1>5, HeadTailProperties, EmptySeq DEF WorkerTake
    <2>2. \A i \in 1..Len(queue') : i + 1 \in 1..Len(queue)
      BY <2>1
    <2>3. 1 \in 1..Len(queue)
      BY <2>1
    <2>4. \A i \in 1..Len(queue') : queue'[i] # queue[1]
      BY <2>1, <2>2, <2>3
    <2>5. QueueInv'
      BY <2>1, <2>2, <2>3, <2>4
    <2>6. PushInv'
      BY <2>1, <2>2, <2>3
    <2>7. QED
      BY <2>5, <2>6
  <1>6. ASSUME NEW w \in Workers, \/ WorkerLock(w) \/ WorkerTest(w) \/ WorkerBlock(w)
                                  \/ WorkerReturn(w) \/ WorkerFinish(w) \/ SpuriousWakeup(w)
        PROVE  QueueInv' /\ PushInv'
    <2>1. UNCHANGED <<queue, call, submitted, started>>
      BY <1>6 DEF WorkerLock, WorkerTest, WorkerBlock, WorkerReturn, WorkerFinish, SpuriousWakeup
    <2>2. QED
      BY <2>1
  <1>7. CASE Stop \/ NotifyAll \/ Join \/ \E w \in Workers, j \in Jobs : EnqueueThrows(w, j)
    BY <1>7 DEF Stop, NotifyAll, Join, EnqueueThrows
  <1>8. QED
    BY <1>1, <1>2, <1>3, <1>4, <1>5, <1>6, <1>7, PoolSteps

\* The initial state, and the invariant of the pool.
THEOREM PoolIsInvariant == Spec => []PoolIInv
  <1>1. Init => PoolIInv
    <2> SUFFICES ASSUME Init PROVE PoolIInv
      OBVIOUS
    <2>1. NoCall \in [stage : {"none", "push", "notify"}, job : Jobs \union {NoJob}]
      BY DEF NoCall
    <2>2. TypeOK
      BY <2>1, EmptySeq DEF Init, TypeOK
    <2>3. CallInv /\ PushInv
      BY DEF Init, CallInv, PushInv, NoCall, Pushing, Callers
    <2>4. ThreadInv /\ QueueInv
      BY DEF Init, ThreadInv, QueueInv, Inside
    <2>5. QED
      BY <2>2, <2>3, <2>4 DEF PoolIInv
  <1>2. PoolIInv /\ [Next]_vars => PoolIInv'
    BY PoolTypeStep, PoolCallStep, PoolThreadStep, PoolJobStep DEF PoolIInv
  <1>3. QED
    BY <1>1, <1>2, PTL DEF Spec

\* The mutex is held exactly around wait's test and the pop, a sleeper is on the
\* condition variable, and no job is in the queue twice or after it was taken.
THEOREM PoolIsSound == Spec => []PoolInv
  <1>1. PoolIInv => PoolInv
    BY DEF PoolIInv, PoolInv, ThreadInv, QueueInv, Inside
  <1>2. QED
    BY <1>1, PoolIsInvariant, PTL

-----------------------------------------------------------------------------
\* Somebody is left to take every job that was submitted.
LEMMA PoolDutyStep ==
  ASSUME Workers # {}, PoolIInv, DutyInv, [Next]_vars
  PROVE  DutyInv'
  <1> USE DEF PoolIInv, TypeOK, CallInv, ThreadInv, DutyInv, Pushing
  <1>1. CASE UNCHANGED vars
    BY <1>1 DEF vars
  <1>2. ASSUME NEW c \in Callers, NEW j \in Jobs, Enqueue(c, j) PROVE DutyInv'
    <2>1. /\ call' = [call EXCEPT ![c] = [stage |-> "push", job |-> j]]
          /\ submitted' = submitted \union {j} /\ ~ Pushing(c)
          /\ UNCHANGED <<queue, stop, pc, main, started>>
      BY <1>2 DEF Enqueue, NoCall
    <2>2. Pushing(c)' /\ call'[c].job = j /\ \A d \in Callers : Pushing(d) => call'[d] = call[d]
      BY <2>1
    <2>3. QED
      BY <2>1, <2>2
  <1>3. ASSUME NEW c \in Callers, EnqueuePush(c) PROVE DutyInv'
    <2>1. /\ Len(queue') = Len(queue) + 1 /\ Len(queue) \in Nat
          /\ queue'[Len(queue) + 1] = call[c].job
          /\ \A i \in 1..Len(queue) : queue'[i] = queue[i]
          /\ \A d \in Callers \ {c} : call'[d] = call[d]
          /\ UNCHANGED <<stop, pc, main, submitted, started>>
      BY <1>3 DEF EnqueuePush
    <2>2. \A i \in 1..Len(queue) : i \in 1..Len(queue')
      BY <2>1
    <2>3. Len(queue) + 1 \in 1..Len(queue')
      BY <2>1
    <2>4. \A k \in submitted' : \/ k \in started'
                                \/ \E i \in 1..Len(queue') : queue'[i] = k
                                \/ \E d \in Callers : Pushing(d)' /\ call'[d].job = k
      <3> SUFFICES ASSUME NEW k \in submitted
                   PROVE  \/ k \in started
                          \/ \E i \in 1..Len(queue') : queue'[i] = k
                          \/ \E d \in Callers : Pushing(d)' /\ call'[d].job = k
        BY <2>1
      <3>1. CASE \E i \in 1..Len(queue) : queue[i] = k
        BY <3>1, <2>1, <2>2
      <3>2. CASE k = call[c].job
        BY <3>2, <2>1, <2>3
      <3>3. CASE \E d \in Callers \ {c} : Pushing(d) /\ call[d].job = k
        BY <3>3, <2>1
      <3>4. QED
        BY <3>1, <3>2, <3>3
    <2>5. \E w \in Workers : pc[w] # "done"
      BY <1>3 DEF EnqueuePush, Callers
    <2>6. QED
      BY <2>1, <2>4, <2>5
  <1>4. ASSUME NEW c \in Callers, EnqueueNotify(c) PROVE DutyInv'
    <2>1. \A w \in Workers : pc'[w] = "done" <=> pc[w] = "done"
      BY <1>4 DEF EnqueueNotify
    <2>2. /\ \A d \in Callers : Pushing(d) => call'[d] = call[d]
          /\ UNCHANGED <<queue, stop, main, submitted, started>>
      BY <1>4 DEF EnqueueNotify
    <2>3. QED
      BY <2>1, <2>2
  <1>5. ASSUME NEW w \in Workers, WorkerTake(w) PROVE DutyInv'
    <2>1. /\ Len(queue') = Len(queue) - 1 /\ Len(queue) \in Nat \ {0}
          /\ \A i \in 1..Len(queue') : queue'[i] = queue[i + 1]
          /\ started' = started \union {queue[1]}
          /\ pc' = [pc EXCEPT ![w] = "run"]
          /\ UNCHANGED <<call, stop, main, submitted>>
      BY <1>5, HeadTailProperties, EmptySeq DEF WorkerTake
    <2>2. \A i \in 1..Len(queue) : i = 1 \/ (i - 1 \in 1..Len(queue') /\ queue'[i - 1] = queue[i])
      BY <2>1
    <2>3. \A k \in submitted' : \/ k \in started'
                                \/ \E i \in 1..Len(queue') : queue'[i] = k
                                \/ \E d \in Callers : Pushing(d)' /\ call'[d].job = k
      BY <2>1, <2>2
    <2>4. pc'[w] # "done" /\ main # "joined"
      BY <1>5, <2>1 DEF WorkerTake
    <2>5. QED
      BY <2>1, <2>3, <2>4
  <1>6. ASSUME NEW w \in Workers, WorkerReturn(w) PROVE DutyInv'
    BY <1>6 DEF WorkerReturn
  <1>7. ASSUME NEW w \in Workers, \/ WorkerLock(w) \/ WorkerTest(w) \/ WorkerBlock(w)
                                  \/ WorkerFinish(w) \/ SpuriousWakeup(w)
        PROVE  DutyInv'
    <2>1. UNCHANGED <<queue, stop, call, main, submitted, started>>
      BY <1>7 DEF WorkerLock, WorkerTest, WorkerBlock, WorkerFinish, SpuriousWakeup
    <2>2. \A v \in Workers : pc'[v] = "done" <=> pc[v] = "done"
      BY <1>7 DEF WorkerLock, WorkerTest, WorkerBlock, WorkerFinish, SpuriousWakeup
    <2>3. QED
      BY <2>1, <2>2
  <1>8. CASE Stop \/ Join \/ \E w \in Workers, j \in Jobs : EnqueueThrows(w, j)
    BY <1>8 DEF Stop, Join, EnqueueThrows
  <1>9. CASE NotifyAll
    <2>1. \A v \in Workers : pc'[v] = "done" <=> pc[v] = "done"
      BY <1>9 DEF NotifyAll
    <2>2. main' = "join" /\ UNCHANGED <<queue, stop, call, submitted, started>>
      BY <1>9 DEF NotifyAll
    <2>3. QED
      BY <2>1, <2>2
  <1>10. QED
    BY <1>1, <1>2, <1>3, <1>4, <1>5, <1>6, <1>7, <1>8, <1>9, PoolSteps

\* The destructor abandons no job, whoever submitted it: when its joins have
\* returned every submitted job was taken. A pool without workers takes none.
THEOREM PoolFinishesItsJobs ==
  ASSUME Workers # {}
  PROVE  Spec => []NoJobAbandoned
  <1>1. Init => DutyInv
    BY DEF Init, DutyInv
  <1>2. PoolIInv /\ DutyInv /\ [Next]_vars => DutyInv'
    BY PoolDutyStep
  <1>3. PoolIInv /\ DutyInv => NoJobAbandoned
    <2> SUFFICES ASSUME PoolIInv, DutyInv, main = "joined" PROVE started = submitted
      BY DEF NoJobAbandoned
    <2>1. \A w \in Workers : pc[w] = "done"
      BY DEF DutyInv
    <2>2. queue = <<>>
      BY <2>1 DEF DutyInv
    <2>3. \A c \in Callers : ~ Pushing(c)
      BY <2>1 DEF PoolIInv, CallInv, Pushing, Callers
    <2>4. \A i \in 1..Len(queue) : FALSE
      BY <2>2
    <2>5. QED
      BY <2>3, <2>4 DEF PoolIInv, QueueInv, DutyInv
  <1>4. QED
    BY <1>1, <1>2, <1>3, PoolIsInvariant, PTL DEF Spec

-----------------------------------------------------------------------------
\* A worker that has decided to block has seen the queue empty, and nobody has
\* pushed since; while there is a job somebody is awake, or about to be woken.
AwakeInv ==
  /\ \A w \in Workers : pc[w] = "block" => queue = <<>>
  /\ queue # <<>> => \/ \E w \in Workers : pc[w] \in {"loop", "woken", "test", "ready", "run"}
                     \/ \E c \in Callers : call[c].stage = "notify"

\* Every step keeps somebody awake for the jobs in the queue.
LEMMA PoolAwakeStep ==
  ASSUME Workers # {}, PoolIInv, PoolIInv', DutyInv, AwakeInv, [Next]_vars
  PROVE  AwakeInv'
  <1> USE DEF PoolIInv, TypeOK, ThreadInv, AwakeInv
  <1>1. CASE UNCHANGED vars
    BY <1>1 DEF vars
  <1>2. ASSUME NEW c \in Callers, NEW j \in Jobs, Enqueue(c, j) PROVE AwakeInv'
    <2>1. call[c].stage # "notify"
      BY <1>2 DEF Enqueue, NoCall
    <2>2. /\ \A d \in Callers : call[d].stage = "notify" => call'[d].stage = "notify"
          /\ UNCHANGED <<queue, pc>>
      BY <1>2, <2>1 DEF Enqueue
    <2>3. QED
      BY <2>2
  <1>3. ASSUME NEW c \in Callers, EnqueuePush(c) PROVE AwakeInv'
    <2>1. \A w \in Workers : pc'[w] # "block"
      BY <1>3 DEF EnqueuePush, Inside
    <2>2. call'[c].stage = "notify"
      BY <1>3 DEF EnqueuePush
    <2>3. QED
      BY <2>1, <2>2
  <1>4. ASSUME NEW c \in Callers, EnqueueNotify(c) PROVE AwakeInv'
    <2>1. queue' = queue /\ \A w \in Workers : pc'[w] = "block" => pc[w] = "block"
      BY <1>4 DEF EnqueueNotify
    <2>2. ASSUME queue # <<>>
          PROVE  \E w \in Workers : pc'[w] \in {"loop", "woken", "test", "ready", "run"}
      <3>1. CASE sleeping = {}
        <4>1. PICK w \in Workers : pc[w] # "done"
          BY <2>2 DEF DutyInv
        <4>2. pc[w] \notin {"asleep", "block"} /\ pc' = pc
          BY <1>4, <2>2, <3>1 DEF EnqueueNotify
        <4>3. QED
          BY <4>1, <4>2
      <3>2. CASE sleeping # {}
        BY <1>4, <3>2 DEF EnqueueNotify
      <3>3. QED
        BY <3>1, <3>2
    <2>3. QED
      BY <2>1, <2>2
  <1>5. ASSUME NEW w \in Workers, \/ WorkerLock(w) \/ WorkerTest(w) \/ WorkerFinish(w)
                                  \/ SpuriousWakeup(w)
        PROVE  AwakeInv'
    <2>1. UNCHANGED <<queue, call>>
      BY <1>5 DEF WorkerLock, WorkerTest, WorkerFinish, SpuriousWakeup
    <2>2. /\ \A v \in Workers \ {w} : pc'[v] = pc[v]
          /\ pc'[w] \in {"test", "ready", "loop", "woken"} \/ (pc'[w] = "block" /\ queue = <<>>)
      BY <1>5 DEF WorkerLock, WorkerTest, WorkerFinish, SpuriousWakeup
    <2>3. QED
      BY <2>1, <2>2
  <1>6. ASSUME NEW w \in Workers, WorkerBlock(w) \/ WorkerReturn(w) PROVE AwakeInv'
    <2>1. queue' = <<>>
      BY <1>6 DEF WorkerBlock, WorkerReturn
    <2>2. QED
      BY <2>1
  <1>7. ASSUME NEW w \in Workers, WorkerTake(w) PROVE AwakeInv'
    <2>1. pc' = [pc EXCEPT ![w] = "run"] /\ \A v \in Workers \ {w} : pc'[v] # "block"
      BY <1>7 DEF WorkerTake, Inside
    <2>2. QED
      BY <2>1
  <1>8. CASE Stop \/ Join \/ \E w \in Workers, j \in Jobs : EnqueueThrows(w, j)
    BY <1>8 DEF Stop, Join, EnqueueThrows
  <1>9. CASE NotifyAll
    <2>1. UNCHANGED <<queue, call>> /\ \A v \in Workers : pc'[v] = pc[v] \/ pc'[v] = "woken"
      BY <1>9 DEF NotifyAll
    <2>2. QED
      BY <2>1
  <1>10. QED
    BY <1>1, <1>2, <1>3, <1>4, <1>5, <1>6, <1>7, <1>8, <1>9, PoolSteps

\* What EveryJobStarts rests on: no wakeup is lost. While a job is in the queue
\* not all the workers sleep or have returned, unless the call that pushed one has
\* yet to notify; stop_all, which is set without the mutex, cannot break it.
THEOREM NoWakeupLost ==
  ASSUME Workers # {}
  PROVE  Spec => []AwakeInv
  <1>1. Init => DutyInv /\ AwakeInv
    BY DEF Init, DutyInv, AwakeInv
  <1>2. PoolIInv /\ PoolIInv' /\ DutyInv /\ AwakeInv /\ [Next]_vars => DutyInv' /\ AwakeInv'
    BY PoolDutyStep, PoolAwakeStep
  <1>3. QED
    BY <1>1, <1>2, PoolIsInvariant, PTL DEF Spec
=============================================================================
